----------------------------- MODULE ChanProofs -----------------------------
(***************************************************************************)
(* Chan is well typed, strands nobody next to something that is ready,     *)
(* tells every caller what happened to its operation, and implements       *)
(* GoChan; so it delivers every value exactly once.  The argument is the   *)
(* invariant IInv.  Frame lemmas say what a step that moves few threads    *)
(* has to show of each part of it; then there is one lemma per action, and *)
(* the steps of GoChan are read off a step that satisfies it.  Then the    *)
(* locks of select on these channels; and, with SInv and AInv in place of  *)
(* IInv, that select() and the asyncio bridge keep the same promise.       *)
(***************************************************************************)
EXTENDS Aio, SequenceTheorems, WellFoundedInduction, FiniteSetTheorems, TLAPS

-----------------------------------------------------------------------------
(* The helpers on queues.                                                  *)

LEMMA AfterProperties ==
  ASSUME NEW S, NEW q \in Seq(S), NEW j \in DOMAIN q
  PROVE  /\ After(q, j) \in Seq(S)
         /\ \A k \in DOMAIN After(q, j) : k + j \in DOMAIN q /\ After(q, j)[k] = q[k + j]
<1>1. j \in 1..Len(q) /\ Len(q) \in Nat /\ DOMAIN q = 1..Len(q)
  OBVIOUS
<1>2. DOMAIN After(q, j) = 1..(Len(q) - j)
  BY DEF After
<1>3. \A k \in 1..(Len(q) - j) : k + j \in DOMAIN q /\ After(q, j)[k] = q[k + j] /\ q[k + j] \in S
  BY <1>1 DEF After
<1>4. Len(q) - j \in Nat
  BY <1>1
<1>5. After(q, j) \in Seq(S)
  BY <1>3, <1>4, IsASeq DEF After
<1> QED
  BY <1>2, <1>3, <1>5

Distinct(q) == \A j, k \in DOMAIN q : q[j].w = q[k].w => j = k

LEMMA WithoutProperties ==
  ASSUME NEW q \in Seq(Entry), NEW w
  PROVE  /\ Without(q, w) \in Seq(Entry)
         /\ \A k \in DOMAIN Without(q, w) : \E m \in DOMAIN q : Without(q, w)[k] = q[m]
         /\ Distinct(q) =>
              /\ Distinct(Without(q, w))
              /\ \A k \in DOMAIN Without(q, w) : Without(q, w)[k].w # w
<1>1. CASE ~\E j \in DOMAIN q : q[j].w = w
  BY <1>1 DEF Without
<1>2. CASE \E j \in DOMAIN q : q[j].w = w
  <2> DEFINE i == CHOOSE j \in DOMAIN q : q[j].w = w
             r == [k \in 1..(Len(q) - 1) |-> IF k < i THEN q[k] ELSE q[k + 1]]
             Old(k) == IF k < i THEN k ELSE k + 1
  <2>1. i \in DOMAIN q /\ q[i].w = w
    BY <1>2
  <2>2. Without(q, w) = r
    BY <1>2 DEF Without
  <2> HIDE DEF i
  <2>3. i \in 1..Len(q) /\ Len(q) \in Nat /\ DOMAIN q = 1..Len(q) /\ Len(q) - 1 \in Nat
    BY <2>1
  <2>4. DOMAIN r = 1..(Len(q) - 1)
    OBVIOUS
  <2>5. \A k \in DOMAIN r : Old(k) \in DOMAIN q /\ r[k] = q[Old(k)] /\ Old(k) # i
    BY <2>3
  <2>6. \A j, k \in DOMAIN r : Old(j) = Old(k) => j = k
    BY <2>3
  <2> HIDE DEF r, Old
  <2>7. r \in Seq(Entry)
    <3>1. \A k \in 1..(Len(q) - 1) : r[k] \in Entry
      BY <2>4, <2>5
    <3> QED
      BY <2>3, <3>1, IsASeq DEF r
  <2>8. Distinct(q) => Distinct(r) /\ \A k \in DOMAIN r : r[k].w # w
    BY <2>1, <2>5, <2>6 DEF Distinct
  <2> QED
    BY <2>2, <2>5, <2>7, <2>8
<1> QED
  BY <1>1, <1>2

-----------------------------------------------------------------------------
(* Type correctness.                                                       *)

LEMMA CurIsOp ==
  ASSUME TypeOK, NEW p \in Procs, pc[p] # "idle"
  PROVE  Cur(p) \in Op
BY ChanAssumption DEF TypeOK, DataTypeOK, CallsTypeOK, Cur, Op

LEMMA InitType == ASSUME Init PROVE TypeOK
<1>1. CallsTypeOK
  BY ChanAssumption DEF Init, CallsInit, CallsTypeOK, Outcomes, Outcome, NoIndex
<1>2. NoOutcome \in Outcomes(Op \cup {Unset}) /\ NoOutcome \in Outcomes(Values)
  BY DEF NoOutcome, Outcomes, Outcome, NoIndex, Values
<1> QED
  BY <1>1, <1>2 DEF Init, TypeOK, DataTypeOK, Values, NoHand, PCs

LEMMA InvokeType == ASSUME TypeOK, NEW p \in Procs, Invoke(p) PROVE TypeOK'
<1>1. PICK cl \in Calls[p] : call' = [call EXCEPT ![p] = cl]
  BY DEF Invoke, NewCall
<1>2. call' \in [Procs -> {NoCall} \cup UNION {Calls[q] : q \in Procs}]
  BY <1>1 DEF TypeOK, DataTypeOK, CallsTypeOK
<1>3. Outcome("pending", NoIndex, Unset) \in Outcomes(Op \cup {Unset})
  BY DEF Outcomes, Outcome, NoIndex
<1>4. lin' \in [Op -> Outcomes(Op \cup {Unset})]
  BY <1>3 DEF Invoke, NewCall, TypeOK, DataTypeOK, CallsTypeOK
<1>5. nops' \in [Procs -> 0..MaxOps] /\ nops'[p] > 0 /\ \A q \in Procs : q # p => nops'[q] = nops[q]
  BY ChanAssumption DEF Invoke, NewCall, TypeOK, DataTypeOK, CallsTypeOK
<1>6. closed' \in [Chans -> BOOLEAN] /\ buf' \in [Chans -> Seq(Op)]
  BY DEF Invoke, NewCall, TypeOK, DataTypeOK, CallsTypeOK
<1>7. CallsTypeOK'
  BY <1>2, <1>4, <1>5, <1>6 DEF CallsTypeOK
<1>8. \A q \in Procs : pc'[q] # "idle" => nops'[q] > 0
  BY <1>5 DEF Invoke, TypeOK, DataTypeOK
<1> QED
  BY <1>7, <1>8 DEF Invoke, TypeOK, DataTypeOK, waiters, PCs
LEMMA OutcomeType ==
  /\ \A st \in {"none", "pending", "ok", "closed", "timeout", "wouldblock", "done"} :
       \A i \in Int : \A v \in Op \cup {Unset} :
         Outcome(st, i, v) \in Outcomes(Op \cup {Unset})
  /\ Outcomes(Op \cup {Unset}) \subseteq Outcomes(Values)
  /\ NoOutcome \in Outcomes(Op \cup {Unset})
  /\ NoIndex \in Int /\ TimeoutIndex \in Int /\ 0 \in Int
BY DEF Outcome, Outcomes, NoOutcome, NoIndex, TimeoutIndex, Values

LEMMA UnlockedType ==
  ASSUME TypeOK, NEW p \in Procs
  PROVE  Unlocked(p) \in [Chans -> Procs \cup {NoProc}]
BY DEF Unlocked, TypeOK, DataTypeOK

LEMMA HeadTail ==
  ASSUME TypeOK, NEW c \in Chans, buf[c] # <<>>
  PROVE  Head(buf[c]) \in Op /\ Tail(buf[c]) \in Seq(Op)
BY HeadTailProperties DEF TypeOK, DataTypeOK, CallsTypeOK

(* A step that ends p's call with outcome out.                             *)
LEMMA TakeEffectType ==
  ASSUME TypeOK, NEW p \in Procs, NEW out \in Outcomes(Op \cup {Unset}), TakeEffect(p, out)
  PROVE  /\ lin' \in [Op -> Outcomes(Op \cup {Unset})]
         /\ res' \in [Procs -> Outcomes(Values)]
         /\ lock' \in [Chans -> Procs \cup {NoProc}]
         /\ pc' = [pc EXCEPT ![p] = "idle"]
BY UnlockedType, OutcomeType DEF TakeEffect, Return, TypeOK, DataTypeOK, CallsTypeOK

(* A step in which p commits entry e.                                      *)
LEMMA CommitType ==
  ASSUME TypeOK, NEW p \in Procs, NEW e \in Entry,
         NEW theirs \in Outcomes(Op \cup {Unset}), NEW v \in Values,
         NEW out \in Outcomes(Op \cup {Unset}), Commit(p, e, theirs, v, out)
  PROVE  /\ index' \in [Op -> Nat \cup {NoIndex, TimeoutIndex}]
         /\ lin' \in [Op -> Outcomes(Op \cup {Unset})]
         /\ hand' \in [Procs -> [w: Op \cup {Unset}, v: Values,
                                 out: Outcomes(Op \cup {Unset})]]
         /\ pc' = [pc EXCEPT ![p] = "finish"]
<1>1. e.w \in Op /\ e.i \in Nat
  BY DEF Entry
<1>2. [w |-> e.w, v |-> v, out |-> out]
        \in [w: Op \cup {Unset}, v: Values, out: Outcomes(Op \cup {Unset})]
  BY <1>1
<1>3. hand' \in [Procs -> [w: Op \cup {Unset}, v: Values, out: Outcomes(Op \cup {Unset})]]
  BY <1>2 DEF Commit, TypeOK, DataTypeOK
<1>4. index' \in [Op -> Nat \cup {NoIndex, TimeoutIndex}]
  BY <1>1 DEF Commit, TypeOK, DataTypeOK
<1>5. lin' \in [Op -> Outcomes(Op \cup {Unset})]
  BY DEF Commit, TypeOK, DataTypeOK, CallsTypeOK
<1> QED
  BY <1>3, <1>4, <1>5 DEF Commit

(* What is left of TypeOK' when a step moved only p.                       *)
LEMMA MoveType ==
  ASSUME TypeOK, NEW p \in Procs, NEW to \in PCs,
         pc[p] # "idle" \/ to = "idle",
         pc' = [pc EXCEPT ![p] = to], nops' = nops
  PROVE  pc' \in [Procs -> PCs] /\ \A q \in Procs : pc'[q] # "idle" => nops'[q] > 0
BY DEF TypeOK, DataTypeOK, PCs

LEMMA EmptyQueueType ==
  ASSUME NEW q \in [Chans -> Seq(Entry)], NEW c \in Chans
  PROVE  [q EXCEPT ![c] = <<>>] \in [Chans -> Seq(Entry)]
OBVIOUS

LEMMA AfterQueueType ==
  ASSUME NEW q \in [Chans -> Seq(Entry)], NEW c \in Chans, NEW j \in DOMAIN q[c]
  PROVE  /\ q[c][j] \in Entry
         /\ [q EXCEPT ![c] = After(q[c], j)] \in [Chans -> Seq(Entry)]
<1>1. After(q[c], j) \in Seq(Entry)
  BY AfterProperties
<1>2. q[c] \in Seq(Entry)
  OBVIOUS
<1>3. q[c][j] \in Entry
  BY <1>2, ElementOfSeq
<1> QED
  BY <1>1, <1>3

LEMMA SendHandoffType ==
  ASSUME TypeOK, NEW p \in Procs, pc[p] = "start", NEW i \in Nat, NEW c \in Chans,
         SendHandoff(p, i, c)
  PROVE  TypeOK'
<1>1. PICK j \in DOMAIN recvQ[c] :
        /\ Commit(p, recvQ[c][j], Outcome("ok", recvQ[c][j].i, Cur(p)), Cur(p),
                  Outcome("ok", i, Unset))
        /\ recvQ' = [recvQ EXCEPT ![c] = After(recvQ[c], j)]
  BY DEF SendHandoff
<1>2. recvQ[c][j] \in Entry /\ recvQ' \in [Chans -> Seq(Entry)]
  BY <1>1, AfterQueueType DEF TypeOK, DataTypeOK
<1>3. Cur(p) \in Op /\ Cur(p) \in Values /\ recvQ[c][j].i \in Int
  BY <1>2, CurIsOp DEF Values, Entry
<1>4. /\ Outcome("ok", recvQ[c][j].i, Cur(p)) \in Outcomes(Op \cup {Unset})
      /\ Outcome("ok", i, Unset) \in Outcomes(Op \cup {Unset})
  BY <1>3, OutcomeType
<1>5. /\ index' \in [Op -> Nat \cup {NoIndex, TimeoutIndex}]
      /\ lin' \in [Op -> Outcomes(Op \cup {Unset})]
      /\ hand' \in [Procs -> [w: Op \cup {Unset}, v: Values, out: Outcomes(Op \cup {Unset})]]
      /\ pc' = [pc EXCEPT ![p] = "finish"]
  BY <1>1, <1>2, <1>3, <1>4, CommitType
<1>6. pc' \in [Procs -> PCs] /\ \A q \in Procs : pc'[q] # "idle" => nops'[q] > 0
  BY <1>5, MoveType DEF SendHandoff, PCs
<1>7. CallsTypeOK'
  BY <1>5 DEF SendHandoff, TypeOK, DataTypeOK, CallsTypeOK
<1> QED
  BY <1>2, <1>5, <1>6, <1>7 DEF SendHandoff, TypeOK, DataTypeOK, PCs

LEMMA SendBufferType ==
  ASSUME TypeOK, NEW p \in Procs, pc[p] = "start", NEW i \in Nat, NEW c \in Chans,
         SendBuffer(p, i, c)
  PROVE  TypeOK'
<1>1. Outcome("ok", i, Unset) \in Outcomes(Op \cup {Unset})
  BY OutcomeType
<1>2. /\ lin' \in [Op -> Outcomes(Op \cup {Unset})]
      /\ res' \in [Procs -> Outcomes(Values)]
      /\ lock' \in [Chans -> Procs \cup {NoProc}]
      /\ pc' = [pc EXCEPT ![p] = "idle"]
  BY <1>1, TakeEffectType DEF SendBuffer
<1>3. pc' \in [Procs -> PCs] /\ \A q \in Procs : pc'[q] # "idle" => nops'[q] > 0
  BY <1>2, MoveType DEF SendBuffer, PCs
<1>4. buf' \in [Chans -> Seq(Op)]
  <2>1. Append(buf[c], Cur(p)) \in Seq(Op)
    <3>1. Cur(p) \in Op /\ buf[c] \in Seq(Op)
      BY CurIsOp DEF TypeOK, DataTypeOK, CallsTypeOK
    <3> QED
      BY <3>1, AppendProperties
  <2> QED
    BY <2>1 DEF SendBuffer, TypeOK, DataTypeOK, CallsTypeOK
<1>5. recvQ' \in [Chans -> Seq(Entry)]
  BY EmptyQueueType DEF SendBuffer, TypeOK, DataTypeOK
<1>6. CallsTypeOK'
  BY <1>2, <1>4 DEF SendBuffer, TypeOK, DataTypeOK, CallsTypeOK
<1> QED
  BY <1>2, <1>3, <1>5, <1>6 DEF SendBuffer, TypeOK, DataTypeOK, PCs, waiters

LEMMA SendClosedType ==
  ASSUME TypeOK, NEW p \in Procs, pc[p] = "start", NEW i \in Nat, NEW c \in Chans,
         SendClosed(p, i, c)
  PROVE  TypeOK'
<1>1. Outcome("closed", i, Unset) \in Outcomes(Op \cup {Unset})
  BY OutcomeType
<1>2. /\ lin' \in [Op -> Outcomes(Op \cup {Unset})]
      /\ res' \in [Procs -> Outcomes(Values)]
      /\ lock' \in [Chans -> Procs \cup {NoProc}]
      /\ pc' = [pc EXCEPT ![p] = "idle"]
  BY <1>1, TakeEffectType DEF SendClosed
<1>3. pc' \in [Procs -> PCs] /\ \A q \in Procs : pc'[q] # "idle" => nops'[q] > 0
  BY <1>2, MoveType DEF SendClosed, PCs
<1>4. CallsTypeOK'
  BY <1>2 DEF SendClosed, TypeOK, DataTypeOK, CallsTypeOK
<1> QED
  BY <1>2, <1>3, <1>4 DEF SendClosed, TypeOK, DataTypeOK, PCs, waiters
LEMMA RecvTakeType ==
  ASSUME TypeOK, NEW p \in Procs, pc[p] = "start", NEW i \in Nat, NEW c \in Chans,
         RecvTake(p, i, c)
  PROVE  TypeOK'
<1>1. Outcome("ok", i, Head(buf[c])) \in Outcomes(Op \cup {Unset})
  <2>1. Head(buf[c]) \in Op \cup {Unset} /\ i \in Int
    BY HeadTail DEF RecvTake
  <2> QED
    BY <2>1, OutcomeType
<1>2. /\ lin' \in [Op -> Outcomes(Op \cup {Unset})]
      /\ res' \in [Procs -> Outcomes(Values)]
      /\ lock' \in [Chans -> Procs \cup {NoProc}]
      /\ pc' = [pc EXCEPT ![p] = "idle"]
  BY <1>1, TakeEffectType DEF RecvTake
<1>3. pc' \in [Procs -> PCs] /\ \A q \in Procs : pc'[q] # "idle" => nops'[q] > 0
  BY <1>2, MoveType DEF RecvTake, PCs
<1>4. buf' \in [Chans -> Seq(Op)]
  <2>1. Tail(buf[c]) \in Seq(Op)
    BY HeadTail DEF RecvTake
  <2> QED
    BY <2>1 DEF RecvTake, TypeOK, DataTypeOK, CallsTypeOK
<1>5. sendQ' \in [Chans -> Seq(Entry)]
  BY EmptyQueueType DEF RecvTake, TypeOK, DataTypeOK
<1>6. CallsTypeOK'
  BY <1>2, <1>4 DEF RecvTake, TypeOK, DataTypeOK, CallsTypeOK
<1> QED
  BY <1>2, <1>3, <1>5, <1>6 DEF RecvTake, TypeOK, DataTypeOK, PCs, waiters

LEMMA RecvClosedType ==
  ASSUME TypeOK, NEW p \in Procs, pc[p] = "start", NEW i \in Nat, NEW c \in Chans,
         RecvClosed(p, i, c)
  PROVE  TypeOK'
<1>1. Outcome("closed", i, Unset) \in Outcomes(Op \cup {Unset})
  BY OutcomeType
<1>2. /\ lin' \in [Op -> Outcomes(Op \cup {Unset})]
      /\ res' \in [Procs -> Outcomes(Values)]
      /\ lock' \in [Chans -> Procs \cup {NoProc}]
      /\ pc' = [pc EXCEPT ![p] = "idle"]
  BY <1>1, TakeEffectType DEF RecvClosed
<1>3. pc' \in [Procs -> PCs] /\ \A q \in Procs : pc'[q] # "idle" => nops'[q] > 0
  BY <1>2, MoveType DEF RecvClosed, PCs
<1>4. buf' \in [Chans -> Seq(Op)]
  BY DEF RecvClosed, TypeOK, DataTypeOK, CallsTypeOK
<1>5. sendQ' \in [Chans -> Seq(Entry)]
  BY EmptyQueueType DEF RecvClosed, TypeOK, DataTypeOK
<1>6. CallsTypeOK'
  BY <1>2, <1>4 DEF RecvClosed, TypeOK, DataTypeOK, CallsTypeOK
<1> QED
  BY <1>2, <1>3, <1>5, <1>6 DEF RecvClosed, TypeOK, DataTypeOK, PCs, waiters

LEMMA RecvTakePromoteType ==
  ASSUME TypeOK, NEW p \in Procs, pc[p] = "start", NEW i \in Nat, NEW c \in Chans,
         RecvTakePromote(p, i, c)
  PROVE  TypeOK'
<1>1. PICK j \in DOMAIN sendQ[c] :
        LET e == sendQ[c][j]
        IN  /\ Commit(p, e, Outcome("ok", e.i, Unset), SendOk, Outcome("ok", i, Head(buf[c])))
            /\ sendQ' = [sendQ EXCEPT ![c] = After(sendQ[c], j)]
            /\ buf' = [buf EXCEPT ![c] = Append(Tail(buf[c]), e.w)]
  BY DEF RecvTakePromote
<1> DEFINE e == sendQ[c][j]
<1>2. e \in Entry /\ sendQ' \in [Chans -> Seq(Entry)]
  BY <1>1, AfterQueueType DEF TypeOK, DataTypeOK
<1>3. e.w \in Op /\ e.i \in Int /\ SendOk \in Values /\ Head(buf[c]) \in Op /\ Tail(buf[c]) \in Seq(Op)
  BY <1>2, HeadTail DEF Values, Entry, RecvTakePromote
<1>4. /\ Outcome("ok", e.i, Unset) \in Outcomes(Op \cup {Unset})
      /\ Outcome("ok", i, Head(buf[c])) \in Outcomes(Op \cup {Unset})
  <2>1. Head(buf[c]) \in Op \cup {Unset} /\ Unset \in Op \cup {Unset} /\ i \in Int
    BY <1>3
  <2> HIDE DEF e
  <2> QED
    BY <1>3, <2>1, OutcomeType
<1>5. /\ index' \in [Op -> Nat \cup {NoIndex, TimeoutIndex}]
      /\ lin' \in [Op -> Outcomes(Op \cup {Unset})]
      /\ hand' \in [Procs -> [w: Op \cup {Unset}, v: Values, out: Outcomes(Op \cup {Unset})]]
      /\ pc' = [pc EXCEPT ![p] = "finish"]
  BY <1>1, <1>2, <1>3, <1>4, CommitType
<1>6. pc' \in [Procs -> PCs] /\ \A q \in Procs : pc'[q] # "idle" => nops'[q] > 0
  BY <1>5, MoveType DEF RecvTakePromote, PCs
<1>7. buf' \in [Chans -> Seq(Op)]
  <2>1. Append(Tail(buf[c]), e.w) \in Seq(Op)
    BY <1>3, AppendProperties
  <2> QED
    BY <1>1, <2>1 DEF TypeOK, DataTypeOK, CallsTypeOK
<1>8. CallsTypeOK'
  BY <1>5, <1>7 DEF RecvTakePromote, TypeOK, DataTypeOK, CallsTypeOK
<1> QED
  BY <1>2, <1>5, <1>6, <1>8 DEF RecvTakePromote, TypeOK, DataTypeOK, PCs

LEMMA RecvFromSenderType ==
  ASSUME TypeOK, NEW p \in Procs, pc[p] = "start", NEW i \in Nat, NEW c \in Chans,
         RecvFromSender(p, i, c)
  PROVE  TypeOK'
<1>1. PICK j \in DOMAIN sendQ[c] :
        LET e == sendQ[c][j]
        IN  /\ Commit(p, e, Outcome("ok", e.i, Unset), SendOk, Outcome("ok", i, e.w))
            /\ sendQ' = [sendQ EXCEPT ![c] = After(sendQ[c], j)]
  BY DEF RecvFromSender
<1> DEFINE e == sendQ[c][j]
<1>2. e \in Entry /\ sendQ' \in [Chans -> Seq(Entry)]
  BY <1>1, AfterQueueType DEF TypeOK, DataTypeOK
<1>3. e.w \in Op /\ e.i \in Int /\ SendOk \in Values
  BY <1>2 DEF Values, Entry
<1>4. /\ Outcome("ok", e.i, Unset) \in Outcomes(Op \cup {Unset})
      /\ Outcome("ok", i, e.w) \in Outcomes(Op \cup {Unset})
  <2>1. e.w \in Op \cup {Unset} /\ Unset \in Op \cup {Unset} /\ i \in Int
    BY <1>3
  <2> HIDE DEF e
  <2> QED
    BY <1>3, <2>1, OutcomeType
<1>5. /\ index' \in [Op -> Nat \cup {NoIndex, TimeoutIndex}]
      /\ lin' \in [Op -> Outcomes(Op \cup {Unset})]
      /\ hand' \in [Procs -> [w: Op \cup {Unset}, v: Values, out: Outcomes(Op \cup {Unset})]]
      /\ pc' = [pc EXCEPT ![p] = "finish"]
  BY <1>1, <1>2, <1>3, <1>4, CommitType
<1>6. pc' \in [Procs -> PCs] /\ \A q \in Procs : pc'[q] # "idle" => nops'[q] > 0
  BY <1>5, MoveType DEF RecvFromSender, PCs
<1>7. buf' \in [Chans -> Seq(Op)]
  BY DEF RecvFromSender, TypeOK, DataTypeOK, CallsTypeOK
<1>8. CallsTypeOK'
  BY <1>5, <1>7 DEF RecvFromSender, TypeOK, DataTypeOK, CallsTypeOK
<1> QED
  BY <1>2, <1>5, <1>6, <1>8 DEF RecvFromSender, TypeOK, DataTypeOK, PCs

LEMMA PollType ==
  ASSUME TypeOK, NEW p \in Procs, pc[p] = "start", NEW i \in Nat, NEW c \in Chans,
         PollHit(p, i, c)
  PROVE  TypeOK'
BY SendHandoffType, SendBufferType, SendClosedType, RecvTakeType, RecvTakePromoteType,
   RecvFromSenderType, RecvClosedType
DEF PollHit

LEMMA TryMissType == ASSUME TypeOK, NEW p \in Procs, TryMiss(p) PROVE TypeOK'
<1>1. Outcome("wouldblock", NoIndex, Unset) \in Outcomes(Op \cup {Unset})
  BY OutcomeType
<1>2. /\ lin' \in [Op -> Outcomes(Op \cup {Unset})]
      /\ res' \in [Procs -> Outcomes(Values)]
      /\ lock' \in [Chans -> Procs \cup {NoProc}]
      /\ pc' = [pc EXCEPT ![p] = "idle"]
  BY <1>1, TakeEffectType DEF TryMiss
<1>3. pc' \in [Procs -> PCs] /\ \A q \in Procs : pc'[q] # "idle" => nops'[q] > 0
  BY <1>2, MoveType DEF TryMiss, PCs
<1>4. recvQ' \in [Chans -> Seq(Entry)] /\ sendQ' \in [Chans -> Seq(Entry)]
  BY EmptyQueueType DEF TryMiss, TypeOK, DataTypeOK
<1>5. CallsTypeOK'
  BY <1>2 DEF TryMiss, TypeOK, DataTypeOK, CallsTypeOK
<1> QED
  BY <1>2, <1>3, <1>4, <1>5 DEF TryMiss, TypeOK, DataTypeOK, PCs, waiters

LEMMA ParkType == ASSUME TypeOK, NEW p \in Procs, Park(p) PROVE TypeOK'
<1>1. PICK c \in Chans, dir \in {"send", "recv"} :
        LET e == NewEntry(p, 0)
        IN  /\ recvQ' = [recvQ EXCEPT ![c] = IF dir = "send" THEN <<>> ELSE Append(@, e)]
            /\ sendQ' = [sendQ EXCEPT ![c] = IF dir = "recv" THEN <<>> ELSE Append(@, e)]
  BY DEF Park
<1>2. NewEntry(p, 0) \in Entry
  BY CurIsOp DEF Park, Entry, NewEntry
<1>3. recvQ' \in [Chans -> Seq(Entry)] /\ sendQ' \in [Chans -> Seq(Entry)]
  <2>1. \A q \in Seq(Entry) : Append(q, NewEntry(p, 0)) \in Seq(Entry)
    BY <1>2, AppendProperties
  <2> QED
    BY <1>1, <2>1 DEF TypeOK, DataTypeOK
<1>4. pc' \in [Procs -> PCs] /\ \A q \in Procs : pc'[q] # "idle" => nops'[q] > 0
  BY MoveType DEF Park, PCs, goVars
<1>5. lock' \in [Chans -> Procs \cup {NoProc}]
  BY UnlockedType DEF Park
<1>6. CallsTypeOK'
  BY DEF Park, goVars, TypeOK, DataTypeOK, CallsTypeOK
<1> QED
  BY <1>3, <1>4, <1>5, <1>6 DEF Park, TypeOK, DataTypeOK, PCs, waiters

LEMMA ExpireType == ASSUME TypeOK, NEW p \in Procs, Expire(p) PROVE TypeOK'
<1>1. pc' \in [Procs -> PCs] /\ \A q \in Procs : pc'[q] # "idle" => nops'[q] > 0
  BY MoveType DEF Expire, PCs, goVars, Return, TakeEffect
<1>2. CallsTypeOK'
  BY DEF Expire, goVars, TypeOK, DataTypeOK, CallsTypeOK
<1> QED
  BY <1>1, <1>2 DEF Expire, TypeOK, DataTypeOK, PCs, waiters

LEMMA LoseTimeoutType == ASSUME TypeOK, NEW p \in Procs, LoseTimeout(p) PROVE TypeOK'
<1>1. pc' \in [Procs -> PCs] /\ \A q \in Procs : pc'[q] # "idle" => nops'[q] > 0
  BY MoveType DEF LoseTimeout, PCs, goVars, Return, TakeEffect
<1>2. CallsTypeOK'
  BY DEF LoseTimeout, goVars, TypeOK, DataTypeOK, CallsTypeOK
<1> QED
  BY <1>1, <1>2 DEF LoseTimeout, TypeOK, DataTypeOK, PCs, waiters

LEMMA ReturnType ==
  ASSUME TypeOK, NEW p \in Procs, NEW out \in Outcomes(Values), Return(p, out)
  PROVE  /\ res' \in [Procs -> Outcomes(Values)]
         /\ lock' \in [Chans -> Procs \cup {NoProc}]
         /\ pc' = [pc EXCEPT ![p] = "idle"]
BY UnlockedType DEF Return, TypeOK, DataTypeOK

LEMMA HandType ==
  ASSUME TypeOK, NEW p \in Procs
  PROVE  /\ hand[p].v \in Values
         /\ hand[p].out \in Outcomes(Values)
         /\ NoHand \in [w: Op \cup {Unset}, v: Values, out: Outcomes(Op \cup {Unset})]
<1>1. hand[p] \in [w: Op \cup {Unset}, v: Values, out: Outcomes(Op \cup {Unset})]
  BY DEF TypeOK, DataTypeOK
<1>2. hand[p].v \in Values /\ hand[p].out \in Outcomes(Op \cup {Unset})
  BY <1>1
<1>3. hand[p].out \in Outcomes(Values)
  BY <1>2, OutcomeType
<1>4. NoHand \in [w: Op \cup {Unset}, v: Values, out: Outcomes(Op \cup {Unset})]
  BY OutcomeType DEF NoHand, Values
<1> QED
  BY <1>2, <1>3, <1>4

LEMMA FinishType == ASSUME TypeOK, NEW p \in Procs, Finish(p) PROVE TypeOK'
<1>1. /\ res' \in [Procs -> Outcomes(Values)]
      /\ lock' \in [Chans -> Procs \cup {NoProc}]
      /\ pc' = [pc EXCEPT ![p] = "idle"]
  BY HandType, ReturnType DEF Finish
<1>2. pc' \in [Procs -> PCs] /\ \A q \in Procs : pc'[q] # "idle" => nops'[q] > 0
  BY <1>1, MoveType DEF Finish, PCs, goVars
<1>3. CallsTypeOK'
  BY DEF Finish, goVars, TypeOK, DataTypeOK, CallsTypeOK
<1>4. /\ value' \in [Op -> Values]
      /\ released' \in [Op -> BOOLEAN]
      /\ hand' \in [Procs -> [w: Op \cup {Unset}, v: Values, out: Outcomes(Op \cup {Unset})]]
  BY HandType DEF Finish, TypeOK, DataTypeOK
<1> QED
  BY <1>1, <1>2, <1>3, <1>4 DEF Finish, TypeOK, DataTypeOK, PCs

LEMMA WokenType ==
  ASSUME TypeOK, NEW p \in Procs, pc[p] # "idle"
  PROVE  Woken(p) \in Outcomes(Values)
<1>1. Cur(p) \in Op
  BY CurIsOp
<1>2. index[Cur(p)] \in Int /\ value[Cur(p)] \in Values /\ Unset \in Values
  <2>1. index[Cur(p)] \in Nat \cup {NoIndex, TimeoutIndex} /\ value[Cur(p)] \in Values
    BY <1>1 DEF TypeOK, DataTypeOK
  <2> QED
    BY <2>1, OutcomeType DEF Values
<1>3. \A v \in Values : /\ Outcome("ok", index[Cur(p)], v) \in Outcomes(Values)
                        /\ Outcome("closed", index[Cur(p)], v) \in Outcomes(Values)
  BY <1>2 DEF Outcome, Outcomes
<1> QED
  BY <1>2, <1>3 DEF Woken

LEMMA WakeType == ASSUME TypeOK, NEW p \in Procs, Wake(p) PROVE TypeOK'
<1>1. /\ res' \in [Procs -> Outcomes(Values)]
      /\ lock' \in [Chans -> Procs \cup {NoProc}]
      /\ pc' = [pc EXCEPT ![p] = "idle"]
  BY WokenType, ReturnType DEF Wake
<1>2. pc' \in [Procs -> PCs] /\ \A q \in Procs : pc'[q] # "idle" => nops'[q] > 0
  BY <1>1, MoveType DEF Wake, PCs, goVars
<1>3. CallsTypeOK'
  BY DEF Wake, goVars, TypeOK, DataTypeOK, CallsTypeOK
<1> QED
  BY <1>1, <1>2, <1>3 DEF Wake, TypeOK, DataTypeOK, PCs, waiters

LEMMA ClaimTimeoutType == ASSUME TypeOK, NEW p \in Procs, ClaimTimeout(p) PROVE TypeOK'
<1>1. Outcome("timeout", TimeoutIndex, Unset) \in Outcomes(Op \cup {Unset})
  BY OutcomeType
<1>2. lin' \in [Op -> Outcomes(Op \cup {Unset})]
  BY <1>1 DEF ClaimTimeout, TypeOK, DataTypeOK, CallsTypeOK
<1>3. pc' \in [Procs -> PCs] /\ \A q \in Procs : pc'[q] # "idle" => nops'[q] > 0
  BY MoveType DEF ClaimTimeout, PCs
<1>4. CallsTypeOK'
  BY <1>2 DEF ClaimTimeout, TypeOK, DataTypeOK, CallsTypeOK
<1>5. index' \in [Op -> Nat \cup {NoIndex, TimeoutIndex}]
  BY DEF ClaimTimeout, TypeOK, DataTypeOK
<1> QED
  BY <1>3, <1>4, <1>5 DEF ClaimTimeout, TypeOK, DataTypeOK, PCs

LEMMA WithdrawType == ASSUME TypeOK, NEW p \in Procs, Withdraw(p) PROVE TypeOK'
<1>1. Outcome("timeout", TimeoutIndex, Unset) \in Outcomes(Values)
  BY OutcomeType
<1>2. /\ res' \in [Procs -> Outcomes(Values)]
      /\ lock' \in [Chans -> Procs \cup {NoProc}]
      /\ pc' = [pc EXCEPT ![p] = "idle"]
  BY <1>1, ReturnType DEF Withdraw
<1>3. pc' \in [Procs -> PCs] /\ \A q \in Procs : pc'[q] # "idle" => nops'[q] > 0
  BY <1>2, MoveType DEF Withdraw, PCs, goVars
<1>4. recvQ' \in [Chans -> Seq(Entry)] /\ sendQ' \in [Chans -> Seq(Entry)]
  <2>1. \A c \in Chans : /\ Without(recvQ[c], Cur(p)) \in Seq(Entry)
                          /\ Without(sendQ[c], Cur(p)) \in Seq(Entry)
    BY WithoutProperties DEF TypeOK, DataTypeOK
  <2> QED
    BY <2>1 DEF Withdraw, TypeOK, DataTypeOK
<1>5. CallsTypeOK'
  BY DEF Withdraw, goVars, TypeOK, DataTypeOK, CallsTypeOK
<1> QED
  BY <1>2, <1>3, <1>4, <1>5 DEF Withdraw, TypeOK, DataTypeOK, PCs, waiters

LEMMA CloseAgainType == ASSUME TypeOK, NEW p \in Procs, CloseAgain(p) PROVE TypeOK'
<1>1. Outcome("done", 0, Unset) \in Outcomes(Op \cup {Unset})
  BY OutcomeType
<1>2. /\ lin' \in [Op -> Outcomes(Op \cup {Unset})]
      /\ res' \in [Procs -> Outcomes(Values)]
      /\ lock' \in [Chans -> Procs \cup {NoProc}]
      /\ pc' = [pc EXCEPT ![p] = "idle"]
  BY <1>1, TakeEffectType DEF CloseAgain
<1>3. pc' \in [Procs -> PCs] /\ \A q \in Procs : pc'[q] # "idle" => nops'[q] > 0
  BY <1>2, MoveType DEF CloseAgain, PCs
<1>4. CallsTypeOK'
  BY <1>2 DEF CloseAgain, TypeOK, DataTypeOK, CallsTypeOK
<1> QED
  BY <1>2, <1>3, <1>4 DEF CloseAgain, TypeOK, DataTypeOK, PCs, waiters

LEMMA CloseMarkType == ASSUME TypeOK, NEW p \in Procs, CloseMark(p) PROVE TypeOK'
<1>1. Outcome("done", 0, Unset) \in Outcomes(Op \cup {Unset})
  BY OutcomeType
<1>2. lin' \in [Op -> Outcomes(Op \cup {Unset})] /\ closed' \in [Chans -> BOOLEAN]
  BY <1>1 DEF CloseMark, TypeOK, DataTypeOK, CallsTypeOK
<1>3. pc' \in [Procs -> PCs] /\ \A q \in Procs : pc'[q] # "idle" => nops'[q] > 0
  BY MoveType DEF CloseMark, PCs
<1>4. CallsTypeOK'
  BY <1>2 DEF CloseMark, TypeOK, DataTypeOK, CallsTypeOK
<1>5. recvQ' \in [Chans -> Seq(Entry)] /\ sendQ' \in [Chans -> Seq(Entry)]
  BY EmptyQueueType DEF CloseMark, TypeOK, DataTypeOK
<1>6. wake' \in [Procs -> Seq(Entry)]
  <2>1. \A c \in Chans : recvQ[c] \o sendQ[c] \in Seq(Entry)
    BY ConcatProperties DEF TypeOK, DataTypeOK
  <2> QED
    BY <2>1 DEF CloseMark, TypeOK, DataTypeOK
<1> QED
  BY <1>3, <1>4, <1>5, <1>6 DEF CloseMark, TypeOK, DataTypeOK, PCs, waiters

LEMMA CloseCommitType == ASSUME TypeOK, NEW p \in Procs, CloseCommit(p) PROVE TypeOK'
<1>1. PICK j \in DOMAIN wake[p] :
        LET e == wake[p][j]
        IN  /\ index' = [index EXCEPT ![e.w] = e.i]
            /\ lin' = [lin EXCEPT ![e.w] = Outcome("closed", e.i, Unset)]
            /\ hand' = [hand EXCEPT ![p] = [w |-> e.w, v |-> Closed, out |-> NoOutcome]]
            /\ wake' = [wake EXCEPT ![p] = After(wake[p], j)]
  BY DEF CloseCommit
<1> DEFINE e == wake[p][j]
<1>2. wake[p] \in Seq(Entry)
  BY DEF TypeOK, DataTypeOK
<1>3. e.w \in Op /\ e.i \in Nat /\ After(wake[p], j) \in Seq(Entry)
  <2>1. e \in Entry
    BY <1>2, ElementOfSeq
  <2> QED
    BY <1>2, <2>1, AfterProperties DEF Entry
<1>4. wake' \in [Procs -> Seq(Entry)] /\ index' \in [Op -> Nat \cup {NoIndex, TimeoutIndex}]
  BY <1>1, <1>3 DEF TypeOK, DataTypeOK
<1>5. lin' \in [Op -> Outcomes(Op \cup {Unset})]
  <2>1. Outcome("closed", e.i, Unset) \in Outcomes(Op \cup {Unset})
    BY <1>3 DEF Outcome, Outcomes
  <2> QED
    BY <1>1, <2>1 DEF TypeOK, DataTypeOK, CallsTypeOK
<1>6. hand' \in [Procs -> [w: Op \cup {Unset}, v: Values, out: Outcomes(Op \cup {Unset})]]
  <2>1. [w |-> e.w, v |-> Closed, out |-> NoOutcome]
          \in [w: Op \cup {Unset}, v: Values, out: Outcomes(Op \cup {Unset})]
    BY <1>3, OutcomeType DEF Values
  <2> QED
    BY <1>1, <2>1 DEF TypeOK, DataTypeOK
<1>7. pc' \in [Procs -> PCs] /\ \A q \in Procs : pc'[q] # "idle" => nops'[q] > 0
  BY MoveType DEF CloseCommit, PCs
<1>8. CallsTypeOK'
  BY <1>5 DEF CloseCommit, TypeOK, DataTypeOK, CallsTypeOK
<1> QED
  BY <1>4, <1>6, <1>7, <1>8 DEF CloseCommit, TypeOK, DataTypeOK, PCs

LEMMA CloseFinishType == ASSUME TypeOK, NEW p \in Procs, CloseFinish(p) PROVE TypeOK'
<1>1. pc' \in [Procs -> PCs] /\ \A q \in Procs : pc'[q] # "idle" => nops'[q] > 0
  BY MoveType DEF CloseFinish, PCs, goVars
<1>2. CallsTypeOK'
  BY DEF CloseFinish, goVars, TypeOK, DataTypeOK, CallsTypeOK
<1>3. /\ value' \in [Op -> Values]
      /\ released' \in [Op -> BOOLEAN]
      /\ hand' \in [Procs -> [w: Op \cup {Unset}, v: Values, out: Outcomes(Op \cup {Unset})]]
  BY HandType DEF CloseFinish, TypeOK, DataTypeOK
<1> QED
  BY <1>1, <1>2, <1>3 DEF CloseFinish, TypeOK, DataTypeOK, PCs

LEMMA CloseDoneType == ASSUME TypeOK, NEW p \in Procs, CloseDone(p) PROVE TypeOK'
<1>1. Outcome("done", 0, Unset) \in Outcomes(Values)
  BY OutcomeType
<1>2. /\ res' \in [Procs -> Outcomes(Values)]
      /\ lock' \in [Chans -> Procs \cup {NoProc}]
      /\ pc' = [pc EXCEPT ![p] = "idle"]
  BY <1>1, ReturnType DEF CloseDone
<1>3. pc' \in [Procs -> PCs] /\ \A q \in Procs : pc'[q] # "idle" => nops'[q] > 0
  BY <1>2, MoveType DEF CloseDone, PCs, goVars
<1>4. wake' \in [Procs -> Seq(Entry)]
  BY DEF CloseDone, TypeOK, DataTypeOK
<1>5. CallsTypeOK'
  BY DEF CloseDone, goVars, TypeOK, DataTypeOK, CallsTypeOK
<1> QED
  BY <1>2, <1>3, <1>4, <1>5 DEF CloseDone, TypeOK, DataTypeOK, PCs, waiters

LEMMA NextType == ASSUME TypeOK, [Next]_vars PROVE TypeOK'
<1>1. CASE UNCHANGED vars
  BY <1>1 DEF vars, goVars, waiters, TypeOK, DataTypeOK, CallsTypeOK
<1>2. ASSUME NEW p \in Procs, Invoke(p) PROVE TypeOK'
  BY <1>2, InvokeType
<1>3. ASSUME NEW p \in Procs, Poll(p) PROVE TypeOK'
  BY <1>3, PollType DEF Poll
<1>4. ASSUME NEW p \in Procs, Step(p), ~Poll(p) PROVE TypeOK'
  BY <1>4, TryMissType, ParkType, FinishType, WakeType, ExpireType, ClaimTimeoutType,
     LoseTimeoutType, WithdrawType, CloseAgainType, CloseMarkType, CloseCommitType,
     CloseFinishType, CloseDoneType
  DEF Step
<1> QED
  BY <1>1, <1>2, <1>3, <1>4 DEF Next

(* The state of a channel, its waiters and its callers is always well      *)
(* formed, whatever the number of threads, channels and calls.             *)
THEOREM TypeCorrect == Spec => []TypeOK
<1>1. Init => TypeOK
  BY InitType
<1>2. TypeOK /\ [Next]_vars => TypeOK'
  BY NextType
<1> QED
  BY <1>1, <1>2, PTL DEF Spec

-----------------------------------------------------------------------------
(***************************************************************************)
(* The invariant behind the refinement.                                    *)
(***************************************************************************)

Waiting == {"parked", "expired", "claimed"}

(* The caller of w, woken with v, learns what happened to w.               *)
Told(w, v) ==
  lin[w] = IF v = Closed THEN Outcome("closed", 0, Unset)
           ELSE Outcome("ok", 0, IF Dir(w[1], 0) = "recv" THEN v ELSE Unset)

(* What a thread's place says of its call and its waiter: a call is        *)
(* pending exactly until its first poll ends, or while it is parked and    *)
(* unclaimed.                                                              *)
ThreadOK(p) ==
  LET w == Cur(p)
  IN  /\ pc[p] = "idle" /\ nops[p] > 0 => lin[w].st # "pending" /\ res[p] = lin[w]
      /\ pc[p] = "start" => lin[w].st = "pending" /\ Unclaimed(w) /\ ~released[w]
      /\ pc[p] \in {"parked", "expired"} /\ Unclaimed(w) =>
           lin[w].st = "pending" /\ ~released[w]
      /\ pc[p] \in Waiting /\ ~Unclaimed(w) =>
           index[w] = 0 /\ lin[w].st # "pending" /\ (released[w] => Told(w, value[w]))
      /\ pc[p] = "claimed" => ~Unclaimed(w)
      /\ pc[p] = "expired" => call[p].wait = "timed"
      /\ pc[p] = "withdraw" =>
           index[w] = TimeoutIndex /\ lin[w] = Outcome("timeout", TimeoutIndex, Unset)
      /\ pc[p] \in {"closing", "closefinish"} => lin[w] = Outcome("done", 0, Unset)
      /\ pc[p] = "finish" => lin[w] = hand[p].out /\ lin[w].st # "pending"

ThreadsOK == \A p \in Procs : ThreadOK(p)

(* Between commit() and finish(): the waiter is claimed, not yet released, *)
(* and its thread waits for the value that is on its way, from one thread. *)
Finishing == {p \in Procs : pc[p] \in {"finish", "closefinish"}}

HandOK(p) ==
  LET w == hand[p].w
  IN  /\ w[1] \in Procs /\ w = Cur(w[1]) /\ pc[w[1]] \in Waiting
      /\ index[w] = 0 /\ ~released[w] /\ lin[w].st # "pending" /\ Told(w, hand[p].v)

Hands ==
  /\ \A p \in Finishing : HandOK(p)
  /\ \A p, q \in Finishing : hand[p].w = hand[q].w => p = q

(* The waiters of calls that are still to come are untouched.              *)
Future ==
  \A p \in Procs : \A n \in 1..MaxOps :
    n > nops[p] => Unclaimed(<<p, n>>) /\ ~released[<<p, n>>]

(* Thread q's call may have an entry in a queue: it is parked and          *)
(* undecided, or gave up and has yet to withdraw the entry.                *)
Listed(q) ==
  pc[q] = "withdraw" \/ (pc[q] \in {"parked", "expired"} /\ Unclaimed(Cur(q)))

(* An entry of a queue stands for case 0 of the call its thread is in.     *)
EntryOK(e, dir, c) ==
  LET q == e.w[1]
  IN  /\ q \in Procs /\ e.w = Cur(q) /\ e.i = 0
      /\ DOMAIN call[q].cases = {0} /\ call[q].cases[0] = [dir |-> dir, ch |-> c]
      /\ Listed(q)

Queues ==
  \A c \in Chans :
    /\ Distinct(recvQ[c]) /\ Distinct(sendQ[c])
    /\ \A j \in DOMAIN recvQ[c] : EntryOK(recvQ[c][j], "recv", c)
    /\ \A j \in DOMAIN sendQ[c] : EntryOK(sendQ[c][j], "send", c)

(* The entries close() has still to complete: parked on a closed channel,  *)
(* which is drained if they receive.                                       *)
Refusable(e) ==
  \E c \in Chans : /\ closed[c]
                   /\ EntryOK(e, "send", c) \/ (EntryOK(e, "recv", c) /\ buf[c] = <<>>)
Snapshots == \A p \in Procs : \A k \in DOMAIN wake[p] : Unclaimed(wake[p][k].w) => Refusable(wake[p][k])

IInv ==
  /\ TypeOK
  /\ ThreadsOK
  /\ Hands
  /\ Future
  /\ Queues
  /\ Snapshots
  /\ NoMissedMatch

-----------------------------------------------------------------------------
(* A thread's operation is its own, and changes only when it makes a call. *)
LEMMA CurFacts ==
  ASSUME TypeOK
  PROVE  /\ \A p \in Procs : Cur(p)[1] = p /\ (nops[p] > 0 => Cur(p) \in Op)
         /\ \A p \in Procs : nops'[p] = nops[p] => Cur(p)' = Cur(p)
BY ChanAssumption DEF TypeOK, DataTypeOK, CallsTypeOK, Cur, Op

(* Nothing of q's thread, call and waiter changes.                         *)
Same(q) ==
  /\ nops'[q] = nops[q] /\ call'[q] = call[q] /\ pc'[q] = pc[q]
  /\ res'[q] = res[q] /\ hand'[q] = hand[q]
  /\ nops[q] > 0 =>
       /\ lin'[Cur(q)] = lin[Cur(q)] /\ index'[Cur(q)] = index[Cur(q)]
       /\ value'[Cur(q)] = value[Cur(q)] /\ released'[Cur(q)] = released[Cur(q)]

(* A thread nothing of which changes keeps its part of the invariant.      *)
LEMMA SameThread ==
  ASSUME TypeOK, NEW q \in Procs, ThreadOK(q), Same(q)
  PROVE  ThreadOK(q)'
<1>1. Cur(q)' = Cur(q) /\ Cur(q)[1] = q
  BY CurFacts DEF Same
<1>2. pc[q] # "idle" => nops[q] > 0
  BY DEF TypeOK, DataTypeOK
<1> QED
  BY <1>1, <1>2 DEF ThreadOK, Same, Unclaimed, Told, Dir, Waiting

(* q's call goes on.                                                       *)
Steady(q) == nops'[q] = nops[q] /\ call'[q] = call[q]

(* q's waiter is claimed and the value not there yet, and remains so.      *)
Owed(q) == pc[q] \in Waiting /\ index[Cur(q)] = 0 /\ ~released[Cur(q)]
StaysOwed(q) ==
  /\ Steady(q) /\ pc'[q] \in Waiting
  /\ lin'[Cur(q)] = lin[Cur(q)] /\ index'[Cur(q)] = index[Cur(q)]
  /\ released'[Cur(q)] = released[Cur(q)]

(* A promised hand-over stays good while its receiver does not move.       *)
LEMMA SameHand ==
  ASSUME TypeOK, NEW p \in Procs, HandOK(p), hand'[p] = hand[p],
         Same(hand[p].w[1]) \/ StaysOwed(hand[p].w[1])
  PROVE  HandOK(p)'
<1>1. PICK q \in Procs : hand[p].w = Cur(q) /\ hand[p].w[1] = q /\ pc[q] \in Waiting
  BY DEF HandOK
<1>2. Cur(q)' = Cur(q) /\ Cur(q)[1] = q
  BY <1>1, CurFacts DEF Same, StaysOwed, Steady
<1>3. /\ lin'[Cur(q)] = lin[Cur(q)] /\ index'[Cur(q)] = index[Cur(q)]
      /\ released'[Cur(q)] = released[Cur(q)] /\ call'[q] = call[q]
      /\ pc'[q] \in Waiting
  BY <1>1 DEF Same, StaysOwed, Steady, TypeOK, DataTypeOK, Waiting
<1>4. /\ index[Cur(q)] = 0 /\ ~released[Cur(q)] /\ lin[Cur(q)].st # "pending"
      /\ Told(Cur(q), hand[p].v)
  BY <1>1 DEF HandOK
<1>5. Told(Cur(q), hand[p].v)'
  BY <1>2, <1>3, <1>4 DEF Told, Dir
<1>6. hand'[p].w = Cur(q) /\ (hand[p].w = Cur(q))'
  BY <1>1, <1>2
<1> QED
  BY <1>2, <1>3, <1>4, <1>5, <1>6 DEF HandOK, Told

(* An entry stays good while its thread stays listed in the same call.     *)
LEMMA SameEntry ==
  ASSUME TypeOK, NEW e, NEW dir, NEW c, EntryOK(e, dir, c),
         Same(e.w[1]) \/ (Steady(e.w[1]) /\ Listed(e.w[1])')
  PROVE  EntryOK(e, dir, c)'
<1> DEFINE q == e.w[1]
<1>1. q \in Procs /\ e.w = Cur(q) /\ Listed(q)
  BY DEF EntryOK
<1>2. Cur(q)' = Cur(q) /\ call'[q] = call[q]
  BY <1>1, CurFacts DEF Same, Steady
<1>3. Listed(q)'
  BY <1>1, <1>2 DEF Same, Listed, Unclaimed, TypeOK, DataTypeOK
<1> QED
  BY <1>1, <1>2, <1>3 DEF EntryOK

-----------------------------------------------------------------------------
(* What a step in which only the threads of D move has to show, part by    *)
(* part of the invariant.                                                  *)

Moves(D) == \A q \in Procs \ D : Same(q)

(* The entries of queue r are entries of queue q, and none comes twice.    *)
Sub(q, r) ==
  /\ \A k \in DOMAIN r : \E m \in DOMAIN q : r[k] = q[m]
  /\ Distinct(q) => Distinct(r)

ClaimsStay == \A w \in Op : index'[w] = NoIndex => index[w] = NoIndex

(* ThreadsOK: only the threads that move have to be looked at.             *)
LEMMA ThreadsStep ==
  ASSUME TypeOK, ThreadsOK, NEW D \in SUBSET Procs, Moves(D), \A q \in D : ThreadOK(q)'
  PROVE  ThreadsOK'
BY SameThread DEF ThreadsOK, Moves

(* The thread of a waiter on its way to be finished is owed its value.     *)
LEMMA HandOwed ==
  ASSUME Hands, NEW r \in Finishing
  PROVE  r \in Procs /\ HandOK(r) /\ hand[r].w[1] \in Procs /\ hand[r].w = Cur(hand[r].w[1])
         /\ Owed(hand[r].w[1])
BY DEF Hands, HandOK, Owed, Finishing

(* p is the only thread that may begin to owe a finish().                  *)
LEMMA HandsStep ==
  ASSUME TypeOK, Hands, NEW D \in SUBSET Procs, Moves(D), NEW p \in Procs,
         \A r \in Finishing' \ {p} :
           /\ r \in Finishing /\ hand'[r] = hand[r]
           /\ hand[r].w[1] \in D => StaysOwed(hand[r].w[1]),
         p \in Finishing' =>
           HandOK(p)' /\ \A r \in Finishing' \ {p} : hand'[r].w # hand'[p].w
  PROVE  Hands'
<1>1. ASSUME NEW r \in Finishing' \ {p} PROVE HandOK(r)'
  <2>1. r \in Procs /\ HandOK(r) /\ hand[r].w[1] \in Procs /\ hand'[r] = hand[r]
    BY <1>1, HandOwed
  <2>2. Same(hand[r].w[1]) \/ StaysOwed(hand[r].w[1])
    BY <1>1, <2>1 DEF Moves
  <2> QED
    BY <2>1, <2>2, SameHand
<1>2. \A r, s \in Finishing' \ {p} : hand'[r].w = hand'[s].w => r = s
  BY DEF Hands
<1> QED
  BY <1>1, <1>2 DEF Hands

(* Future: a step touches no waiter of a call still to come.               *)
LEMMA FutureStep ==
  ASSUME TypeOK, Future,
         \A p \in Procs : nops'[p] \in Nat /\ nops'[p] >= nops[p],
         \A p \in Procs : \A n \in 1..MaxOps : n > nops'[p] =>
           /\ index'[<<p, n>>] = index[<<p, n>>]
           /\ released'[<<p, n>>] = released[<<p, n>>]
  PROVE  Future'
<1> SUFFICES ASSUME NEW p \in Procs, NEW n \in 1..MaxOps, n > nops'[p]
             PROVE  index'[<<p, n>>] = NoIndex /\ ~released'[<<p, n>>]
  BY DEF Future, Unclaimed
<1>1. n > nops[p]
  BY ChanAssumption DEF TypeOK, DataTypeOK, CallsTypeOK
<1> QED
  BY <1>1 DEF Future, Unclaimed

(* The queue q has an entry of thread p.                                   *)
InQueue(q, p) == \E j \in DOMAIN q : q[j].w[1] = p

(* Queues: entries are only dropped; a thread that moves and keeps one is  *)
(* still listed.                                                           *)
LEMMA QueuesStep ==
  ASSUME TypeOK, Queues, NEW D \in SUBSET Procs, Moves(D),
         \A c \in Chans : Sub(recvQ[c], recvQ'[c]) /\ Sub(sendQ[c], sendQ'[c]),
         \A q \in D : (\E c \in Chans : InQueue(recvQ'[c], q) \/ InQueue(sendQ'[c], q))
                        => Steady(q) /\ Listed(q)'
  PROVE  Queues'
<1>1. ASSUME NEW e, NEW dir, NEW c, EntryOK(e, dir, c),
             e.w[1] \in D => Steady(e.w[1]) /\ Listed(e.w[1])'
      PROVE  EntryOK(e, dir, c)'
  <2>1. e.w[1] \in Procs
    BY <1>1 DEF EntryOK
  <2>2. Same(e.w[1]) \/ (Steady(e.w[1]) /\ Listed(e.w[1])')
    BY <1>1, <2>1 DEF Moves
  <2> QED
    BY <1>1, <2>2, SameEntry
<1>2. ASSUME NEW c \in Chans, NEW j \in DOMAIN recvQ'[c]
      PROVE  EntryOK(recvQ[c][j], "recv", c)'
  <2>1. PICK e : e = recvQ'[c][j] /\ \E k \in DOMAIN recvQ[c] : e = recvQ[c][k]
    BY DEF Sub
  <2>2. EntryOK(e, "recv", c)
    BY <2>1 DEF Queues
  <2>3. e.w[1] \in D => Steady(e.w[1]) /\ Listed(e.w[1])'
    BY <2>1 DEF InQueue
  <2>4. EntryOK(e, "recv", c)'
    BY <2>2, <2>3, <1>1
  <2> QED
    BY <2>1, <2>4
<1>3. ASSUME NEW c \in Chans, NEW j \in DOMAIN sendQ'[c]
      PROVE  EntryOK(sendQ[c][j], "send", c)'
  <2>1. PICK e : e = sendQ'[c][j] /\ \E k \in DOMAIN sendQ[c] : e = sendQ[c][k]
    BY DEF Sub
  <2>2. EntryOK(e, "send", c)
    BY <2>1 DEF Queues
  <2>3. e.w[1] \in D => Steady(e.w[1]) /\ Listed(e.w[1])'
    BY <2>1 DEF InQueue
  <2>4. EntryOK(e, "send", c)'
    BY <2>2, <2>3, <1>1
  <2> QED
    BY <2>1, <2>4
<1> QED
  BY <1>2, <1>3 DEF Queues, Sub

(* The waiter of an entry is that of the call its thread is in.            *)
LEMMA EntryWaiter ==
  ASSUME NEW q \in Seq(Entry), NEW m \in DOMAIN q
  PROVE  q[m].w \in Op /\ q[m].i \in Nat
<1>1. q[m] \in Entry
  BY ElementOfSeq
<1> QED
  BY <1>1 DEF Entry

(* Nobody becomes unclaimed, so an entry that is live was live before.     *)
LEMMA LiveBefore ==
  ASSUME ClaimsStay, NEW q \in Seq(Entry), NEW r, Sub(q, r),
         NEW k \in DOMAIN r, index'[r[k].w] = NoIndex
  PROVE  \E m \in DOMAIN q : r[k] = q[m] /\ index[q[m].w] = NoIndex
<1>1. PICK m \in DOMAIN q : r[k] = q[m]
  BY DEF Sub
<1>2. q[m].w \in Op
  BY EntryWaiter
<1> QED
  BY <1>1, <1>2 DEF ClaimsStay

(* Nothing is in a queue that was empty.                                   *)
LEMMA EmptyStays ==
  ASSUME NEW r \in Seq(Entry), Sub(<<>>, r)
  PROVE  r = <<>>
<1>1. DOMAIN r = {}
  <2>1. \A m \in DOMAIN <<>> : FALSE
    OBVIOUS
  <2> QED
    BY <2>1 DEF Sub
<1> QED
  BY <1>1, EmptySeq

(* What close() may refuse, it may still refuse after the step.            *)
LEMMA RefusableStays ==
  ASSUME TypeOK, NEW D \in SUBSET Procs, Moves(D), NEW e, Refusable(e), index'[e.w] = NoIndex,
         \A c \in Chans : closed[c] => closed'[c] /\ (buf[c] = <<>> => buf'[c] = <<>>),
         \A q \in D : Listed(q) /\ index'[Cur(q)] = NoIndex => Steady(q) /\ Listed(q)'
  PROVE  Refusable(e)'
<1>1. PICK c \in Chans : /\ closed[c]
                         /\ EntryOK(e, "send", c) \/ (EntryOK(e, "recv", c) /\ buf[c] = <<>>)
  BY DEF Refusable
<1>2. e.w[1] \in Procs /\ e.w = Cur(e.w[1]) /\ Listed(e.w[1])
  BY <1>1 DEF EntryOK
<1>3. Same(e.w[1]) \/ (Steady(e.w[1]) /\ Listed(e.w[1])')
  BY <1>2 DEF Moves
<1>4. \/ EntryOK(e, "send", c)'
      \/ EntryOK(e, "recv", c)' /\ buf[c] = <<>>
  BY <1>1, <1>3, SameEntry
<1> QED
  BY <1>1, <1>4 DEF Refusable

(* Snapshots: entries are only dropped, and what close() may refuse stays. *)
LEMMA SnapshotsStep ==
  ASSUME TypeOK, Snapshots, NEW D \in SUBSET Procs, Moves(D), ClaimsStay,
         \A p \in Procs : \A k \in DOMAIN wake'[p] :
           \E m \in DOMAIN wake[p] : wake'[p][k] = wake[p][m],
         \A c \in Chans : closed[c] => closed'[c] /\ (buf[c] = <<>> => buf'[c] = <<>>),
         \A q \in D : Listed(q) /\ index'[Cur(q)] = NoIndex => Steady(q) /\ Listed(q)'
  PROVE  Snapshots'
<1> SUFFICES ASSUME NEW p \in Procs, NEW k \in DOMAIN wake'[p],
                    index'[wake'[p][k].w] = NoIndex
             PROVE  Refusable(wake[p][k])'
  BY DEF Snapshots, Unclaimed
<1>1. PICK e : e = wake'[p][k] /\ \E m \in DOMAIN wake[p] : e = wake[p][m]
  OBVIOUS
<1>2. wake[p] \in Seq(Entry)
  BY DEF TypeOK, DataTypeOK
<1>3. e.w \in Op
  BY <1>1, <1>2, EntryWaiter
<1>4. Refusable(e) /\ index'[e.w] = NoIndex
  BY <1>1, <1>3 DEF Snapshots, Unclaimed, ClaimsStay
<1>5. Refusable(e)'
  BY <1>4, RefusableStays
<1> QED
  BY <1>1, <1>5

(* What the step may do to the buffer of c.                                *)
Room(c) ==
  \/ buf'[c] = buf[c]
  \/ ~closed[c] /\ Len(buf[c]) < Cap[c] /\ recvQ'[c] = <<>>
  \/ buf[c] # <<>> /\ (sendQ'[c] = <<>> \/ Len(buf'[c]) >= Len(buf[c]))

(* NoMissedMatch: queues that only shrink, with buffers that stay fit.     *)
LEMMA MatchStep ==
  ASSUME TypeOK, TypeOK', NoMissedMatch, ClaimsStay,
         \A c \in Chans : Sub(recvQ[c], recvQ'[c]) /\ Sub(sendQ[c], sendQ'[c]),
         closed' = closed, \A c \in Chans : Room(c)
  PROVE  NoMissedMatch'
<1> SUFFICES ASSUME NEW c \in Chans
             PROVE  /\ closed'[c] => recvQ'[c] = <<>> /\ sendQ'[c] = <<>>
                    /\ \A j \in DOMAIN recvQ'[c] : index'[recvQ'[c][j].w] = NoIndex =>
                         /\ buf'[c] = <<>>
                         /\ \A k \in DOMAIN sendQ'[c] : index'[sendQ'[c][k].w] = NoIndex =>
                              sendQ'[c][k].w = recvQ'[c][j].w
                    /\ \A k \in DOMAIN sendQ'[c] : index'[sendQ'[c][k].w] = NoIndex =>
                         Len(buf'[c]) >= Cap[c]
  BY DEF NoMissedMatch, Unclaimed
<1>1. /\ recvQ[c] \in Seq(Entry) /\ sendQ[c] \in Seq(Entry)
      /\ recvQ'[c] \in Seq(Entry) /\ sendQ'[c] \in Seq(Entry)
      /\ buf[c] \in Seq(Op) /\ buf'[c] \in Seq(Op) /\ Cap[c] \in Nat
  BY ChanAssumption DEF TypeOK, DataTypeOK, CallsTypeOK
<1>2. Sub(recvQ[c], recvQ'[c]) /\ Sub(sendQ[c], sendQ'[c])
  OBVIOUS
<1>3. closed[c] => recvQ[c] = <<>> /\ sendQ[c] = <<>>
  BY DEF NoMissedMatch
<1>4. closed[c] => recvQ'[c] = <<>> /\ sendQ'[c] = <<>>
  BY <1>1, <1>2, <1>3, EmptyStays
<1>5. ASSUME NEW j \in DOMAIN recvQ'[c], index'[recvQ'[c][j].w] = NoIndex
      PROVE  /\ buf'[c] = <<>>
             /\ \A k \in DOMAIN sendQ'[c] : index'[sendQ'[c][k].w] = NoIndex =>
                  sendQ'[c][k].w = recvQ'[c][j].w
  <2>1. PICK m \in DOMAIN recvQ[c] : recvQ'[c][j] = recvQ[c][m] /\ index[recvQ[c][m].w] = NoIndex
    <3>1. /\ ClaimsStay /\ recvQ[c] \in Seq(Entry) /\ Sub(recvQ[c], recvQ'[c])
         /\ j \in DOMAIN recvQ'[c] /\ index'[recvQ'[c][j].w] = NoIndex
      BY <1>1, <1>2, <1>5
    <3> QED
      BY ONLY <3>1, LiveBefore
  <2>2. buf[c] = <<>> /\ recvQ'[c] # <<>>
    BY <1>5, <2>1 DEF NoMissedMatch, Unclaimed
  <2>3. buf'[c] = <<>>
    BY <2>2 DEF Room
  <2>4. ASSUME NEW k \in DOMAIN sendQ'[c], index'[sendQ'[c][k].w] = NoIndex
        PROVE  sendQ'[c][k].w = recvQ'[c][j].w
    <3>1. PICK n \in DOMAIN sendQ[c] : sendQ'[c][k] = sendQ[c][n] /\ index[sendQ[c][n].w] = NoIndex
      <4>1. /\ ClaimsStay /\ sendQ[c] \in Seq(Entry) /\ Sub(sendQ[c], sendQ'[c])
           /\ k \in DOMAIN sendQ'[c] /\ index'[sendQ'[c][k].w] = NoIndex
        BY <1>1, <1>2, <2>4
      <4> QED
        BY ONLY <4>1, LiveBefore
    <3> QED
      BY <2>1, <3>1 DEF NoMissedMatch, Unclaimed
  <2> QED
    BY <2>3, <2>4
<1>6. ASSUME NEW k \in DOMAIN sendQ'[c], index'[sendQ'[c][k].w] = NoIndex
      PROVE  Len(buf'[c]) >= Cap[c]
  <2>1. PICK n \in DOMAIN sendQ[c] : sendQ'[c][k] = sendQ[c][n] /\ index[sendQ[c][n].w] = NoIndex
    <3>1. /\ ClaimsStay /\ sendQ[c] \in Seq(Entry) /\ Sub(sendQ[c], sendQ'[c])
         /\ k \in DOMAIN sendQ'[c] /\ index'[sendQ'[c][k].w] = NoIndex
      BY <1>1, <1>2, <1>6
    <3> QED
      BY ONLY <3>1, LiveBefore
  <2>2. Len(buf[c]) >= Cap[c] /\ sendQ'[c] # <<>>
    BY <1>6, <2>1 DEF NoMissedMatch, Unclaimed
  <2> QED
    BY <1>1, <2>2, LenProperties DEF Room
<1> QED
  BY <1>4, <1>5, <1>6

-----------------------------------------------------------------------------
(* Every queue after the step is what Sub allows.                          *)
Shrinks(Q, R) == \A c \in Chans : Sub(Q[c], R[c])

(* A queue is contained in itself, and contains the empty one.             *)
LEMMA SubFacts ==
  /\ \A q : Sub(q, q) /\ Sub(q, <<>>)
  /\ \A Q : Shrinks(Q, Q)
  /\ \A Q \in [Chans -> Seq(Entry)] : \A c \in Chans : Shrinks(Q, [Q EXCEPT ![c] = <<>>])
<1>1. \A q : Sub(q, q)
  BY DEF Sub
<1>2. \A q : Sub(q, <<>>)
  BY DEF Sub, Distinct
<1> QED
  BY <1>1, <1>2 DEF Shrinks

(* The rest of a queue is contained in it.                                 *)
LEMMA SubAfter ==
  ASSUME NEW q \in Seq(Entry), NEW j \in DOMAIN q
  PROVE  Sub(q, After(q, j))
<1> DEFINE r == After(q, j)
<1>1. /\ \A k \in DOMAIN r : k + j \in DOMAIN q /\ r[k] = q[k + j]
      /\ DOMAIN r \subseteq Nat /\ j \in Nat
  BY AfterProperties DEF After
<1> HIDE DEF r
<1>2. \A k \in DOMAIN r : \E m \in DOMAIN q : r[k] = q[m]
  BY <1>1
<1>3. ASSUME Distinct(q), NEW k \in DOMAIN r, NEW m \in DOMAIN r, r[k].w = r[m].w
      PROVE  k = m
  <2>1. k + j = m + j
    BY <1>1, <1>3 DEF Distinct
  <2> QED
    BY <1>1, <2>1
<1>4. Sub(q, r)
  BY <1>2, <1>3 DEF Sub, Distinct
<1> QED
  BY <1>4 DEF r

(* The thread of a queued entry is listed.                                 *)
LEMMA QueuedListed ==
  ASSUME Queues, NEW c \in Chans, NEW q, InQueue(recvQ[c], q) \/ InQueue(sendQ[c], q)
  PROVE  q \in Procs /\ Listed(q)
<1>1. CASE InQueue(recvQ[c], q)
  <2>1. PICK j \in DOMAIN recvQ[c] : recvQ[c][j].w[1] = q
    BY <1>1 DEF InQueue
  <2>2. EntryOK(recvQ[c][j], "recv", c)
    BY DEF Queues
  <2> QED
    BY <2>1, <2>2 DEF EntryOK
<1>2. CASE InQueue(sendQ[c], q)
  <2>1. PICK j \in DOMAIN sendQ[c] : sendQ[c][j].w[1] = q
    BY <1>2 DEF InQueue
  <2>2. EntryOK(sendQ[c][j], "send", c)
    BY DEF Queues
  <2> QED
    BY <2>1, <2>2 DEF EntryOK
<1> QED
  BY <1>1, <1>2

(* A step that makes no entry and closes nothing.                          *)
LEMMA ShrinkStep ==
  ASSUME IInv, TypeOK', NEW D \in SUBSET Procs, Moves(D),
         nops' = nops, call' = call, closed' = closed, Hands',
         \A q \in D : ThreadOK(q)',
         \A q \in D : Listed(q) /\ index'[Cur(q)] = NoIndex => Listed(q)',
         \A q \in D : (\E c \in Chans : InQueue(recvQ'[c], q) \/ InQueue(sendQ'[c], q))
                      => Listed(q)',
         ClaimsStay,
         \A w \in Op : (\A q \in D : w # Cur(q)) =>
           index'[w] = index[w] /\ released'[w] = released[w],
         Shrinks(recvQ, recvQ'), Shrinks(sendQ, sendQ'),
         \A p \in Procs : \A k \in DOMAIN wake'[p] :
           \E m \in DOMAIN wake[p] : wake'[p][k] = wake[p][m],
         \A c \in Chans : Room(c)
  PROVE  IInv'
<1>1. /\ TypeOK /\ ThreadsOK /\ Future /\ Queues /\ Snapshots /\ NoMissedMatch
      /\ \A c \in Chans : Sub(recvQ[c], recvQ'[c]) /\ Sub(sendQ[c], sendQ'[c])
      /\ \A q \in D : Steady(q)
  BY DEF IInv, Shrinks, Steady
<1>2. ThreadsOK'
  BY <1>1, ThreadsStep
<1>3. Future'
  <2>1. \A p \in Procs : nops'[p] \in Nat /\ nops'[p] >= nops[p]
    BY <1>1, ChanAssumption DEF TypeOK, DataTypeOK, CallsTypeOK
  <2>2. ASSUME NEW p \in Procs, NEW n \in 1..MaxOps, n > nops'[p]
        PROVE  index'[<<p, n>>] = index[<<p, n>>] /\ released'[<<p, n>>] = released[<<p, n>>]
    <3>1. <<p, n>> \in Op /\ \A q \in D : <<p, n>> # Cur(q)
      BY <2>1, <2>2 DEF Op, Cur
    <3> QED
      BY <3>1
  <2> QED
    BY <1>1, <2>1, <2>2, FutureStep
<1>4. Queues'
  BY <1>1, QueuesStep
<1>5. Snapshots'
  <2>1. \A c \in Chans : closed[c] => closed'[c] /\ (buf[c] = <<>> => buf'[c] = <<>>)
    BY DEF Room
  <2>2. \A q \in D : Listed(q) /\ index'[Cur(q)] = NoIndex => Steady(q) /\ Listed(q)'
    BY <1>1
  <2> QED
    BY <1>1, <2>1, <2>2, SnapshotsStep
<1>6. NoMissedMatch'
  BY <1>1, MatchStep
<1> QED
  BY <1>2, <1>3, <1>4, <1>5, <1>6 DEF IInv

(* Moreover p leaves no queue and nobody is claimed or released.           *)
LEMMA QuietStep ==
  ASSUME IInv, TypeOK', NEW p \in Procs, Moves({p}),
         nops' = nops, call' = call, closed' = closed,
         ThreadOK(p)', Owed(p) => StaysOwed(p), Listed(p) => Listed(p)',
         p \notin Finishing', \A r \in Finishing' : r \in Finishing /\ hand'[r] = hand[r],
         ClaimsStay,
         \A w \in Op : w # Cur(p) => index'[w] = index[w] /\ released'[w] = released[w],
         Shrinks(recvQ, recvQ'), Shrinks(sendQ, sendQ'),
         \A q \in Procs : \A k \in DOMAIN wake'[q] :
           \E m \in DOMAIN wake[q] : wake'[q][k] = wake[q][m],
         \A c \in Chans : Room(c)
  PROVE  IInv'
<1>1. /\ TypeOK /\ Hands /\ Queues
      /\ \A c \in Chans : Sub(recvQ[c], recvQ'[c]) /\ Sub(sendQ[c], sendQ'[c])
  BY DEF IInv, Shrinks
<1>2. Hands'
  BY <1>1, HandsStep, HandOwed
<1>3. ASSUME NEW c \in Chans, InQueue(recvQ'[c], p) \/ InQueue(sendQ'[c], p)
      PROVE  Listed(p)'
  <2>1. InQueue(recvQ[c], p) \/ InQueue(sendQ[c], p)
    BY <1>1, <1>3 DEF InQueue, Sub
  <2> QED
    BY <1>1, <2>1, QueuedListed
<1> QED
  BY <1>2, <1>3, ShrinkStep

(* p's call takes effect and returns in one step.                          *)
LEMMA EffectStep ==
  ASSUME IInv, TypeOK', NEW p \in Procs, pc[p] = "start", NEW out, out.st # "pending",
         TakeEffect(p, out), UNCHANGED <<closed, nops, call, waiters, hand, wake>>,
         Shrinks(recvQ, recvQ'), Shrinks(sendQ, sendQ'),
         \A c \in Chans : Room(c)
  PROVE  IInv'
<1>1. TypeOK /\ Cur(p) \in Op /\ Cur(p)' = Cur(p)
  BY CurIsOp DEF IInv, Cur
<1>2. /\ pc' = [pc EXCEPT ![p] = "idle"] /\ lin' = [lin EXCEPT ![Cur(p)] = out]
      /\ res' = [res EXCEPT ![p] = out]
  BY DEF TakeEffect, Return
<1>3. pc'[p] = "idle" /\ lin'[Cur(p)] = out /\ res'[p] = out
  BY <1>1, <1>2 DEF TypeOK, DataTypeOK, CallsTypeOK
<1>4. ThreadOK(p)'
  BY <1>1, <1>3 DEF ThreadOK, Waiting
<1>5. Moves({p})
  BY <1>1, <1>2 DEF Moves, Same, waiters, Cur, TypeOK, DataTypeOK, CallsTypeOK
<1>6. ~Owed(p) /\ ~Listed(p)
  BY DEF Owed, Listed, Waiting
<1>7. p \notin Finishing' /\ \A q \in Finishing' : q \in Finishing /\ hand'[q] = hand[q]
  BY <1>1, <1>2 DEF Finishing, TypeOK, DataTypeOK
<1>8. ClaimsStay /\ \A w \in Op : index'[w] = index[w] /\ released'[w] = released[w]
  BY DEF ClaimsStay, waiters
<1> QED
  BY <1>4, <1>5, <1>6, <1>7, <1>8, QuietStep

LEMMA SendBufferInv ==
  ASSUME IInv, TypeOK', NEW p \in Procs, pc[p] = "start", NEW i \in Nat, NEW c \in Chans,
         SendBuffer(p, i, c)
  PROVE  IInv'
<1>1. TypeOK /\ Shrinks(recvQ, recvQ') /\ Shrinks(sendQ, sendQ')
  BY SubFacts DEF IInv, SendBuffer, TypeOK, DataTypeOK
<1>2. \A d \in Chans : Room(d)
  BY <1>1 DEF Room, SendBuffer, TypeOK, DataTypeOK, CallsTypeOK
<1>3. TakeEffect(p, Outcome("ok", i, Unset)) /\ Outcome("ok", i, Unset).st # "pending"
  BY DEF SendBuffer, Outcome
<1> QED
  BY <1>1, <1>2, <1>3, EffectStep DEF SendBuffer

LEMMA SendClosedInv ==
  ASSUME IInv, TypeOK', NEW p \in Procs, pc[p] = "start", NEW i \in Nat, NEW c \in Chans,
         SendClosed(p, i, c)
  PROVE  IInv'
<1>1. Shrinks(recvQ, recvQ') /\ Shrinks(sendQ, sendQ')
  BY SubFacts DEF SendClosed
<1>2. \A d \in Chans : Room(d)
  BY DEF Room, SendClosed
<1>3. TakeEffect(p, Outcome("closed", i, Unset)) /\ Outcome("closed", i, Unset).st # "pending"
  BY DEF SendClosed, Outcome
<1> QED
  BY <1>1, <1>2, <1>3, EffectStep DEF SendClosed

LEMMA RecvTakeInv ==
  ASSUME IInv, TypeOK', NEW p \in Procs, pc[p] = "start", NEW i \in Nat, NEW c \in Chans,
         RecvTake(p, i, c)
  PROVE  IInv'
<1>1. TypeOK /\ Shrinks(recvQ, recvQ') /\ Shrinks(sendQ, sendQ')
  BY SubFacts DEF IInv, RecvTake, TypeOK, DataTypeOK
<1>2. \A d \in Chans : Room(d)
  BY <1>1 DEF Room, RecvTake, TypeOK, DataTypeOK, CallsTypeOK
<1>3. TakeEffect(p, Outcome("ok", i, Head(buf[c]))) /\ Outcome("ok", i, Head(buf[c])).st # "pending"
  BY DEF RecvTake, Outcome
<1> QED
  BY <1>1, <1>2, <1>3, EffectStep DEF RecvTake

LEMMA RecvClosedInv ==
  ASSUME IInv, TypeOK', NEW p \in Procs, pc[p] = "start", NEW i \in Nat, NEW c \in Chans,
         RecvClosed(p, i, c)
  PROVE  IInv'
<1>1. TypeOK /\ Shrinks(recvQ, recvQ') /\ Shrinks(sendQ, sendQ')
  BY SubFacts DEF IInv, RecvClosed, TypeOK, DataTypeOK
<1>2. \A d \in Chans : Room(d)
  BY DEF Room, RecvClosed
<1>3. TakeEffect(p, Outcome("closed", i, Unset)) /\ Outcome("closed", i, Unset).st # "pending"
  BY DEF RecvClosed, Outcome
<1> QED
  BY <1>1, <1>2, <1>3, EffectStep DEF RecvClosed

LEMMA TryMissInv ==
  ASSUME IInv, TypeOK', NEW p \in Procs, TryMiss(p)
  PROVE  IInv'
<1>1. TypeOK /\ Shrinks(recvQ, recvQ') /\ Shrinks(sendQ, sendQ')
  <2>1. TypeOK /\ recvQ \in [Chans -> Seq(Entry)] /\ sendQ \in [Chans -> Seq(Entry)]
    BY DEF IInv, TypeOK, DataTypeOK
  <2>2. \E c \in Chans : /\ recvQ' = recvQ \/ recvQ' = [recvQ EXCEPT ![c] = <<>>]
                         /\ sendQ' = sendQ \/ sendQ' = [sendQ EXCEPT ![c] = <<>>]
    BY DEF TryMiss
  <2> QED
    BY <2>1, <2>2, SubFacts
<1>2. \A d \in Chans : Room(d)
  BY DEF Room, TryMiss
<1>3. /\ TakeEffect(p, Outcome("wouldblock", NoIndex, Unset))
      /\ Outcome("wouldblock", NoIndex, Unset).st # "pending"
  BY DEF TryMiss, Outcome
<1> QED
  BY <1>1, <1>2, <1>3, EffectStep DEF TryMiss

LEMMA CloseAgainInv ==
  ASSUME IInv, TypeOK', NEW p \in Procs, CloseAgain(p)
  PROVE  IInv'
<1>1. Shrinks(recvQ, recvQ') /\ Shrinks(sendQ, sendQ')
  BY SubFacts DEF CloseAgain
<1>2. \A d \in Chans : Room(d)
  BY DEF Room, CloseAgain
<1>3. TakeEffect(p, Outcome("done", 0, Unset)) /\ Outcome("done", 0, Unset).st # "pending"
  BY DEF CloseAgain, Outcome
<1> QED
  BY <1>1, <1>2, <1>3, EffectStep DEF CloseAgain

(* A step of p alone that decides nothing: p's place changes, its waiter   *)
(* does not.                                                               *)
LEMMA MoveStep ==
  ASSUME IInv, TypeOK', NEW p \in Procs, NEW to, to \notin {"finish", "closefinish"},
         pc' = [pc EXCEPT ![p] = to],
         UNCHANGED <<goVars, recvQ, sendQ, waiters, hand>>,
         \A q \in Procs \ {p} : res'[q] = res[q],
         ThreadOK(p)', Owed(p) => to \in Waiting, Listed(p) => Listed(p)',
         \A q \in Procs : \A k \in DOMAIN wake'[q] :
           \E m \in DOMAIN wake[q] : wake'[q][k] = wake[q][m]
  PROVE  IInv'
<1>1. TypeOK /\ Cur(p)' = Cur(p)
  BY DEF IInv, Cur, goVars
<1>2. pc'[p] = to /\ \A q \in Procs \ {p} : pc'[q] = pc[q]
  BY <1>1 DEF TypeOK, DataTypeOK
<1>3. Moves({p})
  BY <1>2 DEF Moves, Same, waiters, goVars
<1>4. p \notin Finishing' /\ \A q \in Finishing' : q \in Finishing /\ hand'[q] = hand[q]
  BY <1>2 DEF Finishing
<1>5. ClaimsStay /\ \A w \in Op : index'[w] = index[w] /\ released'[w] = released[w]
  BY DEF ClaimsStay, waiters
<1>6. Owed(p) => StaysOwed(p)
  BY <1>2 DEF Owed, StaysOwed, Steady, waiters, goVars
<1>7. Shrinks(recvQ, recvQ') /\ Shrinks(sendQ, sendQ') /\ \A c \in Chans : Room(c)
  BY SubFacts DEF Room, goVars
<1> QED
  BY <1>3, <1>4, <1>5, <1>6, <1>7, QuietStep DEF goVars

LEMMA ExpireInv == ASSUME IInv, TypeOK', NEW p \in Procs, Expire(p) PROVE IInv'
<1>1. TypeOK /\ ThreadOK(p) /\ Cur(p)' = Cur(p) /\ pc'[p] = "expired"
  BY DEF IInv, ThreadsOK, Cur, Expire, goVars, TypeOK, DataTypeOK
<1>2. ThreadOK(p)'
  BY <1>1 DEF ThreadOK, Expire, goVars, waiters, Waiting, Unclaimed, Told, Dir
<1>3. Listed(p) => Listed(p)'
  BY <1>1 DEF Listed, Expire, Unclaimed, waiters
<1> QED
  BY <1>2, <1>3, MoveStep DEF Expire, Waiting

LEMMA LoseTimeoutInv == ASSUME IInv, TypeOK', NEW p \in Procs, LoseTimeout(p) PROVE IInv'
<1>1. TypeOK /\ ThreadOK(p) /\ Cur(p)' = Cur(p) /\ pc'[p] = "claimed"
  BY DEF IInv, ThreadsOK, Cur, LoseTimeout, goVars, TypeOK, DataTypeOK
<1>2. ThreadOK(p)'
  BY <1>1 DEF ThreadOK, LoseTimeout, goVars, waiters, Waiting, Unclaimed, Told, Dir
<1>3. ~Listed(p)
  BY DEF Listed, LoseTimeout, Unclaimed
<1> QED
  BY <1>2, <1>3, MoveStep DEF LoseTimeout, Waiting

(* A woken thread returns what it was told.                                *)
LEMMA WakeInv == ASSUME IInv, TypeOK', NEW p \in Procs, Wake(p) PROVE IInv'
<1>1. TypeOK /\ ThreadOK(p) /\ Cur(p)' = Cur(p) /\ Cur(p)[1] = p
  BY CurFacts DEF IInv, ThreadsOK, Cur, Wake, goVars
<1>2. ~Unclaimed(Cur(p))
  BY <1>1 DEF ThreadOK, Wake, Waiting
<1>3. /\ index[Cur(p)] = 0 /\ lin[Cur(p)].st # "pending"
      /\ Told(Cur(p), value[Cur(p)])
  BY <1>1, <1>2 DEF ThreadOK, Wake, Waiting
<1>4. Woken(p) = lin[Cur(p)]
  BY <1>1, <1>3 DEF Woken, Told
<1>5. pc'[p] = "idle" /\ res'[p] = lin[Cur(p)] /\ \A q \in Procs \ {p} : res'[q] = res[q]
  BY <1>1, <1>4 DEF Wake, Return, TypeOK, DataTypeOK
<1>6. ThreadOK(p)'
  BY <1>1, <1>3, <1>5 DEF ThreadOK, Wake, goVars, Waiting
<1>7. ~Listed(p) /\ ~Owed(p)
  BY <1>2 DEF Listed, Owed, Wake
<1> QED
  BY <1>5, <1>6, <1>7, MoveStep DEF Wake, Return

LEMMA CloseDoneInv == ASSUME IInv, TypeOK', NEW p \in Procs, CloseDone(p) PROVE IInv'
<1>1. TypeOK /\ ThreadOK(p) /\ Cur(p)' = Cur(p) /\ lin[Cur(p)] = Outcome("done", 0, Unset)
  BY DEF IInv, ThreadsOK, Cur, CloseDone, goVars, ThreadOK
<1>2. pc'[p] = "idle" /\ res'[p] = Outcome("done", 0, Unset)
      /\ \A q \in Procs \ {p} : res'[q] = res[q]
  BY <1>1 DEF CloseDone, Return, TypeOK, DataTypeOK
<1>3. ThreadOK(p)'
  BY <1>1, <1>2 DEF ThreadOK, CloseDone, goVars, Waiting, Outcome
<1>4. ~Listed(p) /\ ~Owed(p)
  BY DEF Listed, Owed, CloseDone, Waiting
<1>5. \A q \in Procs : \A k \in DOMAIN wake'[q] :
           \E m \in DOMAIN wake[q] : wake'[q][k] = wake[q][m]
  BY <1>1 DEF CloseDone, TypeOK, DataTypeOK
<1> QED
  BY <1>2, <1>3, <1>4, <1>5, MoveStep DEF CloseDone, Return

LEMMA ClaimTimeoutInv == ASSUME IInv, TypeOK', NEW p \in Procs, ClaimTimeout(p) PROVE IInv'
<1>1. /\ TypeOK /\ ThreadOK(p) /\ Cur(p)' = Cur(p) /\ Cur(p) \in Op /\ Cur(p)[1] = p
      /\ pc'[p] = "withdraw" /\ \A q \in Procs \ {p} : pc'[q] = pc[q]
  BY CurIsOp, CurFacts DEF IInv, ThreadsOK, Cur, ClaimTimeout, TypeOK, DataTypeOK
<1>2. /\ index'[Cur(p)] = TimeoutIndex
      /\ lin'[Cur(p)] = Outcome("timeout", TimeoutIndex, Unset)
      /\ \A w \in Op : w # Cur(p) => index'[w] = index[w] /\ lin'[w] = lin[w]
      /\ released' = released /\ value' = value
  BY <1>1 DEF ClaimTimeout, TypeOK, DataTypeOK, CallsTypeOK
<1>3. ThreadOK(p)'
  BY <1>1, <1>2 DEF ThreadOK, Waiting, Unclaimed
<1>4. Moves({p})
  <2>1. \A q \in Procs \ {p} : nops[q] > 0 =>
          index'[Cur(q)] = index[Cur(q)] /\ lin'[Cur(q)] = lin[Cur(q)]
    BY <1>1, <1>2, CurFacts DEF Cur
  <2> QED
    BY <1>1, <1>2, <2>1 DEF Moves, Same, ClaimTimeout
<1>5. ~Owed(p) /\ Listed(p)'
  BY <1>1 DEF Owed, Listed, ClaimTimeout, Unclaimed, NoIndex
<1>6. p \notin Finishing' /\ \A q \in Finishing' : q \in Finishing /\ hand'[q] = hand[q]
  BY <1>1 DEF Finishing, ClaimTimeout
<1>7. ClaimsStay
  BY <1>2 DEF ClaimsStay, TimeoutIndex, NoIndex
<1>8. Shrinks(recvQ, recvQ') /\ Shrinks(sendQ, sendQ') /\ \A c \in Chans : Room(c)
  BY SubFacts DEF Room, ClaimTimeout
<1> QED
  BY <1>2, <1>3, <1>4, <1>5, <1>6, <1>7, <1>8, QuietStep DEF ClaimTimeout

(* Finish and CloseFinish: p hands over what it owes.                      *)
LEMMA ReleaseStep ==
  ASSUME IInv, TypeOK', NEW p \in Finishing, NEW to, to \notin {"finish", "closefinish"},
         pc' = [pc EXCEPT ![p] = to],
         value' = [value EXCEPT ![hand[p].w] = hand[p].v],
         released' = [released EXCEPT ![hand[p].w] = TRUE],
         hand' = [hand EXCEPT ![p] = NoHand],
         UNCHANGED <<goVars, recvQ, sendQ, index, wake>>,
         \A q \in Procs \ {p} : res'[q] = res[q],
         ThreadOK(p)'
  PROVE  IInv'
<1>1. TypeOK /\ Hands /\ ThreadsOK /\ Queues /\ p \in Procs /\ pc[p] \in {"finish", "closefinish"}
  BY DEF IInv, Finishing
<1>2. PICK q \in Procs : /\ hand[p].w = Cur(q) /\ hand[p].w[1] = q /\ Owed(q)
                        /\ Told(Cur(q), hand[p].v) /\ lin[Cur(q)].st # "pending"
  BY <1>1, HandOwed DEF HandOK
<1>3. q # p /\ pc[q] # "idle" /\ Cur(q) \in Op /\ Cur(q)' = Cur(q) /\ Cur(q)[1] = q
  BY <1>1, <1>2, CurIsOp, CurFacts DEF Owed, Waiting, Cur, goVars
<1>4. /\ value'[Cur(q)] = hand[p].v /\ released'[Cur(q)] /\ pc'[q] = pc[q]
      /\ \A w \in Op : w # Cur(q) => value'[w] = value[w] /\ released'[w] = released[w]
  BY <1>1, <1>2, <1>3 DEF TypeOK, DataTypeOK
<1>5. ThreadOK(q)'
  <2>1. ThreadOK(q) /\ ~Unclaimed(Cur(q)) /\ index[Cur(q)] = 0 /\ pc[q] \in Waiting
    BY <1>1, <1>2 DEF ThreadsOK, Owed, Unclaimed, NoIndex
  <2>2. Told(Cur(q), value[Cur(q)])'
    BY <1>2, <1>3, <1>4 DEF Told, Dir, goVars
  <2> QED
    BY <1>2, <1>3, <1>4, <2>1, <2>2 DEF ThreadOK, goVars, Waiting, Unclaimed, Told, Dir
<1>6. Moves({p, q})
  <2>1. \A r \in Procs \ {p, q} : nops[r] > 0 =>
          value'[Cur(r)] = value[Cur(r)] /\ released'[Cur(r)] = released[Cur(r)]
    BY <1>1, <1>4, CurFacts DEF Cur
  <2> QED
    BY <1>1, <2>1 DEF Moves, Same, goVars, TypeOK, DataTypeOK
<1>7. Hands'
  <2>1. p \notin Finishing' /\ \A r \in Finishing' \ {p} : r \in Finishing /\ hand'[r] = hand[r]
    BY <1>1 DEF Finishing, TypeOK, DataTypeOK
  <2>2. ASSUME NEW r \in Finishing' \ {p} PROVE hand[r].w[1] \notin {p, q}
    <3>1. Owed(hand[r].w[1]) /\ hand[r].w = Cur(hand[r].w[1]) /\ hand[r].w # hand[p].w
      BY <1>1, <2>1, <2>2, HandOwed DEF Hands
    <3> QED
      BY <1>1, <1>2, <3>1 DEF Owed, Waiting
  <2> QED
    BY <1>1, <1>6, <2>1, <2>2, HandsStep
<1>8. ~Listed(p) /\ ~Listed(q)
  BY <1>1, <1>2 DEF Listed, Owed, Waiting, Unclaimed, NoIndex
<1>9. \A c \in Chans : \A r \in {p, q} : ~(InQueue(recvQ'[c], r) \/ InQueue(sendQ'[c], r))
  BY <1>1, <1>8, QueuedListed
<1>10. ClaimsStay /\ Shrinks(recvQ, recvQ') /\ Shrinks(sendQ, sendQ') /\ \A c \in Chans : Room(c)
  BY SubFacts DEF ClaimsStay, Room, goVars
<1> QED
  BY <1>1, <1>4, <1>5, <1>6, <1>7, <1>8, <1>9, <1>10, ShrinkStep DEF goVars

LEMMA FinishInv == ASSUME IInv, TypeOK', NEW p \in Procs, Finish(p) PROVE IInv'
<1>1. TypeOK /\ ThreadOK(p) /\ p \in Finishing /\ Cur(p)' = Cur(p)
  BY DEF IInv, ThreadsOK, Finishing, Finish, Cur, goVars
<1>2. /\ pc' = [pc EXCEPT ![p] = "idle"] /\ pc'[p] = "idle" /\ res'[p] = hand[p].out
      /\ \A q \in Procs \ {p} : res'[q] = res[q]
  BY <1>1 DEF Finish, Return, TypeOK, DataTypeOK
<1>3. ThreadOK(p)'
  BY <1>1, <1>2 DEF ThreadOK, Finish, goVars, Waiting
<1> QED
  BY <1>1, <1>2, <1>3, ReleaseStep DEF Finish

LEMMA CloseFinishInv == ASSUME IInv, TypeOK', NEW p \in Procs, CloseFinish(p) PROVE IInv'
<1>1. TypeOK /\ ThreadOK(p) /\ p \in Finishing /\ Cur(p)' = Cur(p)
  BY DEF IInv, ThreadsOK, Finishing, CloseFinish, Cur, goVars
<1>2. pc'[p] = "closing"
  BY <1>1 DEF CloseFinish, TypeOK, DataTypeOK
<1>3. ThreadOK(p)'
  BY <1>1, <1>2 DEF ThreadOK, CloseFinish, goVars, Waiting
<1> QED
  BY <1>1, <1>2, <1>3, ReleaseStep DEF CloseFinish

-----------------------------------------------------------------------------
(* An entry's thread is in no queue but that of its one case.              *)
LEMMA OneQueue ==
  ASSUME Queues, NEW e, NEW dir, NEW c, EntryOK(e, dir, c), NEW d \in Chans
  PROVE  /\ InQueue(recvQ[d], e.w[1]) => d = c /\ dir = "recv"
         /\ InQueue(sendQ[d], e.w[1]) => d = c /\ dir = "send"
<1>1. call[e.w[1]].cases[0] = [dir |-> dir, ch |-> c]
  BY DEF EntryOK
<1>2. ASSUME NEW j \in DOMAIN recvQ[d], recvQ[d][j].w[1] = e.w[1] PROVE d = c /\ dir = "recv"
  <2>1. EntryOK(recvQ[d][j], "recv", d)
    BY DEF Queues
  <2>2. call[e.w[1]].cases[0] = [dir |-> "recv", ch |-> d]
    BY <1>2, <2>1 DEF EntryOK
  <2> QED
    BY <1>1, <2>2
<1>3. ASSUME NEW j \in DOMAIN sendQ[d], sendQ[d][j].w[1] = e.w[1] PROVE d = c /\ dir = "send"
  <2>1. EntryOK(sendQ[d][j], "send", d)
    BY DEF Queues
  <2>2. call[e.w[1]].cases[0] = [dir |-> "send", ch |-> d]
    BY <1>3, <2>1 DEF EntryOK
  <2> QED
    BY <1>1, <2>2
<1> QED
  BY <1>2, <1>3 DEF InQueue

(* The thread of an entry is not in the rest of its queue.                 *)
LEMMA AfterGone ==
  ASSUME NEW q \in Seq(Entry), Distinct(q), NEW j \in DOMAIN q,
         \A k \in DOMAIN q : q[k].w = Cur(q[k].w[1])
  PROVE  ~InQueue(After(q, j), q[j].w[1])
<1> DEFINE r == After(q, j)
<1>1. /\ \A k \in DOMAIN r : k + j \in DOMAIN q /\ r[k] = q[k + j]
      /\ DOMAIN r \subseteq 1..Len(q) /\ j \in Nat
  BY AfterProperties DEF After
<1> HIDE DEF r
<1>2. ASSUME NEW k \in DOMAIN r, r[k].w[1] = q[j].w[1] PROVE FALSE
  <2>1. k + j \in DOMAIN q /\ r[k] = q[k + j]
    BY <1>1
  <2>2. q[k + j].w = q[j].w
    BY <1>2, <2>1
  <2>3. k + j = j
    BY <2>1, <2>2 DEF Distinct
  <2> QED
    BY <1>1, <2>3
<1> QED
  BY <1>2 DEF InQueue, r

(* p wins commit() on entry e.                                             *)
LEMMA ClaimStep ==
  ASSUME IInv, TypeOK', NEW p \in Procs, pc[p] \in {"start", "closing"},
         NEW e, NEW dir, NEW c \in Chans, EntryOK(e, dir, c), Unclaimed(e.w),
         NEW v, NEW out, NEW to \in {"finish", "closefinish"},
         pc' = [pc EXCEPT ![p] = to],
         index' = [index EXCEPT ![e.w] = e.i],
         hand' = [hand EXCEPT ![p] = [w |-> e.w, v |-> v, out |-> out]],
         \/ v = Closed /\ lin'[e.w] = Outcome("closed", 0, Unset)
         \/ v # Closed /\ lin'[e.w] = Outcome("ok", 0, IF dir = "recv" THEN v ELSE Unset),
         \A w \in Op : w # e.w /\ w # Cur(p) => lin'[w] = lin[w],
         ThreadOK(p)',
         UNCHANGED <<closed, nops, call, value, released, res>>,
         Shrinks(recvQ, recvQ'), Shrinks(sendQ, sendQ'),
         \A q \in Procs : \A k \in DOMAIN wake'[q] :
           \E m \in DOMAIN wake[q] : wake'[q][k] = wake[q][m],
         \A d \in Chans : Room(d) /\ ~InQueue(recvQ'[d], e.w[1]) /\ ~InQueue(sendQ'[d], e.w[1])
  PROVE  IInv'
<1>1. TypeOK /\ Hands /\ ThreadsOK
  BY DEF IInv
<1>2. PICK q \in Procs : q = e.w[1] /\ e.w = Cur(q) /\ e.i = 0 /\ pc[q] \in {"parked", "expired"}
                       /\ call[q].cases[0].dir = dir
  <2>1. ThreadOK(e.w[1]) /\ TimeoutIndex # NoIndex
    BY <1>1 DEF ThreadsOK, EntryOK, TimeoutIndex, NoIndex
  <2> QED
    BY <2>1 DEF EntryOK, Listed, Unclaimed, ThreadOK
<1>3. q # p /\ Cur(q) \in Op /\ Cur(p) \in Op /\ Cur(q)' = Cur(q) /\ Cur(q)[1] = q
  BY <1>1, <1>2, CurIsOp, CurFacts DEF Cur
<1>4. /\ index'[Cur(q)] = 0 /\ \A w \in Op : w # Cur(q) => index'[w] = index[w]
      /\ pc'[p] = to /\ \A r \in Procs \ {p} : pc'[r] = pc[r] /\ hand'[r] = hand[r]
      /\ hand'[p] = [w |-> Cur(q), v |-> v, out |-> out]
  BY <1>1, <1>2, <1>3 DEF TypeOK, DataTypeOK
<1>5. ~released[Cur(q)] /\ (pc[q] = "expired" => call[q].wait = "timed")
  BY <1>1, <1>2 DEF ThreadsOK, ThreadOK
<1>6. lin'[Cur(q)].st # "pending" /\ Told(Cur(q), v)'
  BY <1>2, <1>3 DEF Told, Dir, Outcome
<1>7. ThreadOK(q)'
  BY <1>2, <1>3, <1>4, <1>5, <1>6 DEF ThreadOK, Waiting, Unclaimed, NoIndex
<1>8. Moves({p, q})
  <2>1. \A r \in Procs \ {p, q} : nops[r] > 0 =>
          index'[Cur(r)] = index[Cur(r)] /\ lin'[Cur(r)] = lin[Cur(r)]
    BY <1>1, <1>2, <1>4, CurFacts DEF Cur
  <2> QED
    BY <1>4, <2>1 DEF Moves, Same
<1>9. Hands'
  <2>1. \A r \in Finishing' \ {p} : r \in Finishing /\ hand'[r] = hand[r]
    BY <1>4 DEF Finishing
  <2>2. ASSUME NEW r \in Finishing' \ {p}
        PROVE  hand[r].w[1] \notin {p, q} /\ hand'[r].w # hand'[p].w
    <3>1. Owed(hand[r].w[1]) /\ hand[r].w = Cur(hand[r].w[1])
      BY <1>1, <2>1, <2>2, HandOwed
    <3>2. ~Owed(p) /\ ~Owed(q)
      BY <1>2 DEF Owed, Waiting, Unclaimed, NoIndex
    <3>3. hand[r].w[1] \notin {p, q}
      BY <3>1, <3>2
    <3> QED
      BY <1>3, <1>4, <2>1, <2>2, <3>1, <3>3
  <2>3. HandOK(p)'
    <3>1. hand'[p].w = Cur(q) /\ hand'[p].v = v /\ Told(Cur(q), hand[p].v)'
      BY <1>4, <1>6 DEF Told
    <3> QED
      BY <1>2, <1>3, <1>4, <1>5, <1>6, <3>1 DEF HandOK, Waiting
  <2> QED
    BY <1>1, <1>8, <2>1, <2>2, <2>3, HandsStep
<1>10. ClaimsStay
  BY <1>3, <1>4 DEF ClaimsStay, NoIndex
<1>11. /\ ~Listed(p) /\ index'[Cur(q)] # NoIndex
       /\ \A d \in Chans : ~InQueue(recvQ'[d], q) /\ ~InQueue(sendQ'[d], q)
  BY <1>2, <1>4 DEF Listed, NoIndex
<1>12. \A d \in Chans : ~InQueue(recvQ'[d], p) /\ ~InQueue(sendQ'[d], p)
  <2>1. ASSUME NEW d \in Chans, InQueue(recvQ'[d], p) \/ InQueue(sendQ'[d], p) PROVE FALSE
    <3>1. InQueue(recvQ[d], p) \/ InQueue(sendQ[d], p)
      BY <2>1 DEF InQueue, Sub, Shrinks
    <3> QED
      BY <1>11, <3>1, QueuedListed DEF IInv
  <2> QED
    BY <2>1
<1> QED
  BY <1>4, <1>7, <1>8, <1>9, <1>10, <1>11, <1>12, ShrinkStep

(* The receiver of an entry that leaves its queue is in no queue after it. *)
LEMMA ReceiverClaimed ==
  ASSUME TypeOK, Queues, NEW c \in Chans, NEW j \in DOMAIN recvQ[c],
         recvQ' = [recvQ EXCEPT ![c] = After(recvQ[c], j)], sendQ' = sendQ
  PROVE  /\ EntryOK(recvQ[c][j], "recv", c)
         /\ Shrinks(recvQ, recvQ') /\ Shrinks(sendQ, sendQ')
         /\ \A d \in Chans : /\ ~InQueue(recvQ'[d], recvQ[c][j].w[1])
                            /\ ~InQueue(sendQ'[d], recvQ[c][j].w[1])
<1>1. /\ recvQ[c] \in Seq(Entry) /\ Distinct(recvQ[c])
      /\ \A k \in DOMAIN recvQ[c] : EntryOK(recvQ[c][k], "recv", c)
      /\ recvQ'[c] = After(recvQ[c], j) /\ \A d \in Chans : d # c => recvQ'[d] = recvQ[d]
  BY DEF TypeOK, DataTypeOK, Queues
<1>2. Shrinks(recvQ, recvQ') /\ Shrinks(sendQ, sendQ')
  BY <1>1, SubAfter, SubFacts DEF Shrinks
<1>3. PICK e : e = recvQ[c][j] /\ EntryOK(e, "recv", c)
  BY <1>1
<1>4. ~InQueue(recvQ'[c], e.w[1])
  <2>1. \A k \in DOMAIN recvQ[c] : recvQ[c][k].w = Cur(recvQ[c][k].w[1])
    BY <1>1 DEF EntryOK
  <2> QED
    BY <1>1, <1>3, <2>1, AfterGone
<1>5. \A d \in Chans : ~InQueue(sendQ[d], e.w[1]) /\ (d # c => ~InQueue(recvQ[d], e.w[1]))
  BY <1>3, OneQueue
<1>6. \A d \in Chans : ~InQueue(sendQ'[d], e.w[1]) /\ ~InQueue(recvQ'[d], e.w[1])
  BY <1>1, <1>4, <1>5
<1> QED
  BY <1>1, <1>2, <1>3, <1>6

(* So is the sender.                                                       *)
LEMMA SenderClaimed ==
  ASSUME TypeOK, Queues, NEW c \in Chans, NEW j \in DOMAIN sendQ[c],
         sendQ' = [sendQ EXCEPT ![c] = After(sendQ[c], j)], recvQ' = recvQ
  PROVE  /\ EntryOK(sendQ[c][j], "send", c)
         /\ Shrinks(recvQ, recvQ') /\ Shrinks(sendQ, sendQ')
         /\ \A d \in Chans : /\ ~InQueue(recvQ'[d], sendQ[c][j].w[1])
                            /\ ~InQueue(sendQ'[d], sendQ[c][j].w[1])
<1>1. /\ sendQ[c] \in Seq(Entry) /\ Distinct(sendQ[c])
      /\ \A k \in DOMAIN sendQ[c] : EntryOK(sendQ[c][k], "send", c)
      /\ sendQ'[c] = After(sendQ[c], j) /\ \A d \in Chans : d # c => sendQ'[d] = sendQ[d]
  BY DEF TypeOK, DataTypeOK, Queues
<1>2. Shrinks(recvQ, recvQ') /\ Shrinks(sendQ, sendQ')
  BY <1>1, SubAfter, SubFacts DEF Shrinks
<1>3. PICK e : e = sendQ[c][j] /\ EntryOK(e, "send", c)
  BY <1>1
<1>4. ~InQueue(sendQ'[c], e.w[1])
  <2>1. \A k \in DOMAIN sendQ[c] : sendQ[c][k].w = Cur(sendQ[c][k].w[1])
    BY <1>1 DEF EntryOK
  <2> QED
    BY <1>1, <1>3, <2>1, AfterGone
<1>5. \A d \in Chans : ~InQueue(recvQ[d], e.w[1]) /\ (d # c => ~InQueue(sendQ[d], e.w[1]))
  BY <1>3, OneQueue
<1>6. \A d \in Chans : ~InQueue(recvQ'[d], e.w[1]) /\ ~InQueue(sendQ'[d], e.w[1])
  BY <1>1, <1>4, <1>5
<1> QED
  BY <1>1, <1>2, <1>3, <1>6

LEMMA CommitStep ==
  ASSUME IInv, TypeOK', NEW p \in Procs, pc[p] = "start",
         NEW e, NEW dir, NEW c \in Chans, EntryOK(e, dir, c), Unclaimed(e.w),
         NEW v, v # Closed, NEW out, out.st # "pending", NEW got,
         got = IF dir = "recv" THEN v ELSE Unset,
         Commit(p, e, Outcome("ok", e.i, got), v, out),
         UNCHANGED <<closed, nops, call, value, released, wake, res>>,
         Shrinks(recvQ, recvQ'), Shrinks(sendQ, sendQ'),
         \A d \in Chans : Room(d),
         \A d \in Chans : ~InQueue(recvQ'[d], e.w[1]) /\ ~InQueue(sendQ'[d], e.w[1])
  PROVE  IInv'
<1>1. TypeOK /\ Cur(p) \in Op /\ Cur(p)' = Cur(p) /\ Cur(p)[1] = p
  BY CurIsOp, CurFacts DEF IInv, Cur
<1>2. e.i = 0 /\ e.w = Cur(e.w[1]) /\ e.w[1] \in Procs /\ pc[e.w[1]] \notin {"start", "idle"}
  BY DEF EntryOK, Listed
<1>3. e.w \in Op /\ e.w # Cur(p)
  BY <1>1, <1>2, CurIsOp DEF Cur
<1>4. /\ lin'[e.w] = Outcome("ok", 0, IF dir = "recv" THEN v ELSE Unset)
      /\ lin'[Cur(p)] = out
      /\ \A w \in Op : w # e.w /\ w # Cur(p) => lin'[w] = lin[w]
  BY <1>1, <1>2, <1>3 DEF Commit, TypeOK, DataTypeOK, CallsTypeOK
<1>5. pc'[p] = "finish" /\ hand'[p].out = out
  BY <1>1 DEF Commit, TypeOK, DataTypeOK
<1>6. ThreadOK(p)'
  BY <1>1, <1>4, <1>5 DEF ThreadOK, Waiting
<1> QED
  BY <1>4, <1>6, ClaimStep DEF Commit

LEMMA SendHandoffInv ==
  ASSUME IInv, TypeOK', NEW p \in Procs, pc[p] = "start", NEW i \in Nat, NEW c \in Chans,
         SendHandoff(p, i, c)
  PROVE  IInv'
<1>1. PICK j \in DOMAIN recvQ[c] :
        /\ Unclaimed(recvQ[c][j].w)
        /\ Commit(p, recvQ[c][j], Outcome("ok", recvQ[c][j].i, Cur(p)), Cur(p),
                  Outcome("ok", i, Unset))
        /\ recvQ' = [recvQ EXCEPT ![c] = After(recvQ[c], j)]
  BY DEF SendHandoff, FirstLive
<1>2. TypeOK /\ Queues /\ sendQ' = sendQ
  BY DEF IInv, SendHandoff
<1>3. /\ EntryOK(recvQ[c][j], "recv", c)
      /\ Shrinks(recvQ, recvQ') /\ Shrinks(sendQ, sendQ')
      /\ \A d \in Chans : /\ ~InQueue(recvQ'[d], recvQ[c][j].w[1])
                         /\ ~InQueue(sendQ'[d], recvQ[c][j].w[1])
  BY <1>1, <1>2, ReceiverClaimed
<1>4. Cur(p) # Closed
  BY <1>2, CurIsOp, MarkerAssumption
<1>5. \A d \in Chans : Room(d)
  BY DEF Room, SendHandoff
<1>6. Outcome("ok", i, Unset).st # "pending"
  BY DEF Outcome
<1> QED
  BY <1>1, <1>3, <1>4, <1>5, <1>6, CommitStep DEF SendHandoff

LEMMA RecvTakePromoteInv ==
  ASSUME IInv, TypeOK', NEW p \in Procs, pc[p] = "start", NEW i \in Nat, NEW c \in Chans,
         RecvTakePromote(p, i, c)
  PROVE  IInv'
<1>1. PICK j \in DOMAIN sendQ[c] :
        /\ Unclaimed(sendQ[c][j].w)
        /\ Commit(p, sendQ[c][j], Outcome("ok", sendQ[c][j].i, Unset), SendOk,
                  Outcome("ok", i, Head(buf[c])))
        /\ buf' = [buf EXCEPT ![c] = Append(Tail(buf[c]), sendQ[c][j].w)]
        /\ sendQ' = [sendQ EXCEPT ![c] = After(sendQ[c], j)]
  BY DEF RecvTakePromote, FirstLive
<1>2. TypeOK /\ Queues /\ recvQ' = recvQ
  BY DEF IInv, RecvTakePromote
<1>3. /\ EntryOK(sendQ[c][j], "send", c)
      /\ Shrinks(recvQ, recvQ') /\ Shrinks(sendQ, sendQ')
      /\ \A d \in Chans : /\ ~InQueue(recvQ'[d], sendQ[c][j].w[1])
                         /\ ~InQueue(sendQ'[d], sendQ[c][j].w[1])
  BY <1>1, <1>2, SenderClaimed
<1>4. SendOk # Closed
  BY MarkerAssumption
<1>5. \A d \in Chans : Room(d)
  <2>1. buf[c] \in Seq(Op) /\ buf[c] # <<>> /\ sendQ[c] \in Seq(Entry)
    BY <1>2 DEF RecvTakePromote, TypeOK, DataTypeOK, CallsTypeOK
  <2>2. buf'[c] = Append(Tail(buf[c]), sendQ[c][j].w) /\ \A d \in Chans \ {c} : buf'[d] = buf[d]
    BY <1>1, <1>2 DEF TypeOK, DataTypeOK, CallsTypeOK
  <2>3. Len(buf'[c]) = Len(buf[c])
    <3>1. Tail(buf[c]) \in Seq(Op) /\ Len(Tail(buf[c])) = Len(buf[c]) - 1 /\ sendQ[c][j].w \in Op
      BY <2>1, HeadTailProperties, EntryWaiter
    <3>2. Len(Append(Tail(buf[c]), sendQ[c][j].w)) = Len(Tail(buf[c])) + 1
      BY <3>1, AppendProperties
    <3> QED
      BY <2>1, <2>2, <3>1, <3>2, LenProperties
  <2>4. Len(buf[c]) \in Nat
    BY <2>1
  <2> QED
    BY <2>1, <2>2, <2>3, <2>4 DEF Room
<1>6. Outcome("ok", i, Head(buf[c])).st # "pending"
  BY DEF Outcome
<1>7. Unset = IF "send" = "recv" THEN SendOk ELSE Unset
  OBVIOUS
<1> QED
  BY <1>1, <1>3, <1>4, <1>5, <1>6, <1>7, CommitStep DEF RecvTakePromote

LEMMA RecvFromSenderInv ==
  ASSUME IInv, TypeOK', NEW p \in Procs, pc[p] = "start", NEW i \in Nat, NEW c \in Chans,
         RecvFromSender(p, i, c)
  PROVE  IInv'
<1>1. PICK j \in DOMAIN sendQ[c] :
        /\ Unclaimed(sendQ[c][j].w)
        /\ Commit(p, sendQ[c][j], Outcome("ok", sendQ[c][j].i, Unset), SendOk,
                  Outcome("ok", i, sendQ[c][j].w))
        /\ sendQ' = [sendQ EXCEPT ![c] = After(sendQ[c], j)]
  BY DEF RecvFromSender, FirstLive
<1>2. TypeOK /\ Queues /\ recvQ' = recvQ
  BY DEF IInv, RecvFromSender
<1>3. /\ EntryOK(sendQ[c][j], "send", c)
      /\ Shrinks(recvQ, recvQ') /\ Shrinks(sendQ, sendQ')
      /\ \A d \in Chans : /\ ~InQueue(recvQ'[d], sendQ[c][j].w[1])
                         /\ ~InQueue(sendQ'[d], sendQ[c][j].w[1])
  BY <1>1, <1>2, SenderClaimed
<1>4. SendOk # Closed
  BY MarkerAssumption
<1>5. \A d \in Chans : Room(d)
  BY DEF Room, RecvFromSender
<1>6. Outcome("ok", i, sendQ[c][j].w).st # "pending"
  BY DEF Outcome
<1>7. Unset = IF "send" = "recv" THEN SendOk ELSE Unset
  OBVIOUS
<1> QED
  BY <1>1, <1>3, <1>4, <1>5, <1>6, <1>7, CommitStep DEF RecvFromSender

LEMMA PollInv ==
  ASSUME IInv, TypeOK', NEW p \in Procs, Poll(p)
  PROVE  IInv'
<1>1. PICK c \in Chans : PollHit(p, 0, c) /\ pc[p] = "start" /\ 0 \in Nat
  BY DEF Poll
<1> QED
  BY <1>1, SendHandoffInv, SendBufferInv, SendClosedInv, RecvTakeInv, RecvTakePromoteInv,
     RecvFromSenderInv, RecvClosedInv DEF PollHit

-----------------------------------------------------------------------------
LEMMA CloseCommitInv ==
  ASSUME IInv, TypeOK', NEW p \in Procs, CloseCommit(p)
  PROVE  IInv'
<1>1. TypeOK /\ Queues /\ NoMissedMatch /\ Cur(p) \in Op /\ Cur(p)' = Cur(p) /\ wake[p] \in Seq(Entry)
  BY CurIsOp DEF IInv, CloseCommit, Cur, TypeOK, DataTypeOK
<1>2. PICK j \in DOMAIN wake[p] : \E e : /\ e = wake[p][j] /\ Unclaimed(e.w)
                                      /\ index' = [index EXCEPT ![e.w] = e.i]
                                      /\ lin' = [lin EXCEPT ![e.w] = Outcome("closed", e.i, Unset)]
                                      /\ hand' = [hand EXCEPT ![p] = [w |-> e.w, v |-> Closed, out |-> NoOutcome]]
                                      /\ wake' = [wake EXCEPT ![p] = After(wake[p], j)]
  BY DEF CloseCommit, FirstLive
<1>3. PICK e : /\ e = wake[p][j] /\ Unclaimed(e.w)
               /\ index' = [index EXCEPT ![e.w] = e.i]
               /\ lin' = [lin EXCEPT ![e.w] = Outcome("closed", e.i, Unset)]
               /\ hand' = [hand EXCEPT ![p] = [w |-> e.w, v |-> Closed, out |-> NoOutcome]]
               /\ wake' = [wake EXCEPT ![p] = After(wake[p], j)]
  BY <1>2
<1>4. PICK c \in Chans, dir \in {"send", "recv"} : closed[c] /\ EntryOK(e, dir, c)
  BY <1>3 DEF IInv, Snapshots, Refusable
<1>5. e.i = 0 /\ e.w = Cur(e.w[1]) /\ e.w[1] \in Procs /\ pc[e.w[1]] \notin {"closing", "idle"}
  BY <1>4 DEF EntryOK, Listed
<1>6. e.w \in Op /\ e.w # Cur(p) /\ pc[p] = "closing"
  BY <1>1, <1>5, CurIsOp DEF Cur, CloseCommit
<1>7. /\ lin'[e.w] = Outcome("closed", 0, Unset)
      /\ \A w \in Op : w # e.w => lin'[w] = lin[w]
  BY <1>1, <1>3, <1>5, <1>6 DEF TypeOK, DataTypeOK, CallsTypeOK
<1>8. ThreadOK(p)'
  <2>1. lin[Cur(p)] = Outcome("done", 0, Unset) /\ lin'[Cur(p)] = lin[Cur(p)] /\ pc'[p] = "closefinish"
    BY <1>1, <1>6, <1>7 DEF IInv, ThreadsOK, ThreadOK, CloseCommit, TypeOK, DataTypeOK
  <2> QED
    BY <1>1, <2>1 DEF ThreadOK, Waiting
<1>9. \A q \in Procs : \A k \in DOMAIN wake'[q] : \E m \in DOMAIN wake[q] : wake'[q][k] = wake[q][m]
  <2>1. \A k \in DOMAIN After(wake[p], j) : \E m \in DOMAIN wake[p] : After(wake[p], j)[k] = wake[p][m]
    BY <1>1, AfterProperties
  <2>2. wake'[p] = After(wake[p], j) /\ \A q \in Procs \ {p} : wake'[q] = wake[q]
    BY <1>1, <1>3 DEF TypeOK, DataTypeOK
  <2> QED
    BY <2>1, <2>2
<1>10. /\ Shrinks(recvQ, recvQ') /\ Shrinks(sendQ, sendQ')
       /\ \A d \in Chans : Room(d)
       /\ pc' = [pc EXCEPT ![p] = "closefinish"]
       /\ UNCHANGED <<closed, nops, call, value, released, res>>
  BY SubFacts DEF Room, CloseCommit
<1>11. ASSUME NEW d \in Chans
       PROVE  ~InQueue(recvQ'[d], e.w[1]) /\ ~InQueue(sendQ'[d], e.w[1])
  <2>1. recvQ' = recvQ /\ sendQ' = sendQ /\ recvQ[c] = <<>> /\ sendQ[c] = <<>>
    BY <1>1, <1>4 DEF CloseCommit, NoMissedMatch
  <2>2. ~InQueue(recvQ[c], e.w[1]) /\ ~InQueue(sendQ[c], e.w[1])
    BY <2>1 DEF InQueue
  <2> QED
    BY <1>1, <1>4, <2>1, <2>2, OneQueue
<1> QED
  BY <1>3, <1>4, <1>6, <1>7, <1>8, <1>9, <1>10, <1>11, ClaimStep

(* The timed out thread takes its entry out.                               *)
LEMMA WithdrawInv ==
  ASSUME IInv, TypeOK', NEW p \in Procs, Withdraw(p)
  PROVE  IInv'
<1>1. /\ TypeOK /\ Hands /\ Queues /\ ThreadOK(p) /\ pc[p] = "withdraw" /\ Cur(p)' = Cur(p)
      /\ recvQ \in [Chans -> Seq(Entry)] /\ sendQ \in [Chans -> Seq(Entry)]
  BY DEF IInv, ThreadsOK, Withdraw, Cur, goVars, TypeOK, DataTypeOK
<1>2. PICK c \in Chans : /\ call[p].cases[0].ch = c
                         /\ recvQ' = [recvQ EXCEPT ![c] = Without(recvQ[c], Cur(p))]
                         /\ sendQ' = [sendQ EXCEPT ![c] = Without(sendQ[c], Cur(p))]
  BY DEF Withdraw, Ch
<1>3. /\ pc'[p] = "idle" /\ \A q \in Procs \ {p} : pc'[q] = pc[q] /\ res'[q] = res[q]
      /\ res'[p] = Outcome("timeout", TimeoutIndex, Unset)
  BY <1>1 DEF Withdraw, Return, TypeOK, DataTypeOK
<1>4. ThreadOK(p)'
  BY <1>1, <1>3 DEF ThreadOK, Withdraw, goVars, Waiting, Outcome
<1>5. Moves({p})
  BY <1>3 DEF Moves, Same, Withdraw, goVars, waiters
<1>6. index'[Cur(p)] # NoIndex /\ ~Owed(p)
  BY <1>1 DEF ThreadOK, Withdraw, waiters, TimeoutIndex, NoIndex, Owed, Waiting
<1>7. Hands'
  <2>1. p \notin Finishing' /\ \A r \in Finishing' : r \in Finishing /\ hand'[r] = hand[r]
    BY <1>3 DEF Finishing, Withdraw
  <2>2. \A r \in Finishing' : hand[r].w[1] # p
    BY <1>1, <1>6, <2>1, HandOwed
  <2> QED
    BY <1>1, <1>5, <2>1, <2>2, HandsStep
<1>8. ASSUME NEW q \in Seq(Entry), Distinct(q)
      PROVE  Sub(q, Without(q, Cur(p))) /\ \A k \in DOMAIN Without(q, Cur(p)) : Without(q, Cur(p))[k].w # Cur(p)
  BY <1>8, WithoutProperties DEF Sub
<1>9. Shrinks(recvQ, recvQ') /\ Shrinks(sendQ, sendQ')
  BY <1>1, <1>2, <1>8, SubFacts DEF Shrinks, Queues
<1>10. ASSUME NEW d \in Chans PROVE ~InQueue(recvQ'[d], p) /\ ~InQueue(sendQ'[d], p)
  <2>1. ASSUME NEW k \in DOMAIN recvQ'[d], recvQ'[d][k].w[1] = p PROVE FALSE
    <3>1. PICK m \in DOMAIN recvQ[d] : recvQ'[d][k] = recvQ[d][m]
      BY <1>9 DEF Shrinks, Sub
    <3>2. EntryOK(recvQ[d][m], "recv", d)
      BY <1>1 DEF Queues
    <3>3. recvQ'[d][k].w = Cur(p) /\ d = c
      BY <1>2, <2>1, <3>1, <3>2 DEF EntryOK
    <3> QED
      BY <1>1, <1>2, <1>8, <3>3 DEF Queues
  <2>2. ASSUME NEW k \in DOMAIN sendQ'[d], sendQ'[d][k].w[1] = p PROVE FALSE
    <3>1. PICK m \in DOMAIN sendQ[d] : sendQ'[d][k] = sendQ[d][m]
      BY <1>9 DEF Shrinks, Sub
    <3>2. EntryOK(sendQ[d][m], "send", d)
      BY <1>1 DEF Queues
    <3>3. sendQ'[d][k].w = Cur(p) /\ d = c
      BY <1>2, <2>2, <3>1, <3>2 DEF EntryOK
    <3> QED
      BY <1>1, <1>2, <1>8, <3>3 DEF Queues
  <2> QED
    BY <2>1, <2>2 DEF InQueue
<1>11. /\ ClaimsStay /\ \A d \in Chans : Room(d)
       /\ \A w \in Op : index'[w] = index[w] /\ released'[w] = released[w]
       /\ nops' = nops /\ call' = call /\ closed' = closed /\ wake' = wake
  BY DEF ClaimsStay, Room, Withdraw, goVars, waiters
<1> QED
  BY <1>4, <1>5, <1>6, <1>7, <1>9, <1>10, <1>11, ShrinkStep

(* The elements of s are from q or from r.                                 *)
Joins(q, r, s) ==
  \A k \in DOMAIN s : (\E j \in DOMAIN q : s[k] = q[j]) \/ (\E j \in DOMAIN r : s[k] = r[j])

(* The snapshot of close() is the receivers followed by the senders.       *)
LEMMA ConcatJoins ==
  ASSUME NEW q \in Seq(Entry), NEW r \in Seq(Entry)
  PROVE  Joins(q, r, q \o r)
<1> DEFINE s == q \o r
<1>1. /\ s \in Seq(Entry) /\ Len(s) = Len(q) + Len(r)
      /\ \A i \in 1..(Len(q) + Len(r)) : s[i] = IF i <= Len(q) THEN q[i] ELSE r[i - Len(q)]
      /\ Len(q) \in Nat /\ Len(r) \in Nat
  BY ConcatProperties, LenProperties
<1> HIDE DEF s
<1> SUFFICES ASSUME NEW k \in DOMAIN s
             PROVE  (\E j \in DOMAIN q : s[k] = q[j]) \/ (\E j \in DOMAIN r : s[k] = r[j])
  BY DEF Joins, s
<1>2. k \in 1..(Len(q) + Len(r)) /\ DOMAIN q = 1..Len(q) /\ DOMAIN r = 1..Len(r)
  BY <1>1, LenProperties
<1>3. CASE k <= Len(q)
  BY <1>1, <1>2, <1>3
<1>4. CASE ~(k <= Len(q))
  <2>1. k - Len(q) \in DOMAIN r
    BY <1>1, <1>2, <1>4
  <2> QED
    BY <1>1, <1>2, <1>4, <2>1
<1> QED
  BY <1>3, <1>4

(* close(): the snapshot holds exactly those it may refuse.                *)
LEMMA CloseMarkInv ==
  ASSUME IInv, TypeOK', NEW p \in Procs, CloseMark(p)
  PROVE  IInv'
<1>1. /\ TypeOK /\ ThreadsOK /\ Hands /\ Future /\ Queues /\ Snapshots /\ NoMissedMatch
      /\ pc[p] = "start" /\ Cur(p) \in Op /\ Cur(p)' = Cur(p) /\ Cur(p)[1] = p
  BY CurIsOp, CurFacts DEF IInv, CloseMark, Cur
<1>2. PICK c \in Chans :
        /\ ~closed[c]
        /\ closed' = [closed EXCEPT ![c] = TRUE]
        /\ wake' = [wake EXCEPT ![p] = recvQ[c] \o sendQ[c]]
        /\ recvQ' = [recvQ EXCEPT ![c] = <<>>]
        /\ sendQ' = [sendQ EXCEPT ![c] = <<>>]
  BY DEF CloseMark
<1>0. /\ pc'[p] = "closing" /\ \A q \in Procs \ {p} : pc'[q] = pc[q] /\ wake'[q] = wake[q]
      /\ wake'[p] = recvQ[c] \o sendQ[c]
  <2>1. DOMAIN pc = Procs /\ DOMAIN wake = Procs
    BY <1>1 DEF TypeOK, DataTypeOK
  <2>2. pc' = [pc EXCEPT ![p] = "closing"]
    BY DEF CloseMark
  <2> QED
    BY <1>2, <2>1, <2>2
<1>3. /\ lin'[Cur(p)] = Outcome("done", 0, Unset)
      /\ \A w \in Op : w # Cur(p) => lin'[w] = lin[w]
      /\ \A d \in Chans \ {c} : closed'[d] = closed[d] /\ recvQ'[d] = recvQ[d] /\ sendQ'[d] = sendQ[d]
      /\ closed'[c] /\ recvQ'[c] = <<>> /\ sendQ'[c] = <<>>
      /\ buf' = buf /\ index' = index /\ released' = released /\ nops' = nops /\ call' = call
      /\ hand' = hand
  <2>1. lin' = [lin EXCEPT ![Cur(p)] = Outcome("done", 0, Unset)]
        /\ UNCHANGED <<buf, nops, call, lock, waiters, hand, res>>
    BY DEF CloseMark
  <2>2. lin'[Cur(p)] = Outcome("done", 0, Unset) /\ \A w \in Op : w # Cur(p) => lin'[w] = lin[w]
    BY <1>1, <2>1 DEF TypeOK, DataTypeOK, CallsTypeOK
  <2>3. /\ \A d \in Chans \ {c} : closed'[d] = closed[d] /\ recvQ'[d] = recvQ[d] /\ sendQ'[d] = sendQ[d]
        /\ closed'[c] /\ recvQ'[c] = <<>> /\ sendQ'[c] = <<>>
    BY <1>1, <1>2 DEF TypeOK, DataTypeOK, CallsTypeOK
  <2> QED
    BY <2>1, <2>2, <2>3 DEF waiters
<1>4. ThreadOK(p)'
  BY <1>1, <1>0, <1>3 DEF ThreadOK, Waiting
<1>5. Moves({p})
  <2>1. \A q \in Procs \ {p} : nops[q] > 0 => lin'[Cur(q)] = lin[Cur(q)]
    BY <1>1, <1>0, <1>3, CurFacts DEF Cur
  <2> QED
    BY <1>0, <1>3, <2>1 DEF Moves, Same, CloseMark, waiters
<1>6. ~Owed(p) /\ ~Listed(p)
  BY <1>1 DEF Owed, Listed, Waiting
<1>7. ThreadsOK'
  BY <1>1, <1>4, <1>5, ThreadsStep
<1>8. Hands'
  <2>1. p \notin Finishing' /\ \A r \in Finishing' : r \in Finishing /\ hand'[r] = hand[r]
    BY <1>0, <1>3 DEF Finishing
  <2>2. \A r \in Finishing' : hand[r].w[1] # p
    BY <1>1, <1>6, <2>1, HandOwed
  <2> QED
    BY <1>1, <1>5, <2>1, <2>2, HandsStep
<1>9. Future'
  BY <1>1, <1>0, <1>3 DEF Future, Unclaimed
<1>10. \A d \in Chans : Sub(recvQ[d], recvQ'[d]) /\ Sub(sendQ[d], sendQ'[d])
  BY <1>1, <1>2, SubFacts DEF Shrinks, TypeOK, DataTypeOK
<1>11. Queues'
  <2>1. ASSUME NEW d \in Chans, InQueue(recvQ'[d], p) \/ InQueue(sendQ'[d], p) PROVE FALSE
    <3>1. InQueue(recvQ[d], p) \/ InQueue(sendQ[d], p)
      BY <1>10, <2>1 DEF InQueue, Sub
    <3> QED
      BY <1>1, <1>6, <3>1, QueuedListed
  <2> QED
    BY <1>1, <1>5, <1>10, <2>1, QueuesStep
<1>12. Snapshots'
  <2>1. ASSUME NEW e, Refusable(e), index'[e.w] = NoIndex PROVE Refusable(e)'
    BY <1>1, <1>0, <1>3, <1>5, <1>6, <2>1, RefusableStays
  <2>2. ASSUME NEW q \in Procs \ {p}, NEW k \in DOMAIN wake'[q], index'[wake'[q][k].w] = NoIndex
        PROVE  Refusable(wake[q][k])'
    <3>1. PICK e : e = wake'[q][k] /\ Refusable(e)
      BY <1>1, <1>0, <1>3, <2>2 DEF Snapshots, Unclaimed
    <3> QED
      BY <2>1, <2>2, <3>1
  <2>3. ASSUME NEW k \in DOMAIN wake'[p], index'[wake'[p][k].w] = NoIndex
        PROVE  Refusable(wake[p][k])'
    <3>1. /\ recvQ[c] \in Seq(Entry) /\ sendQ[c] \in Seq(Entry)
          /\ wake'[p] = recvQ[c] \o sendQ[c] /\ k \in DOMAIN wake'[p]
      BY <1>1, <1>0, <2>3 DEF TypeOK, DataTypeOK
    <3>2. PICK e : e = wake'[p][k]
      OBVIOUS
    <3>3. Joins(recvQ[c], sendQ[c], wake'[p])
      BY <3>1, ConcatJoins
    <3>4. \/ EntryOK(e, "send", c)
          \/ EntryOK(e, "recv", c) /\ buf[c] = <<>>
      BY <1>1, <1>3, <2>3, <3>2, <3>3 DEF Joins, Queues, NoMissedMatch, Unclaimed
    <3>5. e.w[1] \in Procs /\ e.w[1] # p
      BY <1>6, <3>4 DEF EntryOK
    <3>6. \/ EntryOK(e, "send", c)'
          \/ EntryOK(e, "recv", c)' /\ buf[c] = <<>>
      BY <1>1, <1>5, <3>4, <3>5, SameEntry DEF Moves
    <3>7. Refusable(e)'
      BY <1>0, <1>3, <3>6 DEF Refusable
    <3> QED
      BY <3>2, <3>7
  <2> QED
    BY <2>2, <2>3 DEF Snapshots, Unclaimed
<1>13. NoMissedMatch'
  BY <1>1, <1>0, <1>3 DEF NoMissedMatch, Unclaimed
<1> QED
  BY <1>7, <1>8, <1>9, <1>11, <1>12, <1>13 DEF IInv

LEMMA InvokeInv ==
  ASSUME IInv, TypeOK', NEW p \in Procs, Invoke(p)
  PROVE  IInv'
<1> DEFINE w == <<p, nops[p] + 1>>
<1>1. /\ TypeOK /\ ThreadsOK /\ Hands /\ Future /\ Queues /\ Snapshots /\ NoMissedMatch
      /\ pc[p] = "idle" /\ nops[p] \in Nat /\ nops[p] < MaxOps
  <2>1. nops \in [Procs -> 0..MaxOps] /\ MaxOps \in Nat
    BY ChanAssumption DEF IInv, TypeOK, DataTypeOK, CallsTypeOK
  <2> QED
    BY <2>1 DEF IInv, Invoke, NewCall
<1>2. w \in Op /\ w[1] = p /\ Unclaimed(w) /\ ~released[w]
  BY <1>1, ChanAssumption DEF Op, Future
<1>3. /\ nops'[p] = nops[p] + 1 /\ Cur(p)' = w /\ pc'[p] = "start"
      /\ lin'[w] = Outcome("pending", NoIndex, Unset)
      /\ \A v \in Op : v # w => lin'[v] = lin[v]
      /\ \A q \in Procs \ {p} : nops'[q] = nops[q] /\ call'[q] = call[q] /\ pc'[q] = pc[q]
  BY <1>1, <1>2 DEF Invoke, NewCall, Cur, TypeOK, DataTypeOK, CallsTypeOK
<1>4. /\ closed' = closed /\ buf' = buf /\ recvQ' = recvQ /\ sendQ' = sendQ /\ wake' = wake
      /\ index' = index /\ value' = value /\ released' = released /\ hand' = hand /\ res' = res
  BY DEF Invoke, NewCall, waiters
<1>5. ThreadOK(p)'
  <2>1. Cur(p)' = w /\ index'[w] = NoIndex /\ ~released'[w] /\ lin'[w].st = "pending"
    BY <1>2, <1>3, <1>4 DEF Unclaimed, Outcome
  <2> HIDE DEF w
  <2> QED
    BY <1>3, <2>1 DEF ThreadOK, Waiting, Unclaimed
<1>6. Moves({p})
  <2>1. \A q \in Procs \ {p} : nops[q] > 0 => lin'[Cur(q)] = lin[Cur(q)]
    BY <1>1, <1>3, CurFacts DEF Cur
  <2> QED
    BY <1>3, <1>4, <2>1 DEF Moves, Same
<1>7. ~Owed(p) /\ ~Listed(p)
  BY <1>1 DEF Owed, Listed, Waiting
<1>8. ThreadsOK'
  BY <1>1, <1>5, <1>6, ThreadsStep
<1>9. Hands'
  <2>1. p \notin Finishing' /\ \A r \in Finishing' : r \in Finishing /\ hand'[r] = hand[r]
    BY <1>3, <1>4 DEF Finishing
  <2>2. \A r \in Finishing' : hand[r].w[1] # p
    BY <1>1, <1>7, <2>1, HandOwed
  <2> QED
    BY <1>1, <1>6, <2>1, <2>2, HandsStep
<1>10. Future'
  <2>1. \A q \in Procs : nops'[q] \in Nat /\ nops'[q] >= nops[q]
    <3>1. \A q \in Procs : nops[q] \in Nat
      BY <1>1, ChanAssumption DEF TypeOK, DataTypeOK, CallsTypeOK
    <3> QED
      BY <1>3, <3>1
  <2> QED
    BY <1>1, <1>4, <2>1, FutureStep
<1>11. \A c \in Chans : Sub(recvQ[c], recvQ'[c]) /\ Sub(sendQ[c], sendQ'[c])
  BY <1>4, SubFacts
<1>12. Queues'
  <2>1. \A c \in Chans : ~InQueue(recvQ'[c], p) /\ ~InQueue(sendQ'[c], p)
    BY <1>1, <1>4, <1>7, QueuedListed
  <2> QED
    BY <1>1, <1>6, <1>11, <2>1, QueuesStep
<1>13. ClaimsStay /\ \A c \in Chans : Room(c)
  BY <1>4 DEF ClaimsStay, Room
<1>14. Snapshots'
  BY <1>1, <1>4, <1>6, <1>7, <1>13, SnapshotsStep
<1>15. NoMissedMatch'
  BY <1>1, <1>4, <1>11, <1>13, MatchStep
<1> QED
  BY <1>8, <1>9, <1>10, <1>12, <1>14, <1>15 DEF IInv

(* A plain operation has one case, numbered 0.                             *)
LEMMA PlainCase ==
  ASSUME TypeOK, NEW p \in Procs, DOMAIN call[p].cases = {0}
  PROVE  call[p].cases[0] = [dir |-> Dir(p, 0), ch |-> Ch(p, 0)] /\ Ch(p, 0) \in Chans
<1>1. IsCall(call[p])
  <2>1. call[p] = NoCall \/ \E q \in Procs : call[p] \in Calls[q]
    BY DEF TypeOK, DataTypeOK, CallsTypeOK
  <2>2. call[p] # NoCall
    BY DEF NoCall
  <2> QED
    BY <2>1, <2>2, ChanAssumption
<1>2. call[p].cases[0] \in Case
  BY <1>1 DEF IsCall
<1> QED
  BY <1>2 DEF Case, Dir, Ch

(* Queue q with an entry added for thread p.                               *)
LEMMA AppendedDistinct ==
  ASSUME NEW q \in Seq(Entry), NEW e \in Entry, Distinct(q),
         \A k \in DOMAIN q : q[k].w # e.w
  PROVE  /\ Distinct(Append(q, e))
         /\ \A k \in DOMAIN Append(q, e) : Append(q, e)[k] = e \/ \E m \in DOMAIN q : Append(q, e)[k] = q[m]
<1> DEFINE r == Append(q, e)
<1>1. /\ Len(r) = Len(q) + 1 /\ r \in Seq(Entry) /\ Len(q) \in Nat
      /\ \A i \in 1..Len(q) : r[i] = q[i]
      /\ r[Len(q) + 1] = e
  BY AppendProperties, LenProperties
<1> HIDE DEF r
<1>2. DOMAIN r = 1..(Len(q) + 1) /\ DOMAIN q = 1..Len(q)
  BY <1>1, LenProperties
<1>3. \A k \in DOMAIN r : (k = Len(q) + 1 /\ r[k] = e) \/ (k \in DOMAIN q /\ r[k] = q[k])
  BY <1>1, <1>2
<1>4. ASSUME NEW k \in DOMAIN r, NEW m \in DOMAIN r, r[k].w = r[m].w PROVE k = m
  <2>1. (k = Len(q) + 1 /\ r[k] = e) \/ (k \in DOMAIN q /\ r[k] = q[k])
    BY <1>3
  <2>2. (m = Len(q) + 1 /\ r[m] = e) \/ (m \in DOMAIN q /\ r[m] = q[m])
    BY <1>3
  <2> QED
    BY <1>4, <2>1, <2>2 DEF Distinct
<1>5. Distinct(r) /\ \A k \in DOMAIN r : r[k] = e \/ \E m \in DOMAIN q : r[k] = q[m]
  BY <1>3, <1>4 DEF Distinct
<1> QED
  BY <1>5 DEF r

(* p registers its waiter: nothing was ready under the lock.               *)
LEMMA ParkInv ==
  ASSUME IInv, TypeOK', NEW p \in Procs, Park(p)
  PROVE  IInv'
<1>0. PICK e : e = NewEntry(p, 0)
  OBVIOUS
<1>1. /\ TypeOK /\ ThreadsOK /\ Hands /\ Future /\ Queues /\ Snapshots /\ NoMissedMatch /\ ThreadOK(p)
      /\ pc[p] = "start" /\ Cur(p) \in Op /\ Cur(p)' = Cur(p) /\ Cur(p)[1] = p
      /\ recvQ \in [Chans -> Seq(Entry)] /\ sendQ \in [Chans -> Seq(Entry)]
  BY CurIsOp, CurFacts DEF IInv, ThreadsOK, Park, Cur, goVars, TypeOK, DataTypeOK
<1>2. PICK c \in Chans, dir \in {"send", "recv"} :
        /\ Polls(p, 0, dir, c)
        /\ Missed(dir, c)
        /\ recvQ' = [recvQ EXCEPT ![c] = IF dir = "send" THEN <<>> ELSE Append(@, e)]
        /\ sendQ' = [sendQ EXCEPT ![c] = IF dir = "recv" THEN <<>> ELSE Append(@, e)]
  BY <1>0 DEF Park
<1>3. /\ pc'[p] = "parked" /\ \A q \in Procs \ {p} : pc'[q] = pc[q]
      /\ closed' = closed /\ buf' = buf /\ nops' = nops /\ call' = call /\ lin' = lin
      /\ index' = index /\ value' = value /\ released' = released
      /\ hand' = hand /\ wake' = wake /\ res' = res
  BY <1>1 DEF Park, goVars, waiters, TypeOK, DataTypeOK
<1>4. ThreadOK(p)'
  BY <1>1, <1>3 DEF ThreadOK, Waiting, Unclaimed
<1>5. Moves({p})
  BY <1>3 DEF Moves, Same
<1>6. ~Owed(p) /\ ~Listed(p)
  BY <1>1 DEF Owed, Listed, Waiting
<1>7. ThreadsOK'
  BY <1>1, <1>4, <1>5, ThreadsStep
<1>8. Hands'
  <2>1. p \notin Finishing' /\ \A r \in Finishing' : r \in Finishing /\ hand'[r] = hand[r]
    BY <1>3 DEF Finishing
  <2>2. \A r \in Finishing' : hand[r].w[1] # p
    BY <1>1, <1>6, <2>1, HandOwed
  <2> QED
    BY <1>1, <1>5, <2>1, <2>2, HandsStep
<1>9. Future'
  BY <1>1, <1>3 DEF Future, Unclaimed
<1>10. Snapshots'
  <2>1. ClaimsStay
    BY <1>3 DEF ClaimsStay
  <2> QED
    BY <1>1, <1>3, <1>5, <1>6, <2>1, SnapshotsStep
<1>11. e \in Entry /\ e.w = Cur(p) /\ e.i = 0
  BY <1>0, <1>1 DEF NewEntry, Entry
<1>12. \A d \in Chans : /\ \A k \in DOMAIN recvQ[d] : recvQ[d][k].w # e.w
                        /\ \A k \in DOMAIN sendQ[d] : sendQ[d][k].w # e.w
  <2>1. \A d \in Chans : ~InQueue(recvQ[d], p) /\ ~InQueue(sendQ[d], p)
    BY <1>1, <1>6, QueuedListed
  <2> QED
    BY <1>1, <1>11, <2>1 DEF InQueue
(* The new entry, and what became of the old ones.                         *)
<1>13. EntryOK(e, dir, c)'
  <2>1. DOMAIN call[p].cases = {0} /\ Dir(p, 0) = dir /\ Ch(p, 0) = c
    BY <1>2 DEF Park, Plain, Polls
  <2>2. call'[p].cases[0] = [dir |-> dir, ch |-> c] /\ DOMAIN call'[p].cases = {0}
    BY <1>1, <1>3, <2>1, PlainCase
  <2>3. Listed(p)'
    BY <1>1, <1>3 DEF Listed, Unclaimed, ThreadOK
  <2> QED
    BY <1>1, <1>11, <2>2, <2>3 DEF EntryOK
<1>14. ASSUME NEW x, NEW side, NEW d, EntryOK(x, side, d) PROVE EntryOK(x, side, d)'
  <2>1. x.w[1] \in Procs /\ x.w[1] # p
    BY <1>6, <1>14 DEF EntryOK
  <2>2. Same(x.w[1])
    BY <1>5, <2>1 DEF Moves
  <2> QED
    BY <1>1, <1>14, <2>2, SameEntry
<1>15. \A d \in Chans : d # c => recvQ'[d] = recvQ[d] /\ sendQ'[d] = sendQ[d]
  BY <1>1, <1>2
<1>16. ASSUME NEW d \in Chans
      PROVE  /\ Distinct(recvQ'[d])
             /\ \A k \in DOMAIN recvQ'[d] : \/ d = c /\ dir = "recv" /\ recvQ'[d][k] = e
                                         \/ \E m \in DOMAIN recvQ[d] : recvQ'[d][k] = recvQ[d][m]
  <2>1. recvQ[d] \in Seq(Entry) /\ Distinct(recvQ[d]) /\ Distinct(<<>>)
    BY <1>1 DEF Queues, Distinct
  <2>2. CASE d # c
    BY <1>15, <2>1, <2>2
  <2>3. CASE d = c /\ dir = "recv"
    <3>1. recvQ'[d] = Append(recvQ[d], e)
      BY <1>1, <1>2, <2>3
    <3> QED
      BY <1>11, <1>12, <2>1, <2>3, <3>1, AppendedDistinct
  <2>4. CASE d = c /\ dir = "send"
    <3>1. recvQ'[d] = <<>>
      BY <1>1, <1>2, <2>4
    <3> QED
      BY <2>1, <3>1
  <2> QED
    BY <2>2, <2>3, <2>4
<1>17. ASSUME NEW d \in Chans
      PROVE  /\ Distinct(sendQ'[d])
             /\ \A k \in DOMAIN sendQ'[d] : \/ d = c /\ dir = "send" /\ sendQ'[d][k] = e
                                         \/ \E m \in DOMAIN sendQ[d] : sendQ'[d][k] = sendQ[d][m]
  <2>1. sendQ[d] \in Seq(Entry) /\ Distinct(sendQ[d]) /\ Distinct(<<>>)
    BY <1>1 DEF Queues, Distinct
  <2>2. CASE d # c
    BY <1>15, <2>1, <2>2
  <2>3. CASE d = c /\ dir = "send"
    <3>1. sendQ'[d] = Append(sendQ[d], e)
      BY <1>1, <1>2, <2>3
    <3> QED
      BY <1>11, <1>12, <2>1, <2>3, <3>1, AppendedDistinct
  <2>4. CASE d = c /\ dir = "recv"
    <3>1. sendQ'[d] = <<>>
      BY <1>1, <1>2, <2>4
    <3> QED
      BY <2>1, <3>1
  <2> QED
    BY <2>2, <2>3, <2>4
<1>18. Queues'
  <2>1. ASSUME NEW d \in Chans, NEW k \in DOMAIN recvQ'[d] PROVE EntryOK(recvQ[d][k], "recv", d)'
    <3>1. PICK x : x = recvQ'[d][k]
      OBVIOUS
    <3>2. (d = c /\ dir = "recv" /\ x = e) \/ \E m \in DOMAIN recvQ[d] : x = recvQ[d][m]
      BY <1>16, <3>1
    <3>3. CASE d = c /\ dir = "recv" /\ x = e
      BY <1>13, <3>1, <3>3
    <3>4. CASE \E m \in DOMAIN recvQ[d] : x = recvQ[d][m]
      <4>1. EntryOK(x, "recv", d)
        BY <1>1, <3>4 DEF Queues
      <4>2. EntryOK(x, "recv", d)'
        BY <1>14, <4>1
      <4> QED
        BY <3>1, <4>2
    <3> QED
      BY <3>2, <3>3, <3>4
  <2>2. ASSUME NEW d \in Chans, NEW k \in DOMAIN sendQ'[d] PROVE EntryOK(sendQ[d][k], "send", d)'
    <3>1. PICK x : x = sendQ'[d][k]
      OBVIOUS
    <3>2. (d = c /\ dir = "send" /\ x = e) \/ \E m \in DOMAIN sendQ[d] : x = sendQ[d][m]
      BY <1>17, <3>1
    <3>3. CASE d = c /\ dir = "send" /\ x = e
      BY <1>13, <3>1, <3>3
    <3>4. CASE \E m \in DOMAIN sendQ[d] : x = sendQ[d][m]
      <4>1. EntryOK(x, "send", d)
        BY <1>1, <3>4 DEF Queues
      <4>2. EntryOK(x, "send", d)'
        BY <1>14, <4>1
      <4> QED
        BY <3>1, <4>2
    <3> QED
      BY <3>2, <3>3, <3>4
  <2> QED
    BY <1>16, <1>17, <2>1, <2>2 DEF Queues
<1>19. NoMissedMatch'
  <2> SUFFICES ASSUME NEW d \in Chans
               PROVE  /\ closed'[d] => recvQ'[d] = <<>> /\ sendQ'[d] = <<>>
                      /\ \A j \in DOMAIN recvQ'[d] : Unclaimed(recvQ'[d][j].w) =>
                           /\ buf'[d] = <<>>
                           /\ \A k \in DOMAIN sendQ'[d] :
                                Unclaimed(sendQ'[d][k].w) => sendQ'[d][k].w = recvQ'[d][j].w
                      /\ \A k \in DOMAIN sendQ'[d] :
                           Unclaimed(sendQ'[d][k].w) => Len(buf'[d]) >= Cap[d]
    BY <1>3 DEF NoMissedMatch, Unclaimed
  <2>1. CASE d # c
    <3>1. closed'[d] = closed[d] /\ buf'[d] = buf[d] /\ recvQ'[d] = recvQ[d] /\ sendQ'[d] = sendQ[d]
      BY <1>3, <1>15, <2>1
    <3> QED
      BY <1>1, <3>1 DEF NoMissedMatch, Unclaimed
  <2>2. CASE d = c /\ dir = "recv"
    <3>1. ~closed'[d] /\ buf'[d] = <<>> /\ sendQ'[d] = <<>>
      BY <1>1, <1>2, <1>3, <2>2 DEF Missed
    <3> QED
      BY <3>1
  <2>3. CASE d = c /\ dir = "send"
    <3>1. ~closed'[d] /\ Len(buf'[d]) >= Cap[d] /\ recvQ'[d] = <<>>
      BY <1>1, <1>2, <1>3, <2>3 DEF Missed
    <3> QED
      BY <3>1
  <2> QED
    BY <2>1, <2>2, <2>3
<1> QED
  BY <1>7, <1>8, <1>9, <1>10, <1>18, <1>19 DEF IInv

(* The invariant holds initially, ...                                      *)
LEMMA InitInv == ASSUME Init PROVE IInv
<1>1. TypeOK
  BY InitType
<1>2. /\ \A p \in Procs : pc[p] = "idle" /\ nops[p] = 0 /\ wake[p] = <<>>
      /\ \A w \in Op : index[w] = NoIndex /\ released[w] = FALSE
      /\ \A c \in Chans : recvQ[c] = <<>> /\ sendQ[c] = <<>> /\ closed[c] = FALSE
  BY DEF Init, CallsInit
<1>3. ThreadsOK
  <2>1. ASSUME NEW p \in Procs PROVE ~(nops[p] > 0)
    <3>1. nops[p] = 0
      BY <1>2
    <3> QED
      BY ONLY <3>1
  <2> QED
    BY <1>2, <2>1 DEF ThreadsOK, ThreadOK, Waiting
<1>4. Hands /\ Future
  <2>1. Finishing = {}
    BY <1>2 DEF Finishing
  <2>2. \A p \in Procs : \A n \in 1..MaxOps : <<p, n>> \in Op
    BY DEF Op
  <2> QED
    BY <1>2, <2>1, <2>2 DEF Hands, Future, Unclaimed
<1>5. Queues /\ Snapshots /\ NoMissedMatch
  BY <1>2 DEF Queues, Distinct, Snapshots, NoMissedMatch
<1> QED
  BY <1>1, <1>3, <1>4, <1>5 DEF IInv

(* ... and every step of every thread keeps it.                            *)
LEMMA NextInv == ASSUME IInv, [Next]_vars PROVE IInv'
<1>1. TypeOK'
  BY NextType DEF IInv
<1>2. CASE UNCHANGED vars
  <2>1. /\ closed' = closed /\ buf' = buf /\ nops' = nops /\ call' = call /\ lin' = lin
        /\ recvQ' = recvQ /\ sendQ' = sendQ /\ index' = index /\ value' = value
        /\ released' = released /\ pc' = pc /\ hand' = hand /\ wake' = wake /\ res' = res
    BY <1>2 DEF vars, goVars, waiters
  <2>2. Hands'
    BY <2>1 DEF IInv, Hands, HandOK, Finishing, Told, Dir, Cur
  <2>3. Moves({})
    BY <2>1 DEF Moves, Same
  <2>4. ClaimsStay /\ Shrinks(recvQ, recvQ') /\ Shrinks(sendQ, sendQ') /\ \A c \in Chans : Room(c)
    BY <2>1, SubFacts DEF ClaimsStay, Room
  <2>5. {} \in SUBSET Procs
    OBVIOUS
  <2> QED
    BY <1>1, <2>1, <2>2, <2>3, <2>4, <2>5, ShrinkStep
<1>3. ASSUME NEW p \in Procs, Invoke(p) \/ Step(p) PROVE IInv'
  BY <1>1, <1>3, InvokeInv, PollInv, TryMissInv, ParkInv, FinishInv, WakeInv, ExpireInv,
     ClaimTimeoutInv, LoseTimeoutInv, WithdrawInv, CloseAgainInv, CloseMarkInv,
     CloseCommitInv, CloseFinishInv, CloseDoneInv
  DEF Step
<1> QED
  BY <1>2, <1>3 DEF Next

-----------------------------------------------------------------------------
(* Every step is one of GoChan's, or leaves its variables alone.           *)

(* A thread that polls offers its case to GoChan.                          *)
LEMMA PollOffers ==
  ASSUME IInv, NEW p \in Procs, pc[p] = "start", Plain(p), NEW dir, NEW c, Polls(p, 0, dir, c)
  PROVE  Go!Offers(p, 0, dir, c) /\ 0 \in DOMAIN call[p].cases
<1>1. call[p].cases[0] = [dir |-> dir, ch |-> c] /\ DOMAIN call[p].cases = {0}
  BY PlainCase DEF IInv, Plain, Polls
<1>2. nops[p] > 0 /\ lin[Cur(p)].st = "pending"
  BY DEF IInv, ThreadsOK, ThreadOK, TypeOK, DataTypeOK
<1> QED
  BY <1>1, <1>2 DEF Go!Offers, Go!Pending, Go!Cur, Cur

(* So does the thread of a live entry.                                     *)
LEMMA EntryOffers ==
  ASSUME IInv, NEW e, NEW dir, NEW c, EntryOK(e, dir, c), Unclaimed(e.w)
  PROVE  /\ e.w[1] \in Procs /\ e.w = Cur(e.w[1]) /\ e.i = 0 /\ pc[e.w[1]] \in {"parked", "expired"}
         /\ Go!Offers(e.w[1], 0, dir, c) /\ 0 \in DOMAIN call[e.w[1]].cases
<1>1. PICK q \in Procs : /\ q = e.w[1] /\ e.w = Cur(q) /\ e.i = 0 /\ Unclaimed(Cur(q)) /\ Listed(q)
                        /\ DOMAIN call[q].cases = {0} /\ call[q].cases[0] = [dir |-> dir, ch |-> c]
  BY DEF EntryOK
<1>2. pc[q] \in {"parked", "expired"}
  BY <1>1 DEF IInv, ThreadsOK, ThreadOK, Listed, Unclaimed, TimeoutIndex, NoIndex
<1>3. nops[q] > 0 /\ lin[Cur(q)].st = "pending"
  BY <1>1, <1>2 DEF IInv, ThreadsOK, ThreadOK, TypeOK, DataTypeOK
<1> QED
  BY <1>1, <1>2, <1>3 DEF Go!Offers, Go!Pending, Go!Cur, Cur

LEMMA InvokeImplements == ASSUME IInv, NEW p \in Procs, Invoke(p) PROVE Go!Next
<1>1. ~Go!Pending(p)
  BY DEF IInv, ThreadsOK, ThreadOK, Invoke, Go!Pending, Go!Cur, Cur
<1>2. Go!NewCall(p)
  BY DEF Invoke, NewCall, Go!NewCall, Outcome, Go!Outcome, NoIndex, Go!NoIndex
<1> QED
  BY <1>1, <1>2 DEF Go!Next, Go!Invoke

LEMMA PollImplements == ASSUME IInv, NEW p \in Procs, Poll(p) PROVE Go!Next
<1>1. PICK c \in Chans : PollHit(p, 0, c)
  BY DEF Poll
<1>2. /\ pc[p] = "start" /\ TypeOK /\ Queues /\ Cur(p) \in Op
      /\ lin \in [Op -> Outcomes(Op \cup {Unset})]
      /\ \A dir : Polls(p, 0, dir, c) => Go!Offers(p, 0, dir, c) /\ 0 \in DOMAIN call[p].cases
  BY PollOffers, CurIsOp DEF Poll, IInv, TypeOK, DataTypeOK, CallsTypeOK
<1>3. ASSUME NEW j \in DOMAIN recvQ[c], Unclaimed(recvQ[c][j].w)
      PROVE  \E q \in Procs : /\ q # p /\ recvQ[c][j].w = Cur(q) /\ Cur(q) # Cur(p) /\ recvQ[c][j].i = 0
                              /\ Go!Offers(q, 0, "recv", c) /\ 0 \in DOMAIN call[q].cases
  <2>1. PICK e : e = recvQ[c][j] /\ EntryOK(e, "recv", c) /\ Unclaimed(e.w)
    BY <1>2, <1>3 DEF Queues
  <2> QED
    BY <1>2, <2>1, EntryOffers DEF Cur
<1>4. ASSUME NEW j \in DOMAIN sendQ[c], Unclaimed(sendQ[c][j].w)
      PROVE  \E q \in Procs : /\ q # p /\ sendQ[c][j].w = Cur(q) /\ Cur(q) # Cur(p) /\ sendQ[c][j].i = 0
                              /\ Go!Offers(q, 0, "send", c) /\ 0 \in DOMAIN call[q].cases
                              /\ ~closed[c]
  <2>1. PICK e : e = sendQ[c][j] /\ EntryOK(e, "send", c) /\ Unclaimed(e.w)
    BY <1>2, <1>4 DEF Queues
  <2>2. ~closed[c]
    BY <1>4 DEF IInv, NoMissedMatch
  <2> QED
    BY <1>2, <2>1, <2>2, EntryOffers DEF Cur
<1>5. CASE SendHandoff(p, 0, c)
  <2>1. PICK j \in DOMAIN recvQ[c] :
          /\ Unclaimed(recvQ[c][j].w)
          /\ Commit(p, recvQ[c][j], Outcome("ok", recvQ[c][j].i, Cur(p)), Cur(p), Outcome("ok", 0, Unset))
    BY <1>5 DEF SendHandoff, FirstLive
  <2>2. PICK q \in Procs : /\ q # p /\ recvQ[c][j].w = Cur(q) /\ Cur(q) # Cur(p) /\ recvQ[c][j].i = 0
                           /\ Go!Offers(q, 0, "recv", c) /\ 0 \in DOMAIN call[q].cases
    BY <1>3, <2>1
  <2>3. buf[c] = <<>> /\ ~closed[c]
    BY <1>5, <2>1 DEF IInv, NoMissedMatch, SendHandoff
  <2>4. lin' = [lin EXCEPT ![Cur(p)] = Outcome("ok", 0, Unset), ![Cur(q)] = Outcome("ok", 0, Cur(p))]
    BY <2>1, <2>2 DEF Commit
  <2>5. Go!Rendezvous(p, 0, q, 0, c)
    BY <1>2, <1>5, <2>2, <2>3, <2>4 DEF SendHandoff, Go!Rendezvous, Go!Outcome, Outcome, Go!Cur, Cur
  <2> QED
    BY <1>2, <1>5, <2>2, <2>5 DEF SendHandoff, Go!Next
<1>6. CASE SendBuffer(p, 0, c)
  <2>1. Go!Enqueue(p, 0, c)
    BY <1>2, <1>6 DEF SendBuffer, TakeEffect, Go!Enqueue, Go!Outcome, Outcome, Go!Cur, Cur
  <2> QED
    BY <1>2, <1>6, <2>1 DEF SendBuffer, Go!Next
<1>7. CASE SendClosed(p, 0, c)
  <2>1. Go!Refuse(p, 0, c)
    BY <1>2, <1>7 DEF SendClosed, TakeEffect, Go!Refuse, Go!Outcome, Outcome, Go!Cur, Cur
  <2> QED
    BY <1>2, <1>7, <2>1 DEF SendClosed, Go!Next
<1>8. CASE RecvTake(p, 0, c)
  <2>1. Go!Dequeue(p, 0, c)
    BY <1>2, <1>8 DEF RecvTake, TakeEffect, Go!Dequeue, Go!Outcome, Outcome, Go!Cur, Cur
  <2> QED
    BY <1>2, <1>8, <2>1 DEF RecvTake, Go!Next
<1>9. CASE RecvTakePromote(p, 0, c)
  <2>1. PICK j \in DOMAIN sendQ[c] :
          /\ Unclaimed(sendQ[c][j].w)
          /\ Commit(p, sendQ[c][j], Outcome("ok", sendQ[c][j].i, Unset), SendOk,
                    Outcome("ok", 0, Head(buf[c])))
          /\ buf' = [buf EXCEPT ![c] = Append(Tail(buf[c]), sendQ[c][j].w)]
    BY <1>9 DEF RecvTakePromote, FirstLive
  <2>2. PICK q \in Procs : /\ q # p /\ sendQ[c][j].w = Cur(q) /\ Cur(q) # Cur(p) /\ sendQ[c][j].i = 0
                           /\ Go!Offers(q, 0, "send", c) /\ 0 \in DOMAIN call[q].cases
                           /\ ~closed[c]
    BY <1>4, <2>1
  <2>3. lin' = [lin EXCEPT ![Cur(q)] = Outcome("ok", 0, Unset), ![Cur(p)] = Outcome("ok", 0, Head(buf[c]))]
    BY <1>2, <2>1, <2>2 DEF Commit
  <2>4. buf' = [buf EXCEPT ![c] = Append(Tail(buf[c]), Cur(q))]
    BY <2>1, <2>2
  <2>5. Go!DequeueRefill(q, 0, p, 0, c)
    BY <1>2, <1>9, <2>2, <2>3, <2>4 DEF RecvTakePromote, Go!DequeueRefill, Go!Outcome, Outcome, Go!Cur, Cur
  <2> QED
    BY <1>2, <1>9, <2>2, <2>5 DEF RecvTakePromote, Go!Next
<1>10. CASE RecvFromSender(p, 0, c)
  <2>1. PICK j \in DOMAIN sendQ[c] :
          /\ Unclaimed(sendQ[c][j].w)
          /\ Commit(p, sendQ[c][j], Outcome("ok", sendQ[c][j].i, Unset), SendOk,
                    Outcome("ok", 0, sendQ[c][j].w))
    BY <1>10 DEF RecvFromSender, FirstLive
  <2>2. PICK q \in Procs : /\ q # p /\ sendQ[c][j].w = Cur(q) /\ Cur(q) # Cur(p) /\ sendQ[c][j].i = 0
                           /\ Go!Offers(q, 0, "send", c) /\ 0 \in DOMAIN call[q].cases
                           /\ ~closed[c]
    BY <1>4, <2>1
  <2>3. lin' = [lin EXCEPT ![Cur(q)] = Outcome("ok", 0, Unset), ![Cur(p)] = Outcome("ok", 0, Cur(q))]
    BY <1>2, <2>1, <2>2 DEF Commit
  <2>4. Go!Rendezvous(q, 0, p, 0, c)
    BY <1>2, <1>10, <2>2, <2>3 DEF RecvFromSender, Go!Rendezvous, Go!Outcome, Outcome, Go!Cur, Cur
  <2> QED
    BY <1>2, <1>10, <2>2, <2>4 DEF RecvFromSender, Go!Next
<1>11. CASE RecvClosed(p, 0, c)
  <2>1. Go!Refuse(p, 0, c)
    BY <1>2, <1>11 DEF RecvClosed, TakeEffect, Go!Refuse, Go!Outcome, Outcome, Go!Cur, Cur
  <2> QED
    BY <1>2, <1>11, <2>1 DEF RecvClosed, Go!Next
<1> QED
  BY <1>1, <1>5, <1>6, <1>7, <1>8, <1>9, <1>10, <1>11 DEF PollHit

LEMMA TryMissImplements == ASSUME IInv, NEW p \in Procs, TryMiss(p) PROVE Go!Next
<1>1. PICK c \in Chans, dir \in {"send", "recv"} : Polls(p, 0, dir, c) /\ Missed(dir, c)
  BY DEF TryMiss
<1>2. Go!Offers(p, 0, dir, c)
  BY <1>1, PollOffers DEF TryMiss
<1>3. \A i \in DOMAIN call[p].cases : call[p].cases[i] = [dir |-> dir, ch |-> c]
  BY <1>2 DEF TryMiss, Plain, Go!Offers
<1>4. Go!Decline(p)
  BY <1>1, <1>2, <1>3 DEF TryMiss, Missed, TakeEffect, Go!Offers, Go!Decline, Go!Unready,
     Go!Outcome, Outcome, Go!Cur, Cur, Go!NoIndex, NoIndex
<1> QED
  BY <1>4 DEF Go!Next

LEMMA ClaimTimeoutImplements == ASSUME IInv, NEW p \in Procs, ClaimTimeout(p) PROVE Go!Next
<1>1. /\ nops[p] > 0 /\ lin[Cur(p)].st = "pending" /\ call[p].wait = "timed"
  BY DEF IInv, ThreadsOK, ThreadOK, TypeOK, DataTypeOK, ClaimTimeout
<1>2. Go!GiveUp(p)
  BY <1>1 DEF ClaimTimeout, Go!GiveUp, Go!Pending, Go!Outcome, Outcome, Go!Cur, Cur,
     Go!TimeoutIndex, TimeoutIndex
<1> QED
  BY <1>2 DEF Go!Next

LEMMA CloseImplements ==
  ASSUME IInv, NEW p \in Procs, CloseAgain(p) \/ CloseMark(p)
  PROVE  Go!Next
<1>1. PICK c \in Chans : /\ Polls(p, 0, "close", c)
                        /\ closed' = [closed EXCEPT ![c] = TRUE]
                        /\ lin' = [lin EXCEPT ![Cur(p)] = Outcome("done", 0, Unset)]
                        /\ UNCHANGED <<buf, nops, call>>
  <2>1. closed \in [Chans -> BOOLEAN]
    BY DEF IInv, TypeOK, DataTypeOK, CallsTypeOK
  <2>2. CASE CloseAgain(p)
    BY <2>1, <2>2 DEF CloseAgain, TakeEffect
  <2>3. CASE CloseMark(p)
    BY <2>3 DEF CloseMark
  <2> QED
    BY <2>2, <2>3
<1>2. Go!Offers(p, 0, "close", c) /\ 0 \in DOMAIN call[p].cases
  BY <1>1, PollOffers DEF CloseAgain, CloseMark
<1>3. Go!Close(p, 0, c)
  BY <1>1, <1>2 DEF Go!Close, Go!Outcome, Outcome, Go!Cur, Cur
<1> QED
  BY <1>2, <1>3 DEF Go!Next

LEMMA CloseCommitImplements == ASSUME IInv, NEW p \in Procs, CloseCommit(p) PROVE Go!Next
<1>1. PICK e : /\ \E j \in DOMAIN wake[p] : e = wake[p][j]
               /\ Unclaimed(e.w)
               /\ lin' = [lin EXCEPT ![e.w] = Outcome("closed", e.i, Unset)]
  BY DEF CloseCommit, FirstLive
<1>2. PICK c \in Chans : /\ closed[c]
                         /\ EntryOK(e, "send", c) \/ (EntryOK(e, "recv", c) /\ buf[c] = <<>>)
  BY <1>1 DEF IInv, Snapshots, Refusable
<1>3. /\ e.w[1] \in Procs /\ e.w = Cur(e.w[1]) /\ e.i = 0 /\ 0 \in DOMAIN call[e.w[1]].cases
      /\ \/ Go!Offers(e.w[1], 0, "send", c)
         \/ Go!Offers(e.w[1], 0, "recv", c) /\ buf[c] = <<>>
  BY <1>1, <1>2, EntryOffers
<1>4. PICK q \in Procs : q = e.w[1]
  BY <1>3
<1>5. /\ lin' = [lin EXCEPT ![Cur(q)] = Outcome("closed", 0, Unset)]
      /\ UNCHANGED <<closed, buf, nops, call>>
  BY <1>1, <1>3, <1>4 DEF CloseCommit
<1>6. Go!Refuse(q, 0, c)
  BY <1>2, <1>3, <1>4, <1>5 DEF Go!Refuse, Go!Outcome, Outcome, Go!Cur, Cur
<1> QED
  BY <1>3, <1>4, <1>6 DEF Go!Next

(* Every step of the code is a step of GoChan, or changes nothing there.   *)
LEMMA NextImplements == ASSUME IInv, [Next]_vars PROVE [Go!Next]_(Go!goVars)
<1>1. CASE UNCHANGED vars
  BY <1>1 DEF vars, goVars, Go!goVars
<1>2. ASSUME NEW p \in Procs, Invoke(p) \/ Step(p) PROVE Go!Next \/ UNCHANGED goVars
  BY <1>2, InvokeImplements, PollImplements, TryMissImplements, ClaimTimeoutImplements,
     CloseImplements, CloseCommitImplements
  DEF Step, Park, Finish, Wake, Expire, LoseTimeout, Withdraw, CloseFinish, CloseDone
<1> QED
  BY <1>1, <1>2 DEF Next, goVars, Go!goVars

-----------------------------------------------------------------------------
(* A parked thread is never next to something that is ready: a receiver    *)
(* sleeps on an empty buffer without a sender, a sender on a full one, and *)
(* nobody in the queues of a closed channel.  The _poll_ functions keep it *)
(* by completing parked waiters before they use the buffer.                *)
THEOREM NobodyStranded == Spec => []NoMissedMatch
<1>1. Init => IInv
  BY InitInv
<1>2. IInv /\ [Next]_vars => IInv'
  BY NextInv
<1>3. IInv => NoMissedMatch
  BY DEF IInv
<1> QED
  BY <1>1, <1>2, <1>3, PTL DEF Spec

(* send, recv and close return or raise what happened to their operation,  *)
(* although the caller reads index and value of its waiter without a lock. *)
THEOREM CallersLearn == Spec => []ReturnsAgree
<1>1. Init => IInv
  BY InitInv
<1>2. IInv /\ [Next]_vars => IInv'
  BY NextInv
<1>3. IInv => ReturnsAgree
  BY DEF IInv, ThreadsOK, ThreadOK, ReturnsAgree
<1> QED
  BY <1>1, <1>2, <1>3, PTL DEF Spec

(* The channel of _chan.py implements GoChan: each send, recv and close    *)
(* takes effect at one instant between its call and its return, a          *)
(* rendezvous or a refill for both parties at once.                        *)
THEOREM Implements == Spec => Promise
<1>1. Init => IInv
  BY InitInv
<1>2. IInv /\ [Next]_vars => IInv'
  BY NextInv
<1>3. Init => Go!Init
  BY DEF Init, Go!Init, CallsInit, Go!CallsInit, Outcome, Go!Outcome,
     NoIndex, Go!NoIndex, NoCall, Go!NoCall, Op, Go!Op
<1>4. IInv /\ [Next]_vars => [Go!Next]_(Go!goVars)
  BY NextImplements
<1> QED
  BY <1>1, <1>2, <1>3, <1>4, PTL DEF Spec, Promise, Go!Spec

G == INSTANCE GoChanProofs

(* GoChanProofs speaks of the same channels under the name of G: what it   *)
(* proves of its steps, of the steps of Go.                                *)
LEMMA GoInvFacts ==
  /\ Go!Init => G!GoInv
  /\ G!GoInv /\ [Go!Next]_(Go!goVars) => G!GoInv'
  /\ G!GoInv => ExactlyOnce
<1>1. G!Op = Op /\ \A cl : G!IsCall(cl) = IsCall(cl)
  BY DEF G!Op, Op, G!IsCall, IsCall, G!IsFiniteSet, IsFiniteSet, G!Case, Case
<1>2. Go!Init => G!GoInv
  <2>1. Go!Init => G!Init
    BY DEF Go!Init, G!Init, Go!CallsInit, G!CallsInit, Go!Outcome, G!Outcome,
       Go!NoIndex, G!NoIndex, Go!NoCall, G!NoCall, Go!Op, G!Op
  <2> QED
    BY <2>1, <1>1, ChanAssumption, G!GoInitInv
<1>3. G!GoInv /\ [Go!Next]_(Go!goVars) => G!GoInv'
  <2>1. [Go!Next]_(Go!goVars) => [G!Next]_(G!goVars)
    BY Zenon DEF Go!Next, G!Next, Go!Invoke, G!Invoke, Go!GiveUp, G!GiveUp,
       Go!Decline, G!Decline, Go!Unready, G!Unready, Go!Enqueue, G!Enqueue,
       Go!Dequeue, G!Dequeue, Go!Refuse, G!Refuse, Go!Close, G!Close,
       Go!Rendezvous, G!Rendezvous, Go!DequeueRefill, G!DequeueRefill,
       Go!Pending, G!Pending, Go!Offers, G!Offers, Go!NewCall, G!NewCall,
       Go!Cur, G!Cur, Go!Outcome, G!Outcome, Go!NoIndex, G!NoIndex,
       Go!TimeoutIndex, G!TimeoutIndex, Go!goVars, G!goVars
  <2> QED
    BY <2>1, <1>1, ChanAssumption, G!GoNextInv
<1>4. G!GoInv => ExactlyOnce
  BY DEF G!GoInv, G!ExactlyOnce, ExactlyOnce, G!OnePlace, OnePlace, G!Op, Op, G!Accepted, Accepted,
     G!InBuf, InBuf, G!Received, Received
<1> QED
  BY <1>2, <1>3, <1>4

(* Whoever keeps the promise delivers exactly once.                        *)
LEMMA PromiseDelivers == Promise => []ExactlyOnce
BY GoInvFacts, PTL DEF Promise, Go!Spec

(* README: "No value is ever delivered twice or lost", here of the code's  *)
(* own queues and waiters: what GoChan promises and Chan implements.       *)
THEOREM DeliversExactlyOnce == Spec => []ExactlyOnce
BY Implements, PromiseDelivers

-----------------------------------------------------------------------------
(* The locks of select.  Its threads climb: whoever is taking locks wants  *)
(* only channels above those it holds, so the holder of the highest lock   *)
(* held finds the next one free.                                           *)

(* What sorting relies on: a set of channels has a least, one that is      *)
(* bounded a greatest element.                                             *)
LEMMA HasLeast ==
  ASSUME NEW S \in SUBSET Nat, S # {}
  PROVE  \E c \in S : \A d \in S : c <= d
<1> DEFINE R == {ss \in Nat \X Nat : ss[1] < ss[2]}
<1>1. IsWellFoundedOn(R, Nat)
  BY NatLessThanWellFounded DEF OpToRel
<1> HIDE DEF R
<1>2. PICK c \in S : \A d \in S : ~(<<d, c>> \in R)
  BY <1>1, WFMin
<1>3. \A d \in S : ~(d < c)
  BY <1>2 DEF R
<1>4. \A d \in S : d \in Nat
  OBVIOUS
<1>5. \A d \in S : c <= d
  BY <1>3, <1>4
<1> QED
  BY <1>5

LEMMA LeastIsLeast ==
  ASSUME NEW S \in SUBSET Nat, S # {}
  PROVE  Least(S) \in S /\ \A d \in S : Least(S) <= d
BY HasLeast DEF Least

LEMMA HasGreatest ==
  ASSUME NEW S \in SUBSET Nat, S # {}, NEW n \in Nat, \A c \in S : c <= n
  PROVE  \E c \in S : \A d \in S : d <= c
<1> DEFINE U == {u \in Nat : \A c \in S : c <= u}
<1>1. PICK u \in U : \A v \in U : u <= v
  BY HasLeast
<1>2. u \in Nat /\ \A c \in S : c <= u /\ c \in Nat
  BY <1>1
<1>3. u \in S
  <2> SUFFICES ASSUME u \notin S PROVE FALSE
    OBVIOUS
  <2>1. \A c \in S : c < u /\ c <= u - 1
    BY <1>2
  <2>2. u - 1 \in Nat
    <3>1. PICK c \in S : c \in Nat /\ c < u
      BY <1>2, <2>1
    <3> QED
      BY <1>2, <3>1
  <2>3. u - 1 \in U
    BY <2>1, <2>2
  <2> QED
    BY <1>1, <1>2, <2>3
<1> QED
  BY <1>2, <1>3

-----------------------------------------------------------------------------
(* What the argument needs of the types; a thread inside a call has cases. *)
SelPCs == PCs \cup {"locking", "recheck", "cleanup"}

Fields ==
  /\ pc \in [Procs -> SelPCs]
  /\ lock \in [Chans -> Procs \cup {NoProc}]
  /\ left \in [Procs -> SUBSET Chans]
  /\ call \in [Procs -> {NoCall} \cup UNION {Calls[p] : p \in Procs}]
  /\ \A p \in Procs : pc[p] # "idle" => IsCall(call[p])

(* A thread that is taking locks wants one, and none below those it has.   *)
Climbs ==
  \A p \in Procs : pc[p] = "locking" =>
    /\ left[p] # {}
    /\ \A c \in Chans : lock[c] = p => \A d \in left[p] : c < d

(* Nobody else keeps a lock from one step to the next, but for a thread in *)
(* its second pass, or one that owes a finish(); those wait for no lock.   *)
LetsGo == \A p \in Procs : Holds(p) => pc[p] \in {"locking", "recheck", "finish"}

(* Finitely many locks were taken.                                         *)
Bounded == \E n \in Nat : \A c \in Chans : lock[c] # NoProc => c <= n

LocksInv == Fields /\ Climbs /\ LetsGo /\ Bounded

(* The holder of the highest lock is not waiting.                          *)
LEMMA SomebodyGoes == ASSUME LocksInv PROVE HolderCanGoOn
<1> SUFFICES ASSUME NEW q \in Procs, Holds(q)
             PROVE  \E p \in Procs : Holds(p) /\ (pc[p] = "locking" => lock[Least(left[p])] = NoProc)
  BY DEF HolderCanGoOn
<1> DEFINE Held == {c \in Chans : lock[c] # NoProc}
<1>1. Held # {} /\ Held \in SUBSET Nat
  BY ChanAssumption, MarkerAssumption DEF Holds
<1>2. PICK m \in Held : \A d \in Held : d <= m
  BY <1>1, HasGreatest DEF LocksInv, Bounded
<1>3. PICK p \in Procs : lock[m] = p
  BY <1>2 DEF LocksInv, Fields
<1>4. pc[p] = "locking" => lock[Least(left[p])] = NoProc
  <2> SUFFICES ASSUME pc[p] = "locking" PROVE lock[Least(left[p])] = NoProc
    OBVIOUS
  <2>1. left[p] \in SUBSET Nat /\ left[p] \subseteq Chans /\ left[p] # {}
    BY ChanAssumption DEF LocksInv, Fields, Climbs
  <2>2. Least(left[p]) \in left[p]
    BY <2>1, LeastIsLeast
  <2>3. m < Least(left[p])
    BY <1>2, <1>3, <2>2 DEF LocksInv, Climbs
  <2>4. Least(left[p]) \notin Held
    BY <1>2, <2>1, <2>2, <2>3, ChanAssumption
  <2> QED
    BY <2>1, <2>2, <2>4
<1> QED
  BY <1>2, <1>3, <1>4 DEF Holds

-----------------------------------------------------------------------------
(* What a step of p has to show.                                           *)
Others(p) ==
  \A q \in Procs \ {p} : pc'[q] = pc[q] /\ left'[q] = left[q] /\ call'[q] = call[q]

LEMMA MoveLocks ==
  ASSUME LocksInv, NEW p \in Procs, Others(p), Fields',
         \A q \in Procs \ {p} : \A c \in Chans : lock'[c] = q <=> lock[c] = q,
         Bounded',
         pc'[p] = "locking" =>
           left'[p] # {} /\ \A c \in Chans : lock'[c] = p => \A d \in left'[p] : c < d,
         Holds(p)' => pc'[p] \in {"locking", "recheck", "finish"}
  PROVE  LocksInv'
<1>1. Climbs'
  BY DEF Climbs, LocksInv, Others
<1>2. LetsGo'
  BY DEF LetsGo, Holds, LocksInv, Others
<1> QED
  BY <1>1, <1>2 DEF LocksInv

(* p lets its locks go, or keeps none.                                     *)
LEMMA LetGo ==
  ASSUME LocksInv, NEW p \in Procs, NEW to \in SelPCs,
         pc[p] # "idle", to # "locking",
         pc' = [pc EXCEPT ![p] = to], call' = call,
         left' \in [Procs -> SUBSET Chans], \A q \in Procs \ {p} : left'[q] = left[q],
         lock' = Unlocked(p) \/ (lock' = lock /\ ~Holds(p))
  PROVE  LocksInv'
<1>1. /\ lock' \in [Chans -> Procs \cup {NoProc}]
      /\ \A c \in Chans : lock'[c] # p /\ (lock'[c] # NoProc => lock'[c] = lock[c])
      /\ \A q \in Procs \ {p} : \A c \in Chans : lock'[c] = q <=> lock[c] = q
  BY MarkerAssumption DEF Unlocked, Holds, LocksInv, Fields
<1>2. Bounded'
  BY <1>1 DEF LocksInv, Bounded
<1>3. Fields'
  BY <1>1 DEF LocksInv, Fields
<1>4. Others(p) /\ ~Holds(p)' /\ pc'[p] = to
  BY <1>1 DEF Others, Holds, LocksInv, Fields
<1> QED
  BY <1>1, <1>2, <1>3, <1>4, MoveLocks

(* p takes the lock of c, or had it.                                       *)
LEMMA TakesLock ==
  ASSUME LocksInv, NEW p \in Procs, NEW c \in Chans, NEW to \in {"finish", "recheck", "locking"},
         pc[p] # "idle", CanLock(p, c),
         pc' = [pc EXCEPT ![p] = to], call' = call, lock' = [lock EXCEPT ![c] = p],
         left' \in [Procs -> SUBSET Chans], \A q \in Procs \ {p} : left'[q] = left[q],
         to = "locking" => left'[p] # {} /\ \A d \in Chans : lock'[d] = p => \A e \in left'[p] : d < e
  PROVE  LocksInv'
<1>1. /\ lock' \in [Chans -> Procs \cup {NoProc}]
      /\ \A d \in Chans : lock'[d] # NoProc => d = c \/ lock[d] # NoProc
      /\ \A q \in Procs \ {p} : \A d \in Chans : lock'[d] = q <=> lock[d] = q
  BY MarkerAssumption DEF CanLock, LocksInv, Fields
<1>2. Bounded'
  <2>1. PICK n \in Nat : \A d \in Chans : lock[d] # NoProc => d <= n
    BY DEF LocksInv, Bounded
  <2>2. PICK m \in Nat : n <= m /\ c <= m
    <3>1. c \in Nat
      BY ChanAssumption
    <3>2. CASE n <= c
      BY <3>1, <3>2
    <3>3. CASE c <= n
      BY <3>1, <3>3
    <3> QED
      BY <3>1, <3>2, <3>3
  <2>3. \A d \in Chans : lock'[d] # NoProc => d <= m
    BY <1>1, <2>1, <2>2, ChanAssumption
  <2> QED
    BY <2>3 DEF Bounded
<1>3. Fields'
  BY <1>1 DEF LocksInv, Fields, SelPCs, PCs
<1>4. Others(p) /\ pc'[p] = to
  BY DEF Others, LocksInv, Fields
<1> QED
  BY <1>1, <1>2, <1>3, <1>4, MoveLocks

-----------------------------------------------------------------------------
(* The steps.                                                              *)
LEMMA InitLocks == ASSUME SelectInit PROVE LocksInv
<1>1. Fields
  BY DEF SelectInit, Init, CallsInit, Fields, SelPCs, PCs
<1>2. Climbs /\ LetsGo /\ Bounded
  BY MarkerAssumption DEF SelectInit, Init, Climbs, LetsGo, Holds, Bounded
<1> QED
  BY <1>1, <1>2 DEF LocksInv

LEMMA CallLocks == ASSUME LocksInv, NEW p \in Procs, Call(p) PROVE LocksInv'
<1>1. PICK cl \in Calls[p] : call' = [call EXCEPT ![p] = cl]
  BY DEF Call, Invoke, NewCall
<1>2. /\ pc[p] = "idle" /\ pc' = [pc EXCEPT ![p] = "start"]
      /\ lock' = lock /\ left' = left
  BY DEF Call, Invoke
<1>3. IsCall(cl)
  BY ChanAssumption
<1>4. Fields'
  BY <1>1, <1>2, <1>3 DEF LocksInv, Fields, SelPCs, PCs
<1>5. ~Holds(p)
  BY <1>2 DEF LocksInv, LetsGo
<1>6. Others(p) /\ ~Holds(p)' /\ Bounded' /\ pc'[p] = "start"
  BY <1>1, <1>2, <1>5 DEF Others, LocksInv, Fields, Holds, Bounded
<1> QED
  BY <1>2, <1>4, <1>6, MoveLocks

LEMMA PollLocks ==
  ASSUME LocksInv, NEW p \in Procs, NEW i, NEW c \in Chans,
         pc[p] \in {"start", "recheck"}, PollHit(p, i, c), left' = left
  PROVE  LocksInv'
<1>1. call' = call
  BY DEF PollHit, SendHandoff, SendBuffer, SendClosed, RecvTake, RecvTakePromote, RecvFromSender,
         RecvClosed
<1>2. \/ pc' = [pc EXCEPT ![p] = "idle"] /\ lock' = Unlocked(p)
      \/ pc' = [pc EXCEPT ![p] = "finish"] /\ CanLock(p, c) /\ lock' = [lock EXCEPT ![c] = p]
  BY DEF PollHit, SendHandoff, SendBuffer, SendClosed, RecvTake, RecvTakePromote, RecvFromSender,
         RecvClosed, TakeEffect, Return, Commit, Polls
<1>3. left' \in [Procs -> SUBSET Chans]
  BY DEF LocksInv, Fields
<1>4. CASE pc' = [pc EXCEPT ![p] = "idle"] /\ lock' = Unlocked(p)
  BY <1>1, <1>3, <1>4, LetGo DEF SelPCs, PCs
<1>5. CASE pc' = [pc EXCEPT ![p] = "finish"] /\ CanLock(p, c) /\ lock' = [lock EXCEPT ![c] = p]
  BY <1>1, <1>3, <1>5, TakesLock
<1> QED
  BY <1>2, <1>4, <1>5

LEMMA StepLocks ==
  ASSUME LocksInv, NEW p \in Procs, Step(p), left' = left
  PROVE  LocksInv'
<1>0. left' \in [Procs -> SUBSET Chans]
  BY DEF LocksInv, Fields
<1>1. CASE Poll(p)
  BY <1>1, PollLocks DEF Poll
<1>2. CASE TryMiss(p) \/ Finish(p) \/ Wake(p) \/ Withdraw(p) \/ CloseAgain(p) \/ CloseDone(p)
  <2>1. pc' = [pc EXCEPT ![p] = "idle"] /\ lock' = Unlocked(p) /\ call' = call /\ pc[p] # "idle"
    BY <1>2 DEF TryMiss, Finish, Wake, Withdraw, CloseAgain, CloseDone, TakeEffect, Return, goVars
  <2> QED
    BY <1>0, <2>1, LetGo DEF SelPCs, PCs
<1>3. CASE Park(p)
  BY <1>0, <1>3, LetGo DEF Park, goVars, SelPCs, PCs
<1>4. CASE \/ Expire(p) \/ ClaimTimeout(p) \/ LoseTimeout(p) \/ CloseMark(p) \/ CloseCommit(p)
           \/ CloseFinish(p)
  <2>1. PICK to \in {"expired", "withdraw", "claimed", "closing", "closefinish"} :
          pc' = [pc EXCEPT ![p] = to]
    BY <1>4 DEF Expire, ClaimTimeout, LoseTimeout, CloseMark, CloseCommit, CloseFinish
  <2>2. /\ lock' = lock /\ call' = call
        /\ pc[p] \in {"parked", "expired", "start", "closing", "closefinish"}
    BY <1>4 DEF Expire, ClaimTimeout, LoseTimeout, CloseMark, CloseCommit, CloseFinish, goVars
  <2>3. ~Holds(p)
    BY <2>2 DEF LocksInv, LetsGo
  <2> QED
    BY <1>0, <2>1, <2>2, <2>3, LetGo DEF SelPCs, PCs
<1> QED
  BY <1>1, <1>2, <1>3, <1>4 DEF Step

LEMMA AcquireLocks == ASSUME LocksInv, NEW p \in Procs, Acquire(p) PROVE LocksInv'
<1> DEFINE c == Least(left[p])
<1>1. /\ pc[p] = "locking" /\ lock[c] = NoProc /\ lock' = [lock EXCEPT ![c] = p]
      /\ left' = [left EXCEPT ![p] = left[p] \ {c}]
      /\ pc' = IF left'[p] = {} THEN [pc EXCEPT ![p] = "recheck"] ELSE pc
      /\ call' = call
  BY DEF Acquire, Selecting, goVars
<1>2. left[p] # {} /\ left[p] \subseteq Chans /\ left[p] \in SUBSET Nat
  BY <1>1, ChanAssumption DEF LocksInv, Climbs, Fields
<1>3. c \in Chans /\ c \in Nat /\ c \in left[p] /\ \A d \in left[p] : c <= d
  BY <1>2, LeastIsLeast
<1> HIDE DEF c
<1>4. left' \in [Procs -> SUBSET Chans] /\ left'[p] = left[p] \ {c}
      /\ \A q \in Procs \ {p} : left'[q] = left[q]
  BY <1>1 DEF LocksInv, Fields
<1>5. \A d \in Chans : lock'[d] = p => \A e \in left'[p] : d < e
  <2> TAKE d \in Chans
  <2> SUFFICES ASSUME lock'[d] = p, NEW e \in left'[p] PROVE d < e
    OBVIOUS
  <2>1. e \in left[p] /\ e # c /\ e \in Nat /\ c < e
    BY <1>2, <1>3, <1>4
  <2>2. d = c \/ lock[d] = p
    BY <1>1 DEF LocksInv, Fields
  <2> QED
    BY <1>1, <2>1, <2>2 DEF LocksInv, Climbs
<1>6. PICK to \in {"recheck", "locking"} :
        pc' = [pc EXCEPT ![p] = to] /\ (to = "locking" => left'[p] # {})
  <2>1. pc = [pc EXCEPT ![p] = "locking"]
    BY <1>1 DEF LocksInv, Fields
  <2> QED
    BY <1>1, <2>1
<1> QED
  BY <1>1, <1>3, <1>4, <1>5, <1>6, TakesLock DEF CanLock

LEMMA SelectStepLocks == ASSUME LocksInv, NEW p \in Procs, SelectStep(p) PROVE LocksInv'
<1>0. left \in [Procs -> SUBSET Chans]
  BY DEF LocksInv, Fields
<1>1. CASE Step(p) /\ UNCHANGED selVars
  BY <1>1, StepLocks DEF selVars
<1>2. CASE PassHit(p)
  BY <1>2, PollLocks DEF PassHit, Selecting, selVars
<1>3. CASE PassMiss(p)
  BY <1>3 DEF PassMiss, goVars, LocksInv, Fields, Climbs, LetsGo, Holds, Bounded
<1>4. CASE TakeDefault(p)
  <2>1. /\ pc' = [pc EXCEPT ![p] = "idle"] /\ lock' = Unlocked(p) /\ call' = call
        /\ pc[p] = "start" /\ left' = left
    BY <1>4 DEF TakeDefault, TakeEffect, Return, Selecting, selVars
  <2> QED
    BY <1>0, <2>1, LetGo DEF SelPCs, PCs
<1>5. CASE StartLocking(p)
  <2>1. /\ pc' = [pc EXCEPT ![p] = "locking"] /\ lock' = lock /\ call' = call /\ pc[p] = "start"
        /\ left' = [left EXCEPT ![p] = SelChans(p)]
    BY <1>5 DEF StartLocking, Selecting, goVars
  <2>2. SelChans(p) # {} /\ SelChans(p) \subseteq Chans
    <3>1. IsCall(call[p])
      BY <2>1 DEF LocksInv, Fields
    <3>2. PICK i : i \in DOMAIN call[p].cases
      BY <3>1 DEF IsCall
    <3>3. \A j \in DOMAIN call[p].cases : Ch(p, j) \in Chans
      BY <3>1 DEF IsCall, Case, Ch
    <3> QED
      BY <3>2, <3>3 DEF SelChans
  <2>3. ~Holds(p)
    BY <2>1 DEF LocksInv, LetsGo
  <2>4. Fields' /\ pc'[p] = "locking" /\ left'[p] = SelChans(p) /\ Others(p)
    BY <2>1, <2>2 DEF LocksInv, Fields, Others, SelPCs
  <2>5. Bounded' /\ \A d \in Chans : lock'[d] # p
    BY <2>1, <2>3 DEF LocksInv, Bounded, Holds
  <2> QED
    BY <2>1, <2>2, <2>4, <2>5, MoveLocks
<1>6. CASE Acquire(p)
  BY <1>6, AcquireLocks
<1>7. CASE Register(p)
  <2>1. /\ pc' = [pc EXCEPT ![p] = "parked"] /\ lock' = Unlocked(p) /\ call' = call
        /\ pc[p] = "recheck" /\ left' = [left EXCEPT ![p] = SelChans(p)]
    BY <1>7 DEF Register, Selecting, goVars
  <2>2. SelChans(p) \subseteq Chans
    BY <2>1 DEF LocksInv, Fields, SelChans, Ch, IsCall, Case
  <2>3. left' \in [Procs -> SUBSET Chans] /\ \A q \in Procs \ {p} : left'[q] = left[q]
    BY <1>0, <2>1, <2>2
  <2> QED
    BY <2>1, <2>3, LetGo DEF SelPCs, PCs
<1>8. CASE SelectWake(p)
  <2>1. /\ pc' = [pc EXCEPT ![p] = "cleanup"] /\ lock' = lock /\ call' = call
        /\ pc[p] \in {"parked", "claimed"} /\ left' = left
    BY <1>8 DEF SelectWake, Selecting, goVars, selVars
  <2>2. ~Holds(p)
    BY <2>1 DEF LocksInv, LetsGo
  <2> QED
    BY <1>0, <2>1, <2>2, LetGo DEF SelPCs
<1>9. CASE Unregister(p)
  <2>1. /\ left' = [left EXCEPT ![p] = left[p] \ {Least(left[p])}] /\ call' = call
        /\ pc[p] \in {"cleanup", "withdraw"}
        /\ \/ pc' = [pc EXCEPT ![p] = "idle"] /\ lock' = Unlocked(p)
           \/ pc' = pc /\ lock' = lock
    BY <1>9 DEF Unregister, Selecting, Return, goVars
  <2>2. left' \in [Procs -> SUBSET Chans] /\ \A q \in Procs \ {p} : left'[q] = left[q]
    BY <1>0, <2>1
  <2>3. ~Holds(p)
    BY <2>1 DEF LocksInv, LetsGo
  <2>4. pc = [pc EXCEPT ![p] = pc[p]] /\ pc[p] \in SelPCs
    BY DEF LocksInv, Fields
  <2> QED
    BY <2>1, <2>2, <2>3, <2>4, LetGo DEF SelPCs, PCs
<1> QED
  BY <1>1, <1>2, <1>3, <1>4, <1>5, <1>6, <1>7, <1>8, <1>9 DEF SelectStep

(* The threads of any number of selects, with any cases and among them any *)
(* plain operations, cannot wait for each other's channel locks in a       *)
(* circle: every select takes them in the order of their ids.              *)
THEOREM NoCycleOfLocks == SelectSpec => []HolderCanGoOn
<1>1. SelectInit => LocksInv
  BY InitLocks
<1>2. LocksInv /\ [SelectNext]_allVars => LocksInv'
  <2> SUFFICES ASSUME LocksInv, [SelectNext]_allVars PROVE LocksInv'
    OBVIOUS
  <2>1. CASE UNCHANGED allVars
    BY <2>1 DEF allVars, vars, goVars, selVars, LocksInv, Fields, Climbs, LetsGo, Holds, Bounded
  <2>2. CASE SelectNext
    BY <2>2, CallLocks, SelectStepLocks DEF SelectNext
  <2> QED
    BY <2>1, <2>2
<1>3. LocksInv => HolderCanGoOn
  BY SomebodyGoes
<1> QED
  BY <1>1, <1>2, <1>3, PTL DEF SelectSpec

-----------------------------------------------------------------------------
(* select() and the asyncio bridge keep the promise of GoChan, strand      *)
(* nobody next to something that is ready, and leave no live entry of a    *)
(* call that is over.  A call may offer several cases on several channels: *)
(* the invariant SInv says of an unclaimed entry which case of which       *)
(* parked call it stands for, and nothing of a claimed one.                *)

-----------------------------------------------------------------------------
(* Numbering a finite set of numbers.                                      *)

Smaller(S, x) == {i \in S : i < x}

LEMMA SmallerFacts ==
  ASSUME NEW S \in SUBSET Nat, IsFiniteSet(S), NEW x \in Nat
  PROVE  /\ IsFiniteSet(Smaller(S, x)) /\ Cardinality(Smaller(S, x)) \in Nat
         /\ Cardinality(Smaller(S, x)) <= Cardinality(S)
         /\ Cardinality(Smaller(S, x)) = Cardinality(S) => Smaller(S, x) = S
         /\ x \in S => Cardinality(Smaller(S, x + 1)) = Cardinality(Smaller(S, x)) + 1
         /\ x \notin S => Smaller(S, x + 1) = Smaller(S, x)
<1>0. \A i \in S : i \in Nat /\ (i < x + 1 <=> i < x \/ i = x)
  OBVIOUS
<1>1. Smaller(S, x) \in SUBSET S
  BY DEF Smaller
<1>2. IsFiniteSet(Smaller(S, x)) /\ Cardinality(Smaller(S, x)) \in Nat
  BY <1>1, FS_Subset, FS_CardinalityType
<1>3. ASSUME x \in S PROVE Cardinality(Smaller(S, x + 1)) = Cardinality(Smaller(S, x)) + 1
  <2>1. \A i \in S : i < x + 1 <=> i < x \/ i = x
    BY <1>0
  <2>2. Smaller(S, x + 1) = Smaller(S, x) \cup {x}
    BY <1>3, <2>1 DEF Smaller
  <2>3. x \notin Smaller(S, x)
    BY DEF Smaller
  <2> QED
    BY <1>2, <2>2, <2>3, FS_AddElement
<1>4. ASSUME x \notin S PROVE Smaller(S, x + 1) = Smaller(S, x)
  BY <1>0, <1>4 DEF Smaller
<1> QED
  BY <1>1, <1>2, <1>3, <1>4, FS_Subset

(* As many of them as there are lie below some number.                     *)
LEMMA SomeAbove ==
  ASSUME NEW S \in SUBSET Nat, IsFiniteSet(S)
  PROVE  \E x \in Nat : Cardinality(Smaller(S, x)) = Cardinality(S)
<1> DEFINE Ranks == {Cardinality(Smaller(S, x)) : x \in Nat}
<1>1. Cardinality(S) \in Nat
  BY FS_CardinalityType
<1>2. Ranks \in SUBSET Nat /\ \A n \in Ranks : n <= Cardinality(S)
  BY SmallerFacts
<1>3. Cardinality(Smaller(S, 0)) \in Ranks
  OBVIOUS
<1>4. PICK n \in Ranks : \A m \in Ranks : m <= n
  BY <1>1, <1>2, <1>3, HasGreatest
<1>5. PICK x \in Nat : n = Cardinality(Smaller(S, x))
  BY <1>4
<1>6. ASSUME n # Cardinality(S) PROVE FALSE
  <2>1. PICK s \in S : s \notin Smaller(S, x)
    BY <1>5, <1>6 DEF Smaller
  <2>2. s \in Nat /\ x <= s /\ Smaller(S, x) \in SUBSET Smaller(S, s)
    <3>1. s \in Nat /\ x <= s /\ \A i \in S : i \in Nat
      BY <2>1 DEF Smaller
    <3>2. \A i \in S : i < x => i < s
      BY <3>1
    <3> QED
      BY <3>1, <3>2 DEF Smaller
  <2>3. n <= Cardinality(Smaller(S, s))
    BY <1>5, <2>2, SmallerFacts, FS_Subset
  <2>4. Cardinality(Smaller(S, s + 1)) = Cardinality(Smaller(S, s)) + 1
    BY <2>2, SmallerFacts
  <2>5. Cardinality(Smaller(S, s + 1)) \in Ranks /\ Cardinality(Smaller(S, s)) \in Nat
    BY <2>2, SmallerFacts
  <2>6. Cardinality(Smaller(S, s + 1)) <= n
    BY <1>4, <2>5
  <2> QED
    BY <1>2, <1>4, <2>3, <2>4, <2>5, <2>6
<1> QED
  BY <1>5, <1>6

LEMMA NthIsIn ==
  ASSUME NEW S \in SUBSET Nat, IsFiniteSet(S), NEW k \in 1..Cardinality(S)
  PROVE  Nth(S, k) \in S
<1> DEFINE X == {x \in Nat : Cardinality(Smaller(S, x)) >= k}
<1>1. Cardinality(S) \in Nat /\ k \in Nat /\ k >= 1 /\ k <= Cardinality(S)
  BY FS_CardinalityType
<1>2. X # {}
  <2>1. PICK x \in Nat : Cardinality(Smaller(S, x)) = Cardinality(S)
    BY SomeAbove
  <2>2. x \in X
    BY <1>1, <2>1
  <2> QED
    BY <2>2
<1>3. PICK x \in X : \A y \in X : x <= y
  BY <1>2, HasLeast
<1>4. x \in Nat /\ Cardinality(Smaller(S, x)) >= k
  BY <1>3
<1>5. x # 0
  <2>1. Smaller(S, 0) = {}
    <3>1. \A i \in S : i \in Nat /\ ~(i < 0)
      OBVIOUS
    <3> QED
      BY <3>1 DEF Smaller
  <2> QED
    BY <1>1, <1>4, <2>1, FS_EmptySet
<1>6. PICK y \in Nat : x = y + 1
  <2>1. x - 1 \in Nat /\ x = (x - 1) + 1
    BY <1>4, <1>5
  <2> QED
    BY <2>1
<1>7. ~(Cardinality(Smaller(S, y)) >= k)
  BY <1>3, <1>6
<1>8. y \in S /\ Cardinality(Smaller(S, y)) = k - 1
  <2>1. /\ Cardinality(Smaller(S, y)) \in Nat
        /\ y \in S => Cardinality(Smaller(S, x)) = Cardinality(Smaller(S, y)) + 1
        /\ y \notin S => Smaller(S, x) = Smaller(S, y)
    BY <1>6, SmallerFacts
  <2> QED
    BY <1>1, <1>4, <1>7, <2>1
<1> QED
  BY <1>8 DEF Nth, Smaller

(* What is left of a queue is from it, and has no entry of w.              *)
LEMMA DroppedProperties ==
  ASSUME NEW q \in Seq(Entry), NEW w
  PROVE  /\ Dropped(q, w) \in Seq(Entry)
         /\ \A k \in DOMAIN Dropped(q, w) : \E m \in DOMAIN q : Dropped(q, w)[k] = q[m]
<1> DEFINE kept == {j \in DOMAIN q : q[j].w # w}
           r == [k \in 1..Cardinality(kept) |-> q[Nth(kept, k)]]
<1>1. DOMAIN q = 1..Len(q) /\ Len(q) \in Nat
  OBVIOUS
<1>2. kept \in SUBSET Nat /\ kept \in SUBSET (1..Len(q)) /\ IsFiniteSet(kept)
  <2>1. kept \in SUBSET (1..Len(q)) /\ kept \in SUBSET Nat
    BY <1>1
  <2>2. IsFiniteSet(1..Len(q))
    BY <1>1, FS_Interval
  <2> QED
    BY <2>1, <2>2, FS_Subset
<1>3. Cardinality(kept) \in Nat
  BY <1>2, FS_CardinalityType
<1>4. ASSUME NEW k \in 1..Cardinality(kept) PROVE Nth(kept, k) \in DOMAIN q
  BY <1>2, NthIsIn
<1>5. Dropped(q, w) = r
  BY DEF Dropped
<1> HIDE DEF kept
<1>6. \A k \in 1..Cardinality(kept) : r[k] = q[Nth(kept, k)] /\ r[k] \in Entry
  BY <1>4, ElementOfSeq
<1>7. DOMAIN r = 1..Cardinality(kept)
  OBVIOUS
<1>8. r \in Seq(Entry)
  BY <1>3, <1>6, IsASeq
<1> QED
  BY <1>4, <1>5, <1>6, <1>7, <1>8

(* A shuffle lists every case.                                             *)
LEMMA OrderFacts ==
  ASSUME NEW cl, IsCall(cl), NEW o \in Orders(cl.cases)
  PROVE  /\ DOMAIN o \subseteq Nat \ {0} /\ \A k \in DOMAIN o : o[k] \in DOMAIN cl.cases
         /\ \A i \in DOMAIN cl.cases : \E k \in DOMAIN o : o[k] = i
<1>1. Cardinality(DOMAIN cl.cases) \in Nat
  BY FS_CardinalityType DEF IsCall
<1>2. /\ o \in [1..Cardinality(DOMAIN cl.cases) -> DOMAIN cl.cases]
      /\ \A i \in DOMAIN cl.cases : \E k \in DOMAIN o : o[k] = i
  BY DEF Orders
<1> QED
  BY <1>1, <1>2

(* The entries a call registers, one for each of its cases on a channel.   *)
LEMMA EntriesProperties ==
  ASSUME NEW p \in Procs, Cur(p) \in Op, IsCall(call[p]), NEW dir, NEW c
  PROVE  /\ Entries(p, dir, c) \in Seq(Entry)
         /\ \A k \in DOMAIN Entries(p, dir, c) :
              \E i \in DOMAIN call[p].cases :
                Entries(p, dir, c)[k] = NewEntry(p, i) /\ Dir(p, i) = dir /\ Ch(p, i) = c
<1> DEFINE mine == {i \in DOMAIN call[p].cases : Dir(p, i) = dir /\ Ch(p, i) = c}
           r == [k \in 1..Cardinality(mine) |-> NewEntry(p, Nth(mine, k))]
<1>1. mine \in SUBSET DOMAIN call[p].cases /\ mine \in SUBSET Nat /\ IsFiniteSet(mine)
  BY FS_Subset DEF IsCall
<1>2. Cardinality(mine) \in Nat
  BY <1>1, FS_CardinalityType
<1>3. ASSUME NEW k \in 1..Cardinality(mine) PROVE Nth(mine, k) \in mine
  BY <1>1, NthIsIn
<1>4. Entries(p, dir, c) = r
  BY DEF Entries
<1>5. \A i \in mine : /\ i \in DOMAIN call[p].cases /\ Dir(p, i) = dir /\ Ch(p, i) = c
                      /\ NewEntry(p, i) \in Entry
  BY <1>1 DEF NewEntry, Entry
<1> HIDE DEF mine
<1>6. \A k \in 1..Cardinality(mine) : r[k] = NewEntry(p, Nth(mine, k)) /\ r[k] \in Entry
  BY <1>3, <1>5
<1>7. DOMAIN r = 1..Cardinality(mine)
  OBVIOUS
<1>8. r \in Seq(Entry)
  BY <1>2, <1>6, IsASeq
<1> QED
  BY <1>3, <1>4, <1>5, <1>6, <1>7, <1>8

-----------------------------------------------------------------------------
(* The invariant of threads that select.                                   *)

Early == {"start", "locking", "recheck"}
Open == {"parked", "expired"}
Gone == {"claimed", "withdraw", "cleanup", "cancelling"}

(* What the argument needs of the types.                                   *)
Shape ==
  /\ closed \in [Chans -> BOOLEAN]
  /\ buf \in [Chans -> Seq(Op)]
  /\ nops \in [Procs -> 0..MaxOps]
  /\ recvQ \in [Chans -> Seq(Entry)]
  /\ sendQ \in [Chans -> Seq(Entry)]
  /\ wake \in [Procs -> Seq(Entry)]
  /\ lock \in [Chans -> Procs \cup {NoProc}]
  /\ index \in [Op -> Nat \cup {NoIndex, TimeoutIndex}]
  /\ DOMAIN lin = Op /\ DOMAIN value = Op /\ DOMAIN released = Op
  /\ DOMAIN call = Procs /\ DOMAIN pc = Procs /\ DOMAIN hand = Procs /\ DOMAIN res = Procs
  /\ DOMAIN order = Procs /\ DOMAIN at = Procs /\ DOMAIN left = Procs
  /\ \A p \in Procs : pc[p] # "idle" => nops[p] > 0 /\ IsCall(call[p])

(* Entry e stands for a case of the call its thread is parked in.          *)
AtCase(e, dir, c) ==
  LET q == e.w[1]
  IN  /\ q \in Procs /\ e.w = Cur(q) /\ pc[q] \in Open
      /\ e.i \in DOMAIN call[q].cases /\ Dir(q, e.i) = dir /\ Ch(q, e.i) = c

(* The entries nobody claimed, in the queues and in the snapshots of       *)
(* close().                                                                *)
LiveEntries ==
  \A c \in Chans :
    /\ \A j \in DOMAIN recvQ[c] : Unclaimed(recvQ[c][j].w) => AtCase(recvQ[c][j], "recv", c)
    /\ \A j \in DOMAIN sendQ[c] : Unclaimed(sendQ[c][j].w) => AtCase(sendQ[c][j], "send", c)

Refusing(e) ==
  \E c \in Chans : closed[c] /\ (AtCase(e, "send", c) \/ (AtCase(e, "recv", c) /\ buf[c] = <<>>))
LiveSnapshots ==
  \A p \in Procs : \A k \in DOMAIN wake[p] : Unclaimed(wake[p][k].w) => Refusing(wake[p][k])

(* A waiter is claimed before it is released, and from then on decided.    *)
Waiters ==
  /\ \A p \in Procs : \A n \in 1..MaxOps : n > nops[p] => Unclaimed(<<p, n>>)
  /\ \A w \in Op : released[w] => ~Unclaimed(w)
  /\ \A w \in Op : ~Unclaimed(w) => lin[w].st # "pending"

(* Outcome l of case i is what a caller makes of a waiter holding v.       *)
Fits(i, l, dir, v) ==
  /\ i \in Nat /\ v # Unset
  /\ l = IF v = Closed THEN Outcome("closed", i, Unset)
         ELSE Outcome("ok", i, IF dir = "recv" THEN v ELSE Unset)
Learns(w, v) == Fits(index[w], lin[w], Dir(w[1], index[w]), v)

(* Whoever is woken, or is about to be, learns what happened.              *)
Delivered ==
  /\ \A p \in Procs : nops[p] > 0 /\ released[Cur(p)] => Learns(Cur(p), value[Cur(p)])
  /\ \A p \in Finishing : /\ hand[p].w \in Op /\ ~Unclaimed(hand[p].w)
                          /\ hand[p].w = Cur(hand[p].w[1]) => Learns(hand[p].w, hand[p].v)

(* What a thread's place says of its call and its waiter.                  *)
PlaceOK(p) ==
  LET w == Cur(p)
  IN  /\ pc[p] \in Early => /\ Unclaimed(w) /\ lin[w].st = "pending"
                            /\ order[p] \in Orders(call[p].cases) /\ at[p] \in Nat \ {0}
      /\ pc[p] \in Open /\ Unclaimed(w) => lin[w].st = "pending"
      /\ pc[p] \in Gone => ~Unclaimed(w)
      /\ pc[p] = "expired" => call[p].wait = "timed"
      /\ pc[p] = "finish" => lin[w] = hand[p].out /\ lin[w].st # "pending"
      /\ pc[p] \in {"closing", "closefinish"} => lin[w] = Outcome("done", 0, Unset)
      /\ pc[p] = "idle" /\ nops[p] > 0 => lin[w].st # "pending"

(* With every lock held, a case that was not ready is still not ready.     *)
LockOK(p) ==
  /\ pc[p] = "locking" => \A c \in SelChans(p) \ left[p] : lock[c] = p
  /\ pc[p] = "recheck" =>
       /\ \A c \in SelChans(p) : lock[c] = p
       /\ \A k \in DOMAIN order[p] : k < at[p] => Missed(Dir(p, order[p][k]), Ch(p, order[p][k]))

SInv ==
  /\ Shape /\ LiveEntries /\ LiveSnapshots /\ Waiters /\ Delivered /\ NoMissedMatch
  /\ \A p \in Procs : PlaceOK(p) /\ LockOK(p)

-----------------------------------------------------------------------------
(* What every step of thread p leaves alone: the other threads, what is    *)
(* under a lock somebody else holds, the waiters that were claimed, and    *)
(* the operations of others, unless they are parked and are claimed now.   *)

Kept(w) == index'[w] = index[w] /\ lin'[w] = lin[w]

Bystanders(p) ==
  \A q \in Procs \ {p} :
    /\ pc'[q] = pc[q] /\ nops'[q] = nops[q] /\ call'[q] = call[q]
    /\ hand'[q] = hand[q] /\ res'[q] = res[q] /\ wake'[q] = wake[q]
    /\ order'[q] = order[q] /\ at'[q] = at[q] /\ left'[q] = left[q]

Respects(p) ==
  \A c \in Chans : lock[c] \notin {NoProc, p} =>
    /\ lock'[c] = lock[c] /\ closed'[c] = closed[c] /\ buf'[c] = buf[c]
    /\ recvQ'[c] = recvQ[c] /\ sendQ'[c] = sendQ[c]

Decided == \A w \in Op : ~Unclaimed(w) => Kept(w)

LeftAlone(p) ==
  \A q \in Procs \ {p} : nops[q] > 0 =>
    \/ Kept(Cur(q))
    \/ pc[q] \in Open /\ Unclaimed(Cur(q)) /\ index'[Cur(q)] # NoIndex

Frame(p) == Bystanders(p) /\ Respects(p) /\ Decided /\ LeftAlone(p)

(* Somebody inside a call is in one of its operations.                     *)
LEMMA InCall ==
  ASSUME Shape, NEW p \in Procs, nops[p] > 0
  PROVE  Cur(p) \in Op /\ Cur(p)[1] = p
BY ChanAssumption DEF Shape, Cur, Op

LEMMA PlaceStays ==
  ASSUME Shape, NEW p \in Procs, Frame(p), NEW q \in Procs \ {p}, PlaceOK(q)
  PROVE  PlaceOK(q)'
<1>1. Cur(q)' = Cur(q) /\ (nops[q] > 0 => Cur(q) \in Op)
  BY InCall DEF Frame, Bystanders, Cur
<1>2. pc[q] # "idle" => nops[q] > 0
  BY DEF Shape
<1>3. /\ pc'[q] = pc[q] /\ nops'[q] = nops[q] /\ call'[q] = call[q] /\ hand'[q] = hand[q]
      /\ order'[q] = order[q] /\ at'[q] = at[q]
  BY DEF Frame, Bystanders
<1>4. Cur(q) \in Op /\ ~Unclaimed(Cur(q)) => Kept(Cur(q))
  BY DEF Frame, Decided
<1>5. nops[q] > 0 /\ (pc[q] \notin Open \/ index'[Cur(q)] = NoIndex) => Kept(Cur(q))
  BY DEF Frame, LeftAlone
<1> QED
  BY <1>1, <1>2, <1>3, <1>4, <1>5 DEF PlaceOK, Kept, Unclaimed, Early, Open, Gone

(* What is stale stays stale.                                              *)
LEMMA StaleStays ==
  ASSUME Decided, NEW q \in Seq(Entry), AllStale(q)
  PROVE  AllStale(q)'
<1>1. \A j \in DOMAIN q : q[j].w \in Op
  BY EntryWaiter
<1> QED
  BY <1>1 DEF AllStale, Decided, Kept, Unclaimed

LEMMA LockStays ==
  ASSUME Shape, NEW p \in Procs, Frame(p), NEW q \in Procs \ {p}, PlaceOK(q), LockOK(q)
  PROVE  LockOK(q)'
<1>1. /\ pc'[q] = pc[q] /\ call'[q] = call[q] /\ order'[q] = order[q] /\ at'[q] = at[q]
      /\ left'[q] = left[q]
  BY DEF Frame, Bystanders
<1>2. SelChans(q)' = SelChans(q) /\ (pc[q] # "idle" => SelChans(q) \in SUBSET Chans)
  BY <1>1 DEF SelChans, Shape, IsCall, Case, Ch
<1>3. \A c \in Chans : lock[c] = q =>
        /\ lock'[c] = lock[c] /\ closed'[c] = closed[c] /\ buf'[c] = buf[c]
        /\ recvQ'[c] = recvQ[c] /\ sendQ'[c] = sendQ[c]
  BY MarkerAssumption DEF Frame, Respects
<1>4. CASE pc[q] = "locking"
  BY <1>1, <1>2, <1>3, <1>4 DEF LockOK
<1>5. CASE pc[q] = "recheck"
  <2>1. \A c \in SelChans(q) : lock'[c] = q
    BY <1>2, <1>3, <1>5 DEF LockOK
  <2>2. ASSUME NEW k \in DOMAIN order[q], k < at[q]
        PROVE  Missed(Dir(q, order[q][k]), Ch(q, order[q][k]))'
    <3>1. order[q][k] \in DOMAIN call[q].cases
      BY <1>5 DEF PlaceOK, Early, Orders
    <3>2. PICK c \in Chans : c = Ch(q, order[q][k]) /\ lock[c] = q
      BY <1>2, <1>5, <3>1 DEF SelChans, LockOK
    <3>3. PICK dir : dir = Dir(q, order[q][k])
      OBVIOUS
    <3>4. Missed(dir, c)
      BY <1>5, <2>2, <3>2, <3>3 DEF LockOK
    <3>5. Missed(dir, c)'
      <4>1. recvQ[c] \in Seq(Entry) /\ sendQ[c] \in Seq(Entry)
        BY DEF Shape
      <4>2. (AllStale(recvQ[c]) => AllStale(recvQ[c])') /\ (AllStale(sendQ[c]) => AllStale(sendQ[c])')
        <5>1. \A r \in Seq(Entry) : AllStale(r) => AllStale(r)'
          BY StaleStays DEF Frame
        <5> QED
          BY <1>3, <3>2, <4>1, <5>1 DEF AllStale
      <4> QED
        BY <1>3, <3>2, <3>4, <4>2 DEF Missed
    <3>6. Dir(q, order[q][k])' = dir /\ Ch(q, order[q][k])' = c
      BY <1>1, <3>2, <3>3 DEF Dir, Ch
    <3> QED
      BY <3>5, <3>6 DEF Missed
  <2> QED
    BY <1>1, <1>2, <1>5, <2>1, <2>2 DEF LockOK
<1> QED
  BY <1>1, <1>4, <1>5 DEF LockOK


-----------------------------------------------------------------------------
(* Entries and the steps that make none: the queues and snapshots after    *)
(* them consist of what was there.                                         *)

From(q, r) == \A k \in DOMAIN r : \E m \in DOMAIN q : r[k] = q[m]
QueuesFrom == \A c \in Chans : From(recvQ[c], recvQ'[c]) /\ From(sendQ[c], sendQ'[c])

(* While nobody claims p's waiter its call stays parked.                   *)
StaysOpen(p) ==
  pc[p] \in Open /\ index'[Cur(p)] = NoIndex =>
    pc'[p] \in Open /\ nops'[p] = nops[p] /\ call'[p] = call[p]

LEMMA AtCaseStays ==
  ASSUME NEW p \in Procs, Frame(p), StaysOpen(p),
         NEW e, NEW dir, NEW c, AtCase(e, dir, c), index'[e.w] = NoIndex
  PROVE  AtCase(e, dir, c)'
<1>1. PICK q \in Procs : q = e.w[1] /\ e.w = Cur(q) /\ pc[q] \in Open
  BY DEF AtCase
<1>2. pc'[q] \in Open /\ nops'[q] = nops[q] /\ call'[q] = call[q]
  BY <1>1 DEF Frame, Bystanders, StaysOpen
<1> QED
  BY <1>1, <1>2 DEF AtCase, Cur, Dir, Ch

(* An entry nobody claimed was not claimed before.                         *)
LEMMA LiveWas ==
  ASSUME Decided, NEW q \in Seq(Entry), NEW r, From(q, r),
         NEW k \in DOMAIN r, index'[r[k].w] = NoIndex
  PROVE  \E m \in DOMAIN q : r[k] = q[m] /\ r[k].w \in Op /\ index[q[m].w] = NoIndex
<1>1. PICK m \in DOMAIN q : r[k] = q[m]
  BY DEF From
<1>2. q[m].w \in Op
  BY EntryWaiter
<1> QED
  BY <1>1, <1>2 DEF Decided, Kept, Unclaimed

LEMMA LiveEntriesStep ==
  ASSUME Shape, LiveEntries, NEW p \in Procs, Frame(p), StaysOpen(p), QueuesFrom
  PROVE  LiveEntries'
<1> SUFFICES ASSUME NEW c \in Chans
             PROVE  /\ \A j \in DOMAIN recvQ'[c] : index'[recvQ'[c][j].w] = NoIndex =>
                         AtCase(recvQ[c][j], "recv", c)'
                    /\ \A j \in DOMAIN sendQ'[c] : index'[sendQ'[c][j].w] = NoIndex =>
                         AtCase(sendQ[c][j], "send", c)'
  BY DEF LiveEntries, Unclaimed
<1>1. recvQ[c] \in Seq(Entry) /\ sendQ[c] \in Seq(Entry) /\ Decided
  BY DEF Shape, Frame
<1>2. From(recvQ[c], recvQ'[c]) /\ From(sendQ[c], sendQ'[c])
  BY DEF QueuesFrom
<1>3. \A j \in DOMAIN recvQ'[c] : index'[recvQ'[c][j].w] = NoIndex =>
        AtCase(recvQ[c][j], "recv", c)'
  <2>1. SUFFICES ASSUME NEW j \in DOMAIN recvQ'[c], index'[recvQ'[c][j].w] = NoIndex
                 PROVE  AtCase(recvQ[c][j], "recv", c)'
    OBVIOUS
  <2>2. PICK m \in DOMAIN recvQ[c] : recvQ'[c][j] = recvQ[c][m] /\ index[recvQ[c][m].w] = NoIndex
    BY <1>1, <1>2, <2>1, LiveWas
  <2>3. PICK e : e = recvQ[c][m]
    OBVIOUS
  <2>4. AtCase(e, "recv", c) /\ index'[e.w] = NoIndex
    BY <2>1, <2>2, <2>3 DEF LiveEntries, Unclaimed
  <2>5. AtCase(e, "recv", c)'
    BY <2>4, AtCaseStays
  <2> QED
    BY <2>2, <2>3, <2>5
<1>4. \A j \in DOMAIN sendQ'[c] : index'[sendQ'[c][j].w] = NoIndex =>
        AtCase(sendQ[c][j], "send", c)'
  <2>1. SUFFICES ASSUME NEW j \in DOMAIN sendQ'[c], index'[sendQ'[c][j].w] = NoIndex
                 PROVE  AtCase(sendQ[c][j], "send", c)'
    OBVIOUS
  <2>2. PICK m \in DOMAIN sendQ[c] : sendQ'[c][j] = sendQ[c][m] /\ index[sendQ[c][m].w] = NoIndex
    BY <1>1, <1>2, <2>1, LiveWas
  <2>3. PICK e : e = sendQ[c][m]
    OBVIOUS
  <2>4. AtCase(e, "send", c) /\ index'[e.w] = NoIndex
    BY <2>1, <2>2, <2>3 DEF LiveEntries, Unclaimed
  <2>5. AtCase(e, "send", c)'
    BY <2>4, AtCaseStays
  <2> QED
    BY <2>2, <2>3, <2>5
<1> QED
  BY <1>3, <1>4

(* What close() may refuse, it may still refuse.                           *)
StaysClosed == \A c \in Chans : closed[c] => closed'[c] /\ (buf[c] = <<>> => buf'[c] = <<>>)

LEMMA RefusingStays ==
  ASSUME NEW p \in Procs, Frame(p), StaysOpen(p), StaysClosed,
         NEW e, Refusing(e), index'[e.w] = NoIndex
  PROVE  Refusing(e)'
<1>1. PICK c \in Chans :
        closed[c] /\ (AtCase(e, "send", c) \/ (AtCase(e, "recv", c) /\ buf[c] = <<>>))
  BY DEF Refusing
<1>2. closed'[c] /\ (buf[c] = <<>> => buf'[c] = <<>>)
  BY <1>1 DEF StaysClosed
<1>3. \A dir : AtCase(e, dir, c) => AtCase(e, dir, c)'
  BY AtCaseStays
<1> QED
  BY <1>1, <1>2, <1>3 DEF Refusing

LEMMA LiveSnapshotStep ==
  ASSUME Shape, LiveSnapshots, NEW p \in Procs, Frame(p), StaysOpen(p), StaysClosed,
         NEW q \in Procs, From(wake[q], wake'[q]),
         NEW k \in DOMAIN wake'[q], index'[wake'[q][k].w] = NoIndex
  PROVE  Refusing(wake[q][k])'
<1>1. wake[q] \in Seq(Entry) /\ Decided
  BY DEF Shape, Frame
<1>2. PICK m \in DOMAIN wake[q] : wake'[q][k] = wake[q][m] /\ index[wake[q][m].w] = NoIndex
  BY <1>1, LiveWas
<1>3. PICK e : e = wake[q][m]
  OBVIOUS
<1>4. Refusing(e) /\ index'[e.w] = NoIndex
  BY <1>2, <1>3 DEF LiveSnapshots, Unclaimed
<1>5. Refusing(e)'
  BY <1>4, RefusingStays
<1> QED
  BY <1>2, <1>3, <1>5

LEMMA LiveSnapshotsStep ==
  ASSUME Shape, LiveSnapshots, NEW p \in Procs, Frame(p), StaysOpen(p), StaysClosed,
         From(wake[p], wake'[p])
  PROVE  LiveSnapshots'
<1>1. \A q \in Procs : From(wake[q], wake'[q])
  BY DEF Frame, Bystanders, From
<1> QED
  BY <1>1, LiveSnapshotStep DEF LiveSnapshots, Unclaimed

-----------------------------------------------------------------------------
(* The waiters: only p's own or those of parked calls are claimed, and     *)
(* only one that was claimed is released.                                  *)
LEMMA WaitersStep ==
  ASSUME Shape, Shape', Waiters, NEW p \in Procs, Frame(p),
         \A q \in Procs : nops'[q] >= nops[q],
         \A q \in Procs : \A n \in 1..MaxOps : n > nops'[q] => index'[<<q, n>>] = index[<<q, n>>],
         \A w \in Op : released'[w] => released[w] \/ ~Unclaimed(w),
         \A w \in Op : index'[w] # NoIndex => ~Unclaimed(w) \/ lin'[w].st # "pending"
  PROVE  Waiters'
<1>1. ASSUME NEW q \in Procs, NEW n \in 1..MaxOps, n > nops'[q]
      PROVE  index'[<<q, n>>] = NoIndex
  <2>1. nops[q] \in Nat /\ nops'[q] \in Nat /\ n \in Nat
    BY ChanAssumption DEF Shape
  <2>2. n > nops[q]
    BY <1>1, <2>1
  <2> QED
    BY <1>1, <2>2 DEF Waiters, Unclaimed
<1>2. ASSUME NEW w \in Op, released'[w] PROVE index'[w] # NoIndex
  BY <1>2 DEF Waiters, Unclaimed, Frame, Decided, Kept
<1>3. ASSUME NEW w \in Op, index'[w] # NoIndex PROVE lin'[w].st # "pending"
  BY <1>3 DEF Waiters, Unclaimed, Frame, Decided, Kept
<1> QED
  BY <1>1, <1>2, <1>3 DEF Waiters, Unclaimed

(* A value that is there stays there, one that is on its way arrives.      *)
LEMMA DeliveredStep ==
  ASSUME Shape, Shape', Waiters, Delivered, NEW p \in Procs, Frame(p),
         nops' = nops, call' = call,
         \A q \in Procs : nops[q] > 0 /\ released'[Cur(q)] =>
           \/ released[Cur(q)] /\ value'[Cur(q)] = value[Cur(q)]
           \/ ~Unclaimed(Cur(q)) /\ Learns(Cur(q), value'[Cur(q)]),
         \A r \in Finishing' :
           \/ r \in Finishing /\ hand'[r] = hand[r]
           \/ /\ hand'[r].w \in Op /\ index'[hand'[r].w] # NoIndex
              /\ Learns(hand[r].w, hand[r].v)'
  PROVE  Delivered'
<1>1. \A q : Cur(q)' = Cur(q)
  BY DEF Cur
<1>2. ASSUME NEW q \in Procs, nops'[q] > 0, released'[Cur(q)]
      PROVE  Learns(Cur(q), value[Cur(q)])'
  <2>1. Cur(q) \in Op /\ Cur(q)[1] = q /\ ~Unclaimed(Cur(q)) /\ Learns(Cur(q), value'[Cur(q)])
    BY <1>2, InCall DEF Delivered, Waiters
  <2>2. index'[Cur(q)] = index[Cur(q)] /\ lin'[Cur(q)] = lin[Cur(q)]
    BY <2>1 DEF Frame, Decided, Kept
  <2> QED
    BY <1>1, <2>1, <2>2 DEF Learns, Dir
<1>3. ASSUME NEW r \in Finishing'
      PROVE  /\ hand'[r].w \in Op /\ index'[hand'[r].w] # NoIndex
             /\ hand'[r].w = Cur(hand'[r].w[1]) => Learns(hand[r].w, hand[r].v)'
  <2>1. CASE r \in Finishing /\ hand'[r] = hand[r]
    <3>1. PICK w \in Op : w = hand[r].w /\ ~Unclaimed(w) /\ (w = Cur(w[1]) => Learns(w, hand[r].v))
      BY <2>1 DEF Delivered
    <3>2. index'[w] = index[w] /\ lin'[w] = lin[w]
      BY <3>1 DEF Frame, Decided, Kept
    <3> QED
      BY <2>1, <3>1, <3>2 DEF Learns, Dir, Unclaimed
  <2> QED
    BY <1>3, <2>1
<1> QED
  BY <1>1, <1>2, <1>3 DEF Delivered, Unclaimed


-----------------------------------------------------------------------------
(* NoMissedMatch, of one channel.                                          *)
Matched(c) ==
  /\ closed[c] => recvQ[c] = <<>> /\ sendQ[c] = <<>>
  /\ \A j \in DOMAIN recvQ[c] : Unclaimed(recvQ[c][j].w) =>
       /\ buf[c] = <<>>
       /\ \A k \in DOMAIN sendQ[c] :
            Unclaimed(sendQ[c][k].w) => sendQ[c][k].w = recvQ[c][j].w
  /\ \A k \in DOMAIN sendQ[c] :
       Unclaimed(sendQ[c][k].w) => Len(buf[c]) >= Cap[c]

LEMMA NothingFromEmpty ==
  ASSUME NEW r \in Seq(Entry), From(<<>>, r)
  PROVE  r = <<>>
<1>1. DOMAIN r = {}
  <2>1. \A m \in DOMAIN <<>> : FALSE
    OBVIOUS
  <2> QED
    BY <2>1 DEF From
<1> QED
  BY <1>1, EmptySeq

LEMMA MatchedStep ==
  ASSUME Shape, Shape', NoMissedMatch, Decided, QueuesFrom, closed' = closed,
         \A c \in Chans : Room(c)
  PROVE  NoMissedMatch'
<1> SUFFICES ASSUME NEW c \in Chans PROVE Matched(c)'
  BY DEF NoMissedMatch, Matched
<1>1. /\ recvQ[c] \in Seq(Entry) /\ sendQ[c] \in Seq(Entry)
      /\ recvQ'[c] \in Seq(Entry) /\ sendQ'[c] \in Seq(Entry)
      /\ buf[c] \in Seq(Op) /\ buf'[c] \in Seq(Op) /\ Cap[c] \in Nat
      /\ From(recvQ[c], recvQ'[c]) /\ From(sendQ[c], sendQ'[c]) /\ Matched(c) /\ Room(c)
  BY ChanAssumption DEF Shape, QueuesFrom, NoMissedMatch, Matched
<1>2. closed'[c] => recvQ'[c] = <<>> /\ sendQ'[c] = <<>>
  BY <1>1, NothingFromEmpty DEF Matched
<1>3. ASSUME NEW j \in DOMAIN recvQ'[c], index'[recvQ'[c][j].w] = NoIndex
      PROVE  \E m \in DOMAIN recvQ[c] : recvQ'[c][j] = recvQ[c][m] /\ index[recvQ[c][m].w] = NoIndex
  <2>1. recvQ[c] \in Seq(Entry) /\ From(recvQ[c], recvQ'[c])
    BY <1>1
  <2> QED
    BY <1>3, <2>1, LiveWas
<1>4. ASSUME NEW k \in DOMAIN sendQ'[c], index'[sendQ'[c][k].w] = NoIndex
      PROVE  \E n \in DOMAIN sendQ[c] : sendQ'[c][k] = sendQ[c][n] /\ index[sendQ[c][n].w] = NoIndex
  <2>1. sendQ[c] \in Seq(Entry) /\ From(sendQ[c], sendQ'[c])
    BY <1>1
  <2> QED
    BY <1>4, <2>1, LiveWas
<1>5. ASSUME NEW j \in DOMAIN recvQ'[c], index'[recvQ'[c][j].w] = NoIndex
      PROVE  /\ buf'[c] = <<>>
             /\ \A k \in DOMAIN sendQ'[c] : index'[sendQ'[c][k].w] = NoIndex =>
                  sendQ'[c][k].w = recvQ'[c][j].w
  <2>1. PICK m \in DOMAIN recvQ[c] : recvQ'[c][j] = recvQ[c][m] /\ index[recvQ[c][m].w] = NoIndex
    BY <1>3, <1>5
  <2>2. buf[c] = <<>> /\ recvQ'[c] # <<>>
    BY <1>1, <1>5, <2>1 DEF Matched, Unclaimed
  <2>3. buf'[c] = <<>>
    BY <1>1, <2>2 DEF Room
  <2>4. ASSUME NEW k \in DOMAIN sendQ'[c], index'[sendQ'[c][k].w] = NoIndex
        PROVE  sendQ'[c][k].w = recvQ'[c][j].w
    <3>1. PICK n \in DOMAIN sendQ[c] : sendQ'[c][k] = sendQ[c][n] /\ index[sendQ[c][n].w] = NoIndex
      BY <1>4, <2>4
    <3> QED
      BY <1>1, <2>1, <3>1 DEF Matched, Unclaimed
  <2> QED
    BY <2>3, <2>4
<1>6. ASSUME NEW k \in DOMAIN sendQ'[c], index'[sendQ'[c][k].w] = NoIndex
      PROVE  Len(buf'[c]) >= Cap[c]
  <2>1. PICK n \in DOMAIN sendQ[c] : sendQ'[c][k] = sendQ[c][n] /\ index[sendQ[c][n].w] = NoIndex
    BY <1>4, <1>6
  <2>2. Len(buf[c]) >= Cap[c] /\ sendQ'[c] # <<>>
    BY <1>1, <1>6, <2>1 DEF Matched, Unclaimed
  <2> QED
    BY <1>1, <2>2, LenProperties DEF Room
<1> QED
  BY <1>2, <1>5, <1>6 DEF Matched, Unclaimed

-----------------------------------------------------------------------------
(* A step of p keeps the invariant if it keeps each part of it.            *)
LEMMA StepInv ==
  ASSUME SInv, NEW p \in Procs, Frame(p), Shape', LiveEntries', LiveSnapshots', Waiters',
         Delivered', NoMissedMatch', PlaceOK(p)', LockOK(p)'
  PROVE  SInv'
<1>1. ASSUME NEW q \in Procs PROVE PlaceOK(q)' /\ LockOK(q)'
  <2>1. CASE q # p
    BY <2>1, PlaceStays, LockStays DEF SInv
  <2> QED
    BY <2>1
<1> QED
  BY <1>1 DEF SInv

(* Nobody is completed: at most p claims its own waiter.                   *)
Quiet(p) ==
  /\ nops' = nops /\ call' = call /\ value' = value /\ released' = released
  /\ \A w \in Op : w # Cur(p) => index'[w] = index[w]
  /\ index'[Cur(p)] # NoIndex => ~Unclaimed(Cur(p)) \/ lin'[Cur(p)].st # "pending"
  /\ \A r \in Finishing' : r \in Finishing /\ hand'[r] = hand[r]

LEMMA NoneArrives ==
  ASSUME Shape, Shape', Waiters, Delivered, NEW p \in Procs, Frame(p), Quiet(p)
  PROVE  Waiters' /\ Delivered'
<1>1. Waiters'
  <2>1. \A q \in Procs : nops'[q] >= nops[q]
    BY ChanAssumption DEF Shape, Quiet
  <2>2. ASSUME NEW q \in Procs, NEW n \in 1..MaxOps, n > nops'[q]
        PROVE  index'[<<q, n>>] = index[<<q, n>>]
    <3>1. <<q, n>> \in Op /\ <<q, n>> # Cur(p)
      BY <2>2, ChanAssumption DEF Op, Cur, Quiet, Shape
    <3> QED
      BY <3>1 DEF Quiet
  <2>3. \A w \in Op : released'[w] => released[w] \/ ~Unclaimed(w)
    BY DEF Quiet
  <2>4. \A w \in Op : index'[w] # NoIndex => ~Unclaimed(w) \/ lin'[w].st # "pending"
    BY DEF Quiet, Unclaimed
  <2> QED
    BY <2>1, <2>2, <2>3, <2>4, WaitersStep
<1>2. Delivered'
  <2>1. \A q \in Procs : nops[q] > 0 /\ released'[Cur(q)] =>
          released[Cur(q)] /\ value'[Cur(q)] = value[Cur(q)]
    BY DEF Quiet
  <2> QED
    BY <2>1, DeliveredStep DEF Quiet
<1> QED
  BY <1>1, <1>2

(* A step that makes no entry, closes nothing and completes nobody.        *)
LEMMA QuietInv ==
  ASSUME SInv, NEW p \in Procs, Frame(p), Shape', Quiet(p), StaysOpen(p), QueuesFrom,
         From(wake[p], wake'[p]), closed' = closed, \A c \in Chans : Room(c),
         PlaceOK(p)', LockOK(p)'
  PROVE  SInv'
<1>1. Shape /\ LiveEntries /\ LiveSnapshots /\ Waiters /\ Delivered /\ NoMissedMatch /\ Decided
  BY DEF SInv, Frame
<1>2. StaysClosed
  BY DEF StaysClosed, Room
<1>3. LiveEntries' /\ LiveSnapshots'
  BY <1>1, <1>2, LiveEntriesStep, LiveSnapshotsStep
<1>4. Waiters' /\ Delivered'
  BY <1>1, NoneArrives
<1>5. NoMissedMatch'
  BY <1>1, MatchedStep
<1> QED
  BY <1>3, <1>4, <1>5, StepInv


-----------------------------------------------------------------------------
(* What a step of p does to the channels: nothing enters a queue, and what *)
(* others have locked stays.                                               *)
ChannelsFit(p) ==
  /\ closed' = closed /\ buf' \in [Chans -> Seq(Op)]
  /\ recvQ' \in [Chans -> Seq(Entry)] /\ sendQ' \in [Chans -> Seq(Entry)]
  /\ QueuesFrom /\ \A c \in Chans : Room(c)
  /\ \A c \in Chans : lock[c] \notin {NoProc, p} =>
       buf'[c] = buf[c] /\ recvQ'[c] = recvQ[c] /\ sendQ'[c] = sendQ[c]

LEMMA FromFacts == \A q : From(q, q) /\ From(q, <<>>)
BY DEF From

LEMMA WakeFacts ==
  ASSUME Shape, NEW p \in Procs, wake' = wake \/ wake' = [wake EXCEPT ![p] = <<>>]
  PROVE  /\ wake' \in [Procs -> Seq(Entry)] /\ From(wake[p], wake'[p])
         /\ \A q \in Procs \ {p} : wake'[q] = wake[q]
<1>1. wake \in [Procs -> Seq(Entry)]
  BY DEF Shape
<1>2. CASE wake' = wake
  BY <1>1, <1>2, FromFacts
<1>3. CASE wake' = [wake EXCEPT ![p] = <<>>]
  <2>1. <<>> \in Seq(Entry)
    BY EmptySeq
  <2>2. wake'[p] = <<>> /\ wake' \in [Procs -> Seq(Entry)]
    BY <1>1, <1>3, <2>1
  <2>3. From(wake[p], <<>>)
    BY FromFacts
  <2> QED
    BY <1>1, <1>3, <2>2, <2>3
<1> QED
  BY <1>2, <1>3

(* One queue is replaced by some of its entries.                           *)
LEMMA OneQueueFrom ==
  ASSUME NEW Q \in [Chans -> Seq(Entry)], NEW c, NEW r, NEW R, R = [Q EXCEPT ![c] = r],
         c \in Chans => r \in Seq(Entry) /\ From(Q[c], r)
  PROVE  /\ R \in [Chans -> Seq(Entry)]
         /\ \A d \in Chans \ {c} : R[d] = Q[d]
         /\ \A d \in Chans : From(Q[d], R[d])
<1>1. R \in [Chans -> Seq(Entry)] /\ \A d \in Chans \ {c} : R[d] = Q[d]
  OBVIOUS
<1>2. ASSUME NEW d \in Chans PROVE From(Q[d], R[d])
  <2>1. CASE d = c
    BY <2>1
  <2>2. CASE d # c
    BY <1>1, <2>2, FromFacts
  <2> QED
    BY <2>1, <2>2
<1> QED
  BY <1>1, <1>2

LEMMA ChannelsSame ==
  ASSUME Shape, NEW p, UNCHANGED <<closed, buf, recvQ, sendQ>>
  PROVE  ChannelsFit(p)
BY FromFacts DEF ChannelsFit, QueuesFrom, Room, Shape

LEMMA UnlockedFacts ==
  ASSUME Shape, NEW p \in Procs
  PROVE  /\ Unlocked(p) \in [Chans -> Procs \cup {NoProc}]
         /\ \A c \in Chans : lock[c] \notin {NoProc, p} => Unlocked(p)[c] = lock[c]
BY DEF Shape, Unlocked

(* p's operation takes effect and its call ends.                           *)
LEMMA EndsInv ==
  ASSUME SInv, NEW p \in Procs, pc[p] \in Early, NEW out, out.st # "pending",
         TakeEffect(p, out), ChannelsFit(p),
         UNCHANGED <<nops, call, waiters, hand, wake, selVars>>
  PROVE  SInv'
<1>1. Shape /\ PlaceOK(p) /\ pc[p] # "idle" /\ nops[p] > 0
  BY DEF SInv, Shape, Early
<1>2. Cur(p) \in Op /\ Cur(p)' = Cur(p) /\ Unclaimed(Cur(p))
  BY <1>1, InCall DEF PlaceOK, Cur
<1>3. /\ lin' = [lin EXCEPT ![Cur(p)] = out] /\ pc' = [pc EXCEPT ![p] = "idle"]
      /\ res' = [res EXCEPT ![p] = out] /\ lock' = Unlocked(p)
      /\ nops' = nops /\ call' = call /\ index' = index /\ value' = value
      /\ released' = released /\ hand' = hand /\ wake' = wake
      /\ order' = order /\ at' = at /\ left' = left
  BY DEF TakeEffect, Return, waiters, selVars
<1>4. \A w \in Op : w # Cur(p) => Kept(w)
  BY <1>1, <1>3 DEF Kept, Shape
<1>5. Frame(p)
  <2>1. Bystanders(p)
    BY <1>1, <1>3 DEF Bystanders, Shape
  <2>2. Respects(p)
    BY <1>1, <1>3, UnlockedFacts DEF Respects, ChannelsFit
  <2>3. Decided
    BY <1>2, <1>4 DEF Decided
  <2>4. LeftAlone(p)
    <3>1. \A q \in Procs \ {p} : nops[q] > 0 => Cur(q) \in Op /\ Cur(q) # Cur(p)
      BY <1>1, InCall DEF Cur
    <3> QED
      BY <1>4, <3>1 DEF LeftAlone
  <2> QED
    BY <2>1, <2>2, <2>3, <2>4 DEF Frame
<1>6. Shape'
  BY <1>1, <1>3, UnlockedFacts DEF Shape, ChannelsFit
<1>7. Quiet(p)
  BY <1>1, <1>2, <1>3 DEF Quiet, Finishing, Shape, Unclaimed
<1>8. StaysOpen(p) /\ From(wake[p], wake'[p])
  BY <1>3, FromFacts DEF StaysOpen, Early, Open
<1>9. PlaceOK(p)' /\ LockOK(p)'
  BY <1>1, <1>2, <1>3 DEF PlaceOK, LockOK, Shape, Early, Open, Gone
<1> QED
  BY <1>5, <1>6, <1>7, <1>8, <1>9, QuietInv DEF ChannelsFit


LEMMA EmptyQueue ==
  ASSUME NEW Q \in [Chans -> Seq(Entry)], NEW c \in Chans, NEW R,
         R = Q \/ R = [Q EXCEPT ![c] = <<>>]
  PROVE  /\ R \in [Chans -> Seq(Entry)] /\ R[c] \in {Q[c], <<>>}
         /\ \A d \in Chans \ {c} : R[d] = Q[d]
<1>1. CASE R = Q
  BY <1>1
<1>2. CASE R = [Q EXCEPT ![c] = <<>>]
  <2>1. R \in [Chans -> Seq(Entry)]
    BY <1>2, EmptyQueueType
  <2> QED
    BY <1>2, <2>1
<1> QED
  BY <1>1, <1>2

(* A step that touches c alone, and empties queues at most.                *)
LEMMA ChannelEmptied ==
  ASSUME Shape, NEW p, NEW c \in Chans, CanLock(p, c), closed' = closed,
         buf' = buf \/ \E b \in Seq(Op) : buf' = [buf EXCEPT ![c] = b],
         recvQ' = recvQ \/ recvQ' = [recvQ EXCEPT ![c] = <<>>],
         sendQ' = sendQ \/ sendQ' = [sendQ EXCEPT ![c] = <<>>],
         Room(c)
  PROVE  ChannelsFit(p)
<1>1. buf' \in [Chans -> Seq(Op)] /\ \A d \in Chans \ {c} : buf'[d] = buf[d]
  <2>1. buf \in [Chans -> Seq(Op)]
    BY DEF Shape
  <2> QED
    BY <2>1
<1>2. /\ recvQ' \in [Chans -> Seq(Entry)] /\ recvQ'[c] \in {recvQ[c], <<>>}
      /\ \A d \in Chans \ {c} : recvQ'[d] = recvQ[d]
  <2>1. recvQ \in [Chans -> Seq(Entry)]
    BY DEF Shape
  <2> QED
    BY <2>1, EmptyQueue
<1>3. /\ sendQ' \in [Chans -> Seq(Entry)] /\ sendQ'[c] \in {sendQ[c], <<>>}
      /\ \A d \in Chans \ {c} : sendQ'[d] = sendQ[d]
  <2>1. sendQ \in [Chans -> Seq(Entry)]
    BY DEF Shape
  <2> QED
    BY <2>1, EmptyQueue
<1>4. QueuesFrom
  BY <1>2, <1>3, FromFacts DEF QueuesFrom
<1>5. \A d \in Chans : Room(d)
  BY <1>1 DEF Room
<1> QED
  BY <1>1, <1>2, <1>3, <1>4, <1>5 DEF ChannelsFit, CanLock

(* The polls that complete nobody, of a plain operation or of a pass.      *)
LEMMA SimplePollInv ==
  ASSUME SInv, NEW p \in Procs, pc[p] \in Early, NEW i, NEW c \in Chans,
         UNCHANGED selVars,
         SendBuffer(p, i, c) \/ SendClosed(p, i, c) \/ RecvTake(p, i, c) \/ RecvClosed(p, i, c)
  PROVE  SInv'
<1>1. Shape /\ nops[p] > 0 /\ Cur(p) \in Op /\ buf[c] \in Seq(Op)
  BY InCall DEF SInv, Shape, Early
<1>2. CASE SendBuffer(p, i, c)
  <2>1. Append(buf[c], Cur(p)) \in Seq(Op)
    BY <1>1, AppendProperties
  <2>2. Room(c)
    BY <1>1, <1>2 DEF SendBuffer, Room, Shape
  <2>3. ChannelsFit(p)
    BY <1>1, <1>2, <2>1, <2>2, ChannelEmptied DEF SendBuffer, Polls
  <2> QED
    BY <1>2, <2>3, EndsInv DEF SendBuffer, Outcome
<1>3. CASE SendClosed(p, i, c)
  <2>1. ChannelsFit(p)
    BY <1>1, <1>3, ChannelsSame DEF SendClosed
  <2> QED
    BY <1>3, <2>1, EndsInv DEF SendClosed, Outcome
<1>4. CASE RecvTake(p, i, c)
  <2>1. Tail(buf[c]) \in Seq(Op)
    BY <1>1, <1>4, HeadTailProperties DEF RecvTake
  <2>2. Room(c)
    BY <1>1, <1>4 DEF RecvTake, Room, Shape
  <2>3. ChannelsFit(p)
    BY <1>1, <1>4, <2>1, <2>2, ChannelEmptied DEF RecvTake, Polls
  <2> QED
    BY <1>4, <2>3, EndsInv DEF RecvTake, Outcome
<1>5. CASE RecvClosed(p, i, c)
  <2>1. ChannelsFit(p)
    BY <1>1, <1>5, ChannelEmptied DEF RecvClosed, Polls, Room
  <2> QED
    BY <1>5, <2>1, EndsInv DEF RecvClosed, Outcome
<1> QED
  BY <1>2, <1>3, <1>4, <1>5

LEMMA MissEndsInv ==
  ASSUME SInv, NEW p \in Procs,
         \/ (TryMiss(p) \/ CloseAgain(p)) /\ UNCHANGED selVars
         \/ TakeDefault(p)
  PROVE  SInv'
<1>1. Shape
  BY DEF SInv
<1>2. CASE TryMiss(p) /\ UNCHANGED selVars
  <2>1. PICK c \in Chans, dir \in {"send", "recv"} :
          /\ Polls(p, 0, dir, c)
          /\ recvQ' = IF dir = "send" THEN [recvQ EXCEPT ![c] = <<>>] ELSE recvQ
          /\ sendQ' = IF dir = "recv" THEN [sendQ EXCEPT ![c] = <<>>] ELSE sendQ
    BY <1>2 DEF TryMiss
  <2>2. ChannelsFit(p)
    BY <1>1, <1>2, <2>1, ChannelEmptied DEF TryMiss, Polls, Room
  <2> QED
    BY <1>2, <2>2, EndsInv DEF TryMiss, Outcome, Early
<1>3. CASE CloseAgain(p) /\ UNCHANGED selVars
  BY <1>1, <1>3, ChannelsSame, EndsInv DEF CloseAgain, Outcome, Early
<1>4. CASE TakeDefault(p)
  BY <1>1, <1>4, ChannelsSame, EndsInv DEF TakeDefault, Selecting, Outcome, Early
<1> QED
  BY <1>2, <1>3, <1>4


-----------------------------------------------------------------------------
(* p goes on; nothing is decided, or its own waiter is claimed by itself.  *)
Domains ==
  /\ DOMAIN pc = Procs /\ DOMAIN res = Procs
  /\ DOMAIN order = Procs /\ DOMAIN at = Procs /\ DOMAIN left = Procs

ClaimsOwn(p) ==
  /\ Unclaimed(Cur(p))
  /\ index' = [index EXCEPT ![Cur(p)] = TimeoutIndex]
  /\ \E out : out.st # "pending" /\ lin' = [lin EXCEPT ![Cur(p)] = out]

LocksFit(p) ==
  /\ lock' \in [Chans -> Procs \cup {NoProc}]
  /\ \A c \in Chans : lock[c] \notin {NoProc, p} => lock'[c] = lock[c]

LEMMA MoveInv ==
  ASSUME SInv, NEW p \in Procs, pc[p] # "idle", ChannelsFit(p), LocksFit(p),
         UNCHANGED <<nops, call, value, released, hand>>,
         UNCHANGED <<index, lin>> \/ ClaimsOwn(p),
         Bystanders(p), Domains', wake' \in [Procs -> Seq(Entry)], From(wake[p], wake'[p]),
         pc'[p] \notin {"finish", "closefinish"}, StaysOpen(p), PlaceOK(p)', LockOK(p)'
  PROVE  SInv'
<1>1. Shape /\ nops[p] > 0 /\ Cur(p) \in Op /\ Cur(p)' = Cur(p)
  BY InCall DEF SInv, Shape, Cur
<1>2. \A w \in Op : w # Cur(p) => Kept(w)
  BY <1>1 DEF Kept, Shape, ClaimsOwn
<1>3. Decided
  BY <1>2 DEF Decided, Kept, ClaimsOwn
<1>4. LeftAlone(p)
  <2>1. \A q \in Procs \ {p} : nops[q] > 0 => Cur(q) \in Op /\ Cur(q) # Cur(p)
    BY <1>1, InCall DEF Cur
  <2> QED
    BY <1>2, <2>1 DEF LeftAlone
<1>5. Respects(p)
  BY DEF Respects, ChannelsFit, LocksFit
<1>6. Frame(p)
  BY <1>3, <1>4, <1>5 DEF Frame
<1>7. index' \in [Op -> Nat \cup {NoIndex, TimeoutIndex}] /\ DOMAIN lin' = Op
  BY <1>1 DEF Shape, ClaimsOwn
<1>8. \A q \in Procs : pc'[q] # "idle" => nops'[q] > 0 /\ IsCall(call'[q])
  BY <1>1 DEF Bystanders, Shape
<1>9. Shape'
  BY <1>1, <1>7, <1>8 DEF Shape, ChannelsFit, LocksFit, Domains
<1>10. Quiet(p)
  <2>1. index'[Cur(p)] # NoIndex => ~Unclaimed(Cur(p)) \/ lin'[Cur(p)].st # "pending"
    BY <1>1 DEF ClaimsOwn, Unclaimed, Shape
  <2>2. \A r \in Finishing' : r \in Finishing /\ hand'[r] = hand[r]
    BY DEF Finishing, Bystanders
  <2> QED
    BY <1>2, <2>1, <2>2 DEF Quiet, Kept
<1> QED
  BY <1>6, <1>9, <1>10, QuietInv DEF ChannelsFit

(* Two ways a step leaves the locks.                                       *)
LEMMA LocksFacts ==
  ASSUME Shape, NEW p \in Procs
  PROVE  /\ lock' = lock => LocksFit(p)
         /\ lock' = Unlocked(p) => LocksFit(p)
BY UnlockedFacts DEF LocksFit, Shape

(* The steps of a parked call that look at its waiter.                     *)
LEMMA LookInv ==
  ASSUME SInv, NEW p \in Procs,
         \/ (Wake(p) \/ Expire(p) \/ LoseTimeout(p)) /\ UNCHANGED selVars
         \/ SelectWake(p)
  PROVE  SInv'
<1>1. /\ Shape /\ PlaceOK(p) /\ pc[p] # "idle" /\ nops[p] > 0 /\ Cur(p)' = Cur(p)
      /\ (released[Cur(p)] => ~Unclaimed(Cur(p))) /\ (~Unclaimed(Cur(p)) => lin[Cur(p)].st # "pending")
  BY InCall DEF SInv, Shape, Waiters, Wake, Expire, LoseTimeout, SelectWake, Selecting, Cur,
     goVars, vars
<1>2. /\ UNCHANGED <<goVars, recvQ, sendQ, waiters, hand, wake, selVars>>
      /\ (lock' = lock \/ lock' = Unlocked(p))
      /\ \E to : pc' = [pc EXCEPT ![p] = to]
      /\ (res' = res \/ \E out : res' = [res EXCEPT ![p] = out])
  BY DEF Wake, Expire, LoseTimeout, SelectWake, Return
<1>3. ChannelsFit(p) /\ LocksFit(p)
  BY <1>1, <1>2, ChannelsSame, LocksFacts DEF goVars
<1>4. Bystanders(p) /\ Domains' /\ wake' \in [Procs -> Seq(Entry)] /\ From(wake[p], wake'[p])
  BY <1>1, <1>2, FromFacts DEF Bystanders, Domains, Shape, goVars, selVars
<1>5. pc'[p] \notin {"finish", "closefinish"} /\ StaysOpen(p) /\ PlaceOK(p)' /\ LockOK(p)'
  BY <1>1, <1>2
  DEF PlaceOK, LockOK, StaysOpen, Wake, Expire, LoseTimeout, SelectWake, Selecting, Return,
      Shape, Early, Open, Gone, goVars, waiters, Unclaimed
<1> QED
  BY <1>1, <1>2, <1>3, <1>4, <1>5, MoveInv DEF goVars, waiters

(* The steps by which a call with a timeout, or a cancelled task, gives up *)
(* its waiter.                                                             *)
LEMMA GiveUpInv ==
  ASSUME SInv, NEW p \in Procs,
         \/ ClaimTimeout(p) /\ UNCHANGED selVars
         \/ pc[p] = "parked" /\ \E st, then : /\ CommitSelf(p, st, then)
                                              /\ <<st, then>> \in {<<"timeout", "expired">>,
                                                                   <<"cancelled", "cancelling">>}
                                              /\ st = "timeout" => call[p].wait = "timed"
  PROVE  SInv'
<1>1. /\ Shape /\ PlaceOK(p) /\ pc[p] \in Open /\ nops[p] > 0 /\ Cur(p) \in Op /\ Cur(p)' = Cur(p)
  BY InCall DEF SInv, Shape, ClaimTimeout, CommitSelf, Cur, Open
<1>2. /\ UNCHANGED <<closed, buf, nops, call, recvQ, sendQ, lock, value, released, hand, wake,
                     res, order, at>>
      /\ (left' = left \/ left' = [left EXCEPT ![p] = SelChans(p)])
      /\ \E to \in {"withdraw", "expired", "cancelling"} :
           pc' = [pc EXCEPT ![p] = to] /\ (to = "expired" => call[p].wait = "timed")
  BY DEF ClaimTimeout, CommitSelf, selVars
<1>3. ClaimsOwn(p)
  BY DEF ClaimTimeout, CommitSelf, ClaimsOwn, Outcome
<1>4. ChannelsFit(p) /\ LocksFit(p)
  BY <1>1, <1>2, ChannelsSame, LocksFacts
<1>5. Bystanders(p) /\ Domains' /\ wake' \in [Procs -> Seq(Entry)] /\ From(wake[p], wake'[p])
  BY <1>1, <1>2, FromFacts DEF Bystanders, Domains, Shape
<1>6. index'[Cur(p)] = TimeoutIndex /\ TimeoutIndex # NoIndex
  BY <1>1, <1>3 DEF ClaimsOwn, Shape, TimeoutIndex, NoIndex
<1>7. pc'[p] \notin {"finish", "closefinish"} /\ StaysOpen(p) /\ PlaceOK(p)' /\ LockOK(p)'
  BY <1>1, <1>2, <1>6
  DEF PlaceOK, LockOK, StaysOpen, Shape, Early, Open, Gone, Unclaimed
<1> QED
  BY <1>1, <1>2, <1>3, <1>4, <1>5, <1>7, MoveInv DEF Open


(* The passes over the cases, and the locking between them.                *)
LEMMA PassMissInv == ASSUME SInv, NEW p \in Procs, PassMiss(p) PROVE SInv'
<1>1. /\ Shape /\ PlaceOK(p) /\ LockOK(p) /\ pc[p] \in Early /\ pc[p] # "idle" /\ nops[p] > 0
      /\ Cur(p)' = Cur(p)
  BY InCall DEF SInv, Shape, PassMiss, Selecting, Early, Cur, goVars
<1>2. /\ UNCHANGED <<goVars, lock, waiters, pc, hand, wake, res, order, left>>
      /\ at' = [at EXCEPT ![p] = @ + 1]
  BY DEF PassMiss
<1>3. PICK c \in Chans, dir \in {"send", "recv"} :
        /\ Polls(p, order[p][at[p]], dir, c)
        /\ Missed(dir, c)
        /\ recvQ' = IF dir = "send" THEN [recvQ EXCEPT ![c] = <<>>] ELSE recvQ
        /\ sendQ' = IF dir = "recv" THEN [sendQ EXCEPT ![c] = <<>>] ELSE sendQ
  BY DEF PassMiss
<1>4. ChannelsFit(p) /\ LocksFit(p)
  BY <1>1, <1>2, <1>3, ChannelEmptied, LocksFacts DEF Polls, Room, goVars
<1>5. Bystanders(p) /\ Domains' /\ wake' \in [Procs -> Seq(Entry)] /\ From(wake[p], wake'[p])
  BY <1>1, <1>2, FromFacts DEF Bystanders, Domains, Shape, goVars
<1>6. pc'[p] \notin {"finish", "closefinish"} /\ StaysOpen(p) /\ PlaceOK(p)'
  BY <1>1, <1>2 DEF PlaceOK, StaysOpen, Shape, Early, Open, Gone, Unclaimed, goVars, waiters
<1>7. LockOK(p)'
  <2>1. CASE pc[p] = "recheck"
    <3>1. \A d, b : Missed(b, d) /\ d \in Chans => Missed(b, d)'
      BY <1>1, <1>2, <1>3 DEF Missed, AllStale, Shape, Unclaimed, goVars, waiters
    <3>2. \A k \in DOMAIN order[p] : k < at'[p] => k < at[p] \/ k = at[p]
      <4>1. \A k \in DOMAIN order[p] : k \in Int
        BY <1>1, OrderFacts DEF PlaceOK, Shape
      <4> QED
        BY <1>1, <1>2, <4>1 DEF PlaceOK, Early, Shape
    <3>3. ASSUME NEW k \in DOMAIN order[p], k < at'[p]
          PROVE  Missed(Dir(p, order[p][k]), Ch(p, order[p][k]))'
      <4>1. order[p][k] \in DOMAIN call[p].cases
        BY <1>1 DEF PlaceOK, Early, Orders
      <4>2. PICK d, b : d \in Chans /\ d = Ch(p, order[p][k]) /\ b = Dir(p, order[p][k])
        BY <1>1, <4>1 DEF Shape, IsCall, Case, Ch
      <4>3. Missed(b, d)
        BY <1>1, <1>3, <2>1, <3>2, <3>3, <4>2 DEF LockOK, Polls
      <4>4. Missed(b, d)'
        BY <3>1, <4>2, <4>3
      <4>5. Dir(p, order[p][k])' = b /\ Ch(p, order[p][k])' = d
        BY <1>2, <4>2 DEF Dir, Ch, goVars
      <4> QED
        BY <4>4, <4>5 DEF Missed
    <3>4. SelChans(p)' = SelChans(p)
      BY <1>2 DEF SelChans, Ch, goVars
    <3> QED
      BY <1>1, <1>2, <2>1, <3>3, <3>4 DEF LockOK, goVars
  <2> QED
    BY <1>2, <2>1 DEF LockOK, PassMiss, Selecting
<1> QED
  BY <1>1, <1>2, <1>4, <1>5, <1>6, <1>7, MoveInv DEF goVars, waiters

LEMMA LockingInv ==
  ASSUME SInv, NEW p \in Procs, StartLocking(p) \/ Acquire(p)
  PROVE  SInv'
<1>1. /\ Shape /\ PlaceOK(p) /\ LockOK(p) /\ pc[p] \in Early /\ pc[p] # "idle" /\ nops[p] > 0
      /\ Cur(p)' = Cur(p) /\ SelChans(p)' = SelChans(p) /\ SelChans(p) \in SUBSET Chans
  BY InCall DEF SInv, Shape, StartLocking, Acquire, Selecting, Early, Cur, goVars, SelChans,
     IsCall, Case, Ch
<1>2. /\ UNCHANGED <<goVars, recvQ, sendQ, waiters, hand, wake, res, order>>
      /\ (at' = at \/ at' = [at EXCEPT ![p] = 1])
      /\ (\E S : left' = [left EXCEPT ![p] = S])
      /\ pc' = pc \/ (\E to \in {"locking", "recheck"} : pc' = [pc EXCEPT ![p] = to])
  BY DEF StartLocking, Acquire
<1>3. ChannelsFit(p)
  BY <1>1, <1>2, ChannelsSame DEF goVars
<1>4. Bystanders(p) /\ Domains' /\ wake' \in [Procs -> Seq(Entry)] /\ From(wake[p], wake'[p])
  BY <1>1, <1>2, FromFacts DEF Bystanders, Domains, Shape, goVars
<1>5. pc'[p] \in Early /\ StaysOpen(p) /\ PlaceOK(p)'
  BY <1>1, <1>2 DEF PlaceOK, StaysOpen, Shape, Early, Open, Gone, Unclaimed, goVars, waiters
<1>6. LocksFit(p) /\ LockOK(p)'
  <2>1. CASE StartLocking(p)
    BY <1>1, <2>1, LocksFacts DEF StartLocking, LockOK, Shape
  <2>2. CASE Acquire(p)
    <3>1. PICK c : /\ lock[c] = NoProc
                   /\ lock' = [lock EXCEPT ![c] = p]
                   /\ left' = [left EXCEPT ![p] = @ \ {c}]
                   /\ pc' = IF left'[p] = {} THEN [pc EXCEPT ![p] = "recheck"] ELSE pc
                   /\ at' = [at EXCEPT ![p] = 1] /\ pc[p] = "locking"
      BY <2>2 DEF Acquire, Selecting
    <3>2. /\ left'[p] = left[p] \ {c} /\ at'[p] = 1
          /\ pc'[p] = IF left'[p] = {} THEN "recheck" ELSE "locking"
      BY <1>1, <3>1 DEF Shape
    <3>3. LocksFit(p)
      BY <1>1, <3>1 DEF LocksFit, Shape
    <3>4. \A d \in SelChans(p) \ left'[p] : lock'[d] = p
      BY <1>1, <3>1, <3>2 DEF LockOK, Shape
    <3>5. \A k \in DOMAIN order[p] : ~(k < 1)
      BY <1>1, <1>2, OrderFacts DEF PlaceOK, Early, Shape
    <3> QED
      BY <1>1, <1>2, <3>2, <3>3, <3>4, <3>5 DEF LockOK
  <2> QED
    BY <2>1, <2>2
<1> QED
  BY <1>1, <1>2, <1>3, <1>4, <1>5, <1>6, MoveInv DEF goVars, waiters, Early


(* The end of close(), and a task that goes on or raises CancelledError    *)
(* after its waiter was claimed.                                           *)
LEMMA LeaveInv ==
  ASSUME SInv, NEW p \in Procs,
         \/ CloseDone(p) /\ UNCHANGED selVars
         \/ Resume(p) /\ ~Unclaimed(Cur(p))
         \/ /\ pc[p] = "parked" /\ ~Unclaimed(Cur(p))
            /\ Return(p, Outcome("cancelled", NoIndex, Unset))
            /\ UNCHANGED <<goVars, recvQ, sendQ, waiters, hand, wake, selVars, tasksOnly>>
  PROVE  SInv'
<1>1. /\ Shape /\ PlaceOK(p) /\ pc[p] # "idle" /\ nops[p] > 0 /\ Cur(p) \in Op /\ Cur(p)' = Cur(p)
      /\ (~Unclaimed(Cur(p)) => lin[Cur(p)].st # "pending")
  BY InCall DEF SInv, Shape, CloseDone, Resume, Cur, goVars, Waiters
<1>2. /\ UNCHANGED <<goVars, recvQ, sendQ, waiters, hand, order, at>>
      /\ (lock' = lock \/ lock' = Unlocked(p))
      /\ \E to \in {"idle", "cleanup"} : pc' = [pc EXCEPT ![p] = to]
      /\ (res' = res \/ \E out : res' = [res EXCEPT ![p] = out])
      /\ (left' = left \/ \E S : left' = [left EXCEPT ![p] = S])
      /\ (wake' = wake \/ wake' = [wake EXCEPT ![p] = <<>>])
  BY DEF CloseDone, Resume, Return, selVars
<1>3. ChannelsFit(p) /\ LocksFit(p)
  BY <1>1, <1>2, ChannelsSame, LocksFacts DEF goVars
<1>4. Bystanders(p) /\ Domains' /\ wake' \in [Procs -> Seq(Entry)] /\ From(wake[p], wake'[p])
  <2>1. /\ wake' \in [Procs -> Seq(Entry)] /\ From(wake[p], wake'[p])
        /\ \A q \in Procs \ {p} : wake'[q] = wake[q]
    BY <1>1, <1>2, WakeFacts
  <2>2. Bystanders(p) /\ Domains'
    BY <1>1, <1>2, <2>1 DEF Bystanders, Domains, Shape, goVars
  <2> QED
    BY <2>1, <2>2
<1>5. \/ pc[p] \in {"closing", "closefinish"} /\ lin[Cur(p)].st # "pending" /\ pc'[p] = "idle"
      \/ pc[p] = "parked" /\ ~Unclaimed(Cur(p))
  BY <1>1 DEF CloseDone, Resume, Return, PlaceOK, Outcome, Shape
<1>6. pc'[p] \notin {"finish", "closefinish"} /\ StaysOpen(p) /\ PlaceOK(p)' /\ LockOK(p)'
  BY <1>1, <1>2, <1>5
  DEF PlaceOK, LockOK, StaysOpen, Shape, Early, Open, Gone, goVars, waiters, Unclaimed
<1> QED
  BY <1>1, <1>2, <1>3, <1>4, <1>6, MoveInv DEF goVars, waiters

-----------------------------------------------------------------------------
(* Entries are withdrawn, from one channel after the other.                *)
LEMMA ChannelDropped ==
  ASSUME Shape, NEW p, NEW c, CanLock(p, c), UNCHANGED <<closed, buf>>, NEW w,
         \/ /\ recvQ' = [recvQ EXCEPT ![c] = Dropped(@, w)]
            /\ sendQ' = [sendQ EXCEPT ![c] = Dropped(@, w)]
         \/ /\ recvQ' = [recvQ EXCEPT ![c] = Without(recvQ[c], w)]
            /\ sendQ' = [sendQ EXCEPT ![c] = Without(sendQ[c], w)]
  PROVE  ChannelsFit(p)
<1>1. ASSUME NEW q \in Seq(Entry)
      PROVE  /\ Dropped(q, w) \in Seq(Entry) /\ From(q, Dropped(q, w))
             /\ Without(q, w) \in Seq(Entry) /\ From(q, Without(q, w))
  BY DroppedProperties, WithoutProperties DEF From
<1>2. ASSUME NEW Q \in [Chans -> Seq(Entry)], NEW R,
             R = [Q EXCEPT ![c] = Dropped(Q[c], w)] \/ R = [Q EXCEPT ![c] = Without(Q[c], w)]
      PROVE  /\ R \in [Chans -> Seq(Entry)]
             /\ \A d \in Chans \ {c} : R[d] = Q[d]
             /\ \A d \in Chans : From(Q[d], R[d])
  <2>1. PICK r : r \in {Dropped(Q[c], w), Without(Q[c], w)} /\ R = [Q EXCEPT ![c] = r]
    BY <1>2
  <2>2. c \in Chans => r \in Seq(Entry) /\ From(Q[c], r)
    BY <1>1, <2>1
  <2> QED
    BY <2>1, <2>2, OneQueueFrom
<1>3. /\ recvQ' \in [Chans -> Seq(Entry)] /\ sendQ' \in [Chans -> Seq(Entry)]
      /\ \A d \in Chans \ {c} : recvQ'[d] = recvQ[d] /\ sendQ'[d] = sendQ[d]
      /\ \A d \in Chans : From(recvQ[d], recvQ'[d]) /\ From(sendQ[d], sendQ'[d])
  <2>1. recvQ \in [Chans -> Seq(Entry)] /\ sendQ \in [Chans -> Seq(Entry)]
    BY DEF Shape
  <2>2. /\ recvQ' = [recvQ EXCEPT ![c] = Dropped(recvQ[c], w)]
           \/ recvQ' = [recvQ EXCEPT ![c] = Without(recvQ[c], w)]
        /\ sendQ' = [sendQ EXCEPT ![c] = Dropped(sendQ[c], w)]
           \/ sendQ' = [sendQ EXCEPT ![c] = Without(sendQ[c], w)]
    OBVIOUS
  <2> QED
    BY <1>2, <2>1, <2>2
<1>4. QueuesFrom
  BY <1>3 DEF QueuesFrom
<1> QED
  BY <1>3, <1>4 DEF ChannelsFit, Room, CanLock, Shape

(* The steps of _unregister(): p's waiter was claimed, or its task is the  *)
(* one that claims it.                                                     *)
LEMMA WithdrawalInv ==
  ASSUME SInv, NEW p \in Procs,
         \/ Withdraw(p) /\ UNCHANGED selVars
         \/ Unregister(p)
         \/ EndTimeout(p)
         \/ EndCancel(p)
         \/ CleanUp(p)
  PROVE  SInv'
<1>1. /\ Shape /\ PlaceOK(p) /\ pc[p] # "idle" /\ nops[p] > 0 /\ Cur(p) \in Op /\ Cur(p)' = Cur(p)
      /\ (~Unclaimed(Cur(p)) => lin[Cur(p)].st # "pending")
  BY InCall DEF SInv, Shape, Withdraw, Unregister, EndTimeout, EndCancel, CleanUp, DropFrom,
     Selecting, Cur, goVars, Waiters
<1>2. /\ UNCHANGED <<goVars, waiters, hand, wake, order, at>>
      /\ (lock' = lock \/ lock' = Unlocked(p))
      /\ (res' = res \/ \E out : res' = [res EXCEPT ![p] = out])
      /\ (left' = left \/ \E S : left' = [left EXCEPT ![p] = S])
  BY DEF Withdraw, Unregister, EndTimeout, EndCancel, CleanUp, DropFrom, Return, selVars
<1>3. \/ pc[p] \in Gone /\ (pc' = pc \/ pc' = [pc EXCEPT ![p] = "idle"])
      \/ pc[p] = "expired" /\ (pc' = pc \/ pc' = [pc EXCEPT ![p] = "parked"])
  BY DEF Withdraw, Unregister, EndTimeout, EndCancel, CleanUp, DropFrom, Return, Selecting, Gone
<1>4. ChannelsFit(p)
  <2>1. PICK c : /\ CanLock(p, c)
                 /\ \/ /\ recvQ' = [recvQ EXCEPT ![c] = Dropped(@, Cur(p))]
                       /\ sendQ' = [sendQ EXCEPT ![c] = Dropped(@, Cur(p))]
                    \/ /\ recvQ' = [recvQ EXCEPT ![c] = Without(recvQ[c], Cur(p))]
                       /\ sendQ' = [sendQ EXCEPT ![c] = Without(sendQ[c], Cur(p))]
    BY DEF Withdraw, Unregister, EndTimeout, EndCancel, CleanUp, DropFrom
  <2> QED
    BY <1>1, <1>2, <2>1, ChannelDropped DEF goVars
<1>5. LocksFit(p)
  BY <1>1, <1>2, LocksFacts
<1>6. Bystanders(p) /\ Domains' /\ wake' \in [Procs -> Seq(Entry)] /\ From(wake[p], wake'[p])
  BY <1>1, <1>2, <1>3, FromFacts DEF Bystanders, Domains, Shape, goVars
<1>7. pc'[p] \notin {"finish", "closefinish"} /\ StaysOpen(p) /\ PlaceOK(p)' /\ LockOK(p)'
  BY <1>1, <1>2, <1>3
  DEF PlaceOK, LockOK, StaysOpen, Shape, Early, Open, Gone, goVars, waiters, Unclaimed
<1> QED
  BY <1>1, <1>2, <1>4, <1>5, <1>6, <1>7, MoveInv DEF goVars, waiters


-----------------------------------------------------------------------------
(* p wins the commit() of a live entry: its caller will learn theirs.      *)
LEMMA ClaimInv ==
  ASSUME SInv, NEW p \in Procs, NEW e \in Entry, Unclaimed(e.w),
         NEW dir, NEW c, AtCase(e, dir, c),
         NEW theirs, NEW v, Fits(e.i, theirs, dir, v), NEW out,
         index' = [index EXCEPT ![e.w] = e.i],
         hand' = [hand EXCEPT ![p] = [w |-> e.w, v |-> v, out |-> out]],
         \/ /\ pc[p] \in Early /\ pc' = [pc EXCEPT ![p] = "finish"] /\ out.st # "pending"
            /\ lin' = [lin EXCEPT ![Cur(p)] = out, ![e.w] = theirs]
         \/ /\ pc[p] = "closing" /\ pc' = [pc EXCEPT ![p] = "closefinish"]
            /\ lin' = [lin EXCEPT ![e.w] = theirs],
         UNCHANGED <<nops, call, value, released, res, selVars>>,
         ChannelsFit(p), LocksFit(p), wake' \in [Procs -> Seq(Entry)], From(wake[p], wake'[p]),
         \A q \in Procs \ {p} : wake'[q] = wake[q]
  PROVE  SInv'
<1>1. /\ Shape /\ LiveEntries /\ LiveSnapshots /\ Waiters /\ Delivered /\ NoMissedMatch
      /\ PlaceOK(p) /\ pc[p] # "idle" /\ pc[p] \notin Open
  BY DEF SInv, Early, Open
<1>2. PICK q \in Procs \ {p} : e.w = Cur(q) /\ e.w[1] = q /\ pc[q] \in Open /\ Dir(q, e.i) = dir
  BY <1>1 DEF AtCase
<1>3. /\ e.w \in Op /\ e.i \in Nat /\ e.i # NoIndex /\ nops[p] > 0 /\ nops[q] > 0
      /\ Cur(p) \in Op /\ Cur(p)[1] = p /\ Cur(p)' = Cur(p)
  <2>1. e.w \in Op /\ e.i \in Nat /\ e.i # NoIndex
    BY DEF Entry, NoIndex
  <2>2. nops[p] > 0 /\ nops[q] > 0
    BY <1>1, <1>2 DEF Shape, Open
  <2>3. Cur(p) \in Op /\ Cur(p)[1] = p
    BY <1>1, <2>2, InCall
  <2> QED
    BY <2>1, <2>2, <2>3 DEF Cur
<1>4. theirs.st # "pending"
  BY DEF Fits, Outcome
<1>5. /\ index'[e.w] = e.i /\ lin'[e.w] = theirs
      /\ \A u \in Op : u # e.w => index'[u] = index[u]
      /\ \A u \in Op : u # e.w /\ u # Cur(p) => lin'[u] = lin[u]
      /\ pc[p] = "closing" => \A u \in Op : u # e.w => lin'[u] = lin[u]
      /\ pc[p] \in Early => lin'[Cur(p)] = out
  BY <1>1, <1>2, <1>3 DEF Shape, Early
<1>6. Bystanders(p) /\ Domains'
  BY <1>1 DEF Bystanders, Domains, Shape, selVars
<1>7. Decided
  BY <1>1, <1>5 DEF Decided, Kept, PlaceOK, Unclaimed
<1>8. LeftAlone(p)
  <2>1. ASSUME NEW r \in Procs \ {p}, nops[r] > 0, r # q PROVE Kept(Cur(r))
    <3>1. Cur(r) \in Op /\ Cur(r)[1] = r
      BY <1>1, <2>1, InCall
    <3> QED
      BY <1>2, <1>3, <1>5, <2>1, <3>1 DEF Kept
  <2> QED
    BY <1>2, <1>3, <1>5, <2>1 DEF LeftAlone
<1>9. Frame(p) /\ StaysOpen(p) /\ StaysClosed
  BY <1>1, <1>6, <1>7, <1>8 DEF Frame, Respects, ChannelsFit, LocksFit, StaysOpen, StaysClosed, Room
<1>10. Shape'
  <2>1. index' \in [Op -> Nat \cup {NoIndex, TimeoutIndex}] /\ DOMAIN lin' = Op /\ DOMAIN hand' = Procs
    BY <1>1, <1>3 DEF Shape
  <2>2. \A r \in Procs : pc'[r] # "idle" => nops'[r] > 0 /\ IsCall(call'[r])
    BY <1>1, <1>3 DEF Shape, Bystanders
  <2> QED
    BY <1>1, <1>6, <2>1, <2>2 DEF Shape, ChannelsFit, LocksFit, Domains
<1>11. LiveEntries' /\ LiveSnapshots'
  BY <1>1, <1>9, LiveEntriesStep, LiveSnapshotsStep DEF ChannelsFit
<1>12. Waiters'
  <2>1. \A r \in Procs : nops'[r] >= nops[r]
    BY <1>1, ChanAssumption DEF Shape
  <2>2. ASSUME NEW r \in Procs, NEW n \in 1..MaxOps, n > nops'[r]
        PROVE  index'[<<r, n>>] = index[<<r, n>>]
    <3>1. <<r, n>> \in Op /\ <<r, n>> # e.w
      BY <1>1, <1>2, <2>2, ChanAssumption DEF Op, Cur, Shape
    <3> QED
      BY <1>5, <3>1
  <2>3. \A u \in Op : index'[u] # NoIndex => ~Unclaimed(u) \/ lin'[u].st # "pending"
    BY <1>4, <1>5 DEF Unclaimed
  <2> QED
    BY <1>1, <1>9, <1>10, <2>1, <2>2, <2>3, WaitersStep
<1>13. Delivered'
  <2>1. hand'[p].w = e.w /\ hand'[p].v = v
    BY <1>1 DEF Shape
  <2>2. Dir(q, e.i)' = dir
    BY <1>2 DEF Dir
  <2>3. Learns(hand[p].w, hand[p].v)'
    BY <1>2, <1>5, <2>1, <2>2 DEF Learns, Dir
  <2>4. \A r \in Finishing' \ {p} : r \in Finishing /\ hand'[r] = hand[r]
    BY <1>6 DEF Finishing, Bystanders
  <2> QED
    BY <1>1, <1>3, <1>5, <1>9, <1>10, <2>1, <2>3, <2>4, DeliveredStep
<1>14. NoMissedMatch'
  BY <1>1, <1>7, <1>10, MatchedStep DEF ChannelsFit
<1>15. PlaceOK(p)' /\ LockOK(p)'
  <2>1. /\ pc[p] \in Early => pc'[p] = "finish" /\ lin'[Cur(p)] = out /\ hand'[p].out = out
        /\ pc[p] = "closing" => pc'[p] = "closefinish" /\ lin'[Cur(p)] = lin[Cur(p)]
    BY <1>1, <1>2, <1>3, <1>5 DEF Shape, Early
  <2> QED
    BY <1>1, <1>3, <2>1 DEF PlaceOK, LockOK, Early, Open, Gone
<1> QED
  BY <1>9, <1>10, <1>11, <1>12, <1>13, <1>14, <1>15, StepInv


(* The rest of a queue is from it.                                         *)
LEMMA AfterFrom ==
  ASSUME NEW q \in Seq(Entry), NEW j \in DOMAIN q
  PROVE  /\ q[j] \in Entry /\ After(q, j) \in Seq(Entry)
         /\ From(q, After(q, j))
BY AfterProperties, ElementOfSeq DEF From

LEMMA QueueAdvances ==
  ASSUME Shape, NEW p, NEW c \in Chans, CanLock(p, c), closed' = closed,
         buf' = buf \/ \E b \in Seq(Op) : buf' = [buf EXCEPT ![c] = b],
         \/ sendQ' = sendQ /\ \E j \in DOMAIN recvQ[c] : recvQ' = [recvQ EXCEPT ![c] = After(recvQ[c], j)]
         \/ recvQ' = recvQ /\ \E j \in DOMAIN sendQ[c] : sendQ' = [sendQ EXCEPT ![c] = After(sendQ[c], j)],
         Room(c)
  PROVE  ChannelsFit(p)
<1>1. recvQ[c] \in Seq(Entry) /\ sendQ[c] \in Seq(Entry)
  BY DEF Shape
<1>2. /\ \A j \in DOMAIN recvQ[c] : After(recvQ[c], j) \in Seq(Entry) /\ From(recvQ[c], After(recvQ[c], j))
      /\ \A j \in DOMAIN sendQ[c] : After(sendQ[c], j) \in Seq(Entry) /\ From(sendQ[c], After(sendQ[c], j))
  BY <1>1, AfterFrom
<1>3. buf' \in [Chans -> Seq(Op)] /\ \A d \in Chans \ {c} : buf'[d] = buf[d]
  <2>1. buf \in [Chans -> Seq(Op)]
    BY DEF Shape
  <2> QED
    BY <2>1
<1>4. /\ recvQ' \in [Chans -> Seq(Entry)] /\ sendQ' \in [Chans -> Seq(Entry)]
      /\ From(recvQ[c], recvQ'[c]) /\ From(sendQ[c], sendQ'[c])
      /\ \A d \in Chans \ {c} : recvQ'[d] = recvQ[d] /\ sendQ'[d] = sendQ[d]
  <2>1. recvQ \in [Chans -> Seq(Entry)] /\ sendQ \in [Chans -> Seq(Entry)]
    BY DEF Shape
  <2>2. CASE sendQ' = sendQ
    BY <1>2, <2>1, <2>2, FromFacts
  <2>3. CASE recvQ' = recvQ
    BY <1>2, <2>1, <2>3, FromFacts
  <2> QED
    BY <2>2, <2>3
<1>5. QueuesFrom
  BY <1>4, FromFacts DEF QueuesFrom
<1>6. \A d \in Chans : Room(d)
  BY <1>3 DEF Room
<1> QED
  BY <1>3, <1>4, <1>5, <1>6 DEF ChannelsFit, CanLock

LEMMA TakesLockFits ==
  ASSUME Shape, NEW p \in Procs, NEW c \in Chans, CanLock(p, c), lock' = [lock EXCEPT ![c] = p]
  PROVE  LocksFit(p)
BY DEF Shape, CanLock, LocksFit

LEMMA SendHandoffKeeps ==
  ASSUME SInv, NEW p \in Procs, pc[p] \in Early, NEW i, NEW c \in Chans,
         UNCHANGED selVars, SendHandoff(p, i, c)
  PROVE  SInv'
<1>1. PICK j \in DOMAIN recvQ[c] :
        /\ FirstLive(recvQ[c], j)
        /\ LET e == recvQ[c][j]
           IN  Commit(p, e, Outcome("ok", e.i, Cur(p)), Cur(p), Outcome("ok", i, Unset))
        /\ recvQ' = [recvQ EXCEPT ![c] = After(recvQ[c], j)]
  BY DEF SendHandoff
<1>2. PICK e : e = recvQ[c][j]
  OBVIOUS
<1>3. Shape /\ nops[p] > 0 /\ Cur(p) \in Op /\ recvQ[c] \in Seq(Entry)
  BY InCall DEF SInv, Shape, Early
<1>4. e \in Entry /\ Unclaimed(e.w) /\ AtCase(e, "recv", c)
  BY <1>1, <1>2, <1>3, AfterFrom DEF FirstLive, SInv, LiveEntries
<1>5. Fits(e.i, Outcome("ok", e.i, Cur(p)), "recv", Cur(p))
  BY <1>3, <1>4, ChanAssumption, MarkerAssumption DEF Fits, Entry
<1>6. ChannelsFit(p) /\ LocksFit(p)
  BY <1>1, <1>3, QueueAdvances, TakesLockFits DEF SendHandoff, Polls, Room
<1>7. Outcome("ok", i, Unset).st # "pending"
  BY DEF Outcome
<1>8. /\ wake' \in [Procs -> Seq(Entry)] /\ From(wake[p], wake'[p])
      /\ UNCHANGED <<nops, call, value, released, res, wake, selVars>>
  BY <1>3, FromFacts DEF SendHandoff, Shape
<1> QED
  BY <1>1, <1>2, <1>4, <1>5, <1>6, <1>7, <1>8, ClaimInv DEF Commit

LEMMA RecvFromSenderKeeps ==
  ASSUME SInv, NEW p \in Procs, pc[p] \in Early, NEW i, NEW c \in Chans,
         UNCHANGED selVars, RecvFromSender(p, i, c)
  PROVE  SInv'
<1>1. PICK j \in DOMAIN sendQ[c] :
        /\ FirstLive(sendQ[c], j)
        /\ LET e == sendQ[c][j]
           IN  Commit(p, e, Outcome("ok", e.i, Unset), SendOk, Outcome("ok", i, e.w))
        /\ sendQ' = [sendQ EXCEPT ![c] = After(sendQ[c], j)]
  BY DEF RecvFromSender
<1>2. PICK e : e = sendQ[c][j]
  OBVIOUS
<1>3. Shape /\ nops[p] > 0 /\ Cur(p) \in Op /\ sendQ[c] \in Seq(Entry)
  BY InCall DEF SInv, Shape, Early
<1>4. e \in Entry /\ Unclaimed(e.w) /\ AtCase(e, "send", c)
  BY <1>1, <1>2, <1>3, AfterFrom DEF FirstLive, SInv, LiveEntries
<1>5. Fits(e.i, Outcome("ok", e.i, Unset), "send", SendOk)
  BY <1>4, MarkerAssumption DEF Fits, Entry
<1>6. ChannelsFit(p) /\ LocksFit(p)
  BY <1>1, <1>3, QueueAdvances, TakesLockFits DEF RecvFromSender, Polls, Room
<1>7. Outcome("ok", i, e.w).st # "pending"
  BY DEF Outcome
<1>8. /\ wake' \in [Procs -> Seq(Entry)] /\ From(wake[p], wake'[p])
      /\ UNCHANGED <<nops, call, value, released, res, wake, selVars>>
  BY <1>3, FromFacts DEF RecvFromSender, Shape
<1> QED
  BY <1>1, <1>2, <1>4, <1>5, <1>6, <1>7, <1>8, ClaimInv DEF Commit

LEMMA RecvTakePromoteKeeps ==
  ASSUME SInv, NEW p \in Procs, pc[p] \in Early, NEW i, NEW c \in Chans,
         UNCHANGED selVars, RecvTakePromote(p, i, c)
  PROVE  SInv'
<1>1. PICK j \in DOMAIN sendQ[c] :
        /\ FirstLive(sendQ[c], j)
        /\ LET e == sendQ[c][j]
           IN  /\ Commit(p, e, Outcome("ok", e.i, Unset), SendOk, Outcome("ok", i, Head(buf[c])))
               /\ buf' = [buf EXCEPT ![c] = Append(Tail(buf[c]), e.w)]
        /\ sendQ' = [sendQ EXCEPT ![c] = After(sendQ[c], j)]
  BY DEF RecvTakePromote
<1>2. PICK e : e = sendQ[c][j]
  OBVIOUS
<1>3. Shape /\ nops[p] > 0 /\ Cur(p) \in Op /\ sendQ[c] \in Seq(Entry) /\ buf[c] \in Seq(Op)
  BY InCall DEF SInv, Shape, Early
<1>4. e \in Entry /\ Unclaimed(e.w) /\ AtCase(e, "send", c)
  BY <1>1, <1>2, <1>3, AfterFrom DEF FirstLive, SInv, LiveEntries
<1>5. Fits(e.i, Outcome("ok", e.i, Unset), "send", SendOk)
  BY <1>4, MarkerAssumption DEF Fits, Entry
<1>6. ChannelsFit(p) /\ LocksFit(p)
  <2>1. PICK b : b = Append(Tail(buf[c]), e.w)
    OBVIOUS
  <2>2. buf[c] # <<>> /\ buf' = [buf EXCEPT ![c] = b]
    BY <1>1, <1>2, <2>1 DEF RecvTakePromote
  <2>3. b \in Seq(Op) /\ Len(b) = Len(buf[c])
    BY <1>3, <1>4, <2>1, <2>2, HeadTailProperties, AppendProperties, LenProperties DEF Entry
  <2>4. buf'[c] = b
    BY <1>3, <2>2 DEF Shape
  <2>5. Room(c)
    BY <1>3, <2>2, <2>3, <2>4, LenProperties DEF Room
  <2> QED
    BY <1>1, <1>3, <2>2, <2>3, <2>5, QueueAdvances, TakesLockFits DEF RecvTakePromote, Polls
<1>7. Outcome("ok", i, Head(buf[c])).st # "pending"
  BY DEF Outcome
<1>8. /\ wake' \in [Procs -> Seq(Entry)] /\ From(wake[p], wake'[p])
      /\ UNCHANGED <<nops, call, value, released, res, wake, selVars>>
  BY <1>3, FromFacts DEF RecvTakePromote, Shape
<1> QED
  BY <1>1, <1>2, <1>4, <1>5, <1>6, <1>7, <1>8, ClaimInv DEF Commit

LEMMA PollKeeps ==
  ASSUME SInv, NEW p \in Procs, pc[p] \in Early, NEW i, NEW c \in Chans,
         UNCHANGED selVars, PollHit(p, i, c)
  PROVE  SInv'
BY SimplePollInv, SendHandoffKeeps, RecvTakePromoteKeeps, RecvFromSenderKeeps DEF PollHit

(* close() completes a waiter of its snapshot.                             *)
LEMMA CloseCommitKeeps ==
  ASSUME SInv, NEW p \in Procs, UNCHANGED selVars, CloseCommit(p)
  PROVE  SInv'
<1>1. PICK j \in DOMAIN wake[p] :
        /\ FirstLive(wake[p], j)
        /\ LET e == wake[p][j]
           IN  /\ index' = [index EXCEPT ![e.w] = e.i]
               /\ lin' = [lin EXCEPT ![e.w] = Outcome("closed", e.i, Unset)]
               /\ hand' = [hand EXCEPT ![p] = [w |-> e.w, v |-> Closed, out |-> NoOutcome]]
        /\ wake' = [wake EXCEPT ![p] = After(wake[p], j)]
  BY DEF CloseCommit
<1>2. PICK e : e = wake[p][j]
  OBVIOUS
<1>3. Shape /\ wake[p] \in Seq(Entry)
  BY DEF SInv, Shape
<1>4. e \in Entry /\ Unclaimed(e.w) /\ Refusing(e)
  BY <1>1, <1>2, <1>3, AfterFrom DEF FirstLive, SInv, LiveSnapshots
<1>5. PICK c, dir : AtCase(e, dir, c)
  BY <1>4 DEF Refusing
<1>6. Fits(e.i, Outcome("closed", e.i, Unset), dir, Closed)
  BY <1>4, MarkerAssumption DEF Fits, Entry
<1>7. ChannelsFit(p) /\ LocksFit(p)
  BY <1>3, ChannelsSame, LocksFacts DEF CloseCommit
<1>8. /\ wake' \in [Procs -> Seq(Entry)] /\ From(wake[p], wake'[p])
      /\ \A q \in Procs \ {p} : wake'[q] = wake[q]
  BY <1>1, <1>3, AfterFrom DEF Shape
<1>9. /\ UNCHANGED <<nops, call, value, released, res, selVars>>
      /\ pc[p] = "closing" /\ pc' = [pc EXCEPT ![p] = "closefinish"]
  BY DEF CloseCommit
<1> QED
  BY <1>1, <1>2, <1>4, <1>5, <1>6, <1>7, <1>8, <1>9, ClaimInv


(* finish(), also one that raises: the value is there, its caller free.    *)
LEMMA FinishKeeps ==
  ASSUME SInv, NEW p \in Procs,
         ((Finish(p) \/ CloseFinish(p)) /\ UNCHANGED selVars) \/ FinishRaises(p)
  PROVE  SInv'
<1>1. /\ Shape /\ LiveEntries /\ LiveSnapshots /\ Waiters /\ Delivered /\ NoMissedMatch
      /\ PlaceOK(p) /\ p \in Finishing /\ nops[p] > 0 /\ Cur(p)' = Cur(p)
  BY DEF SInv, Finish, CloseFinish, FinishRaises, Finishing, Shape, Cur, goVars
<1>2. /\ value' = [value EXCEPT ![hand[p].w] = hand[p].v]
      /\ released' = [released EXCEPT ![hand[p].w] = TRUE]
      /\ hand' = [hand EXCEPT ![p] = NoHand]
      /\ UNCHANGED <<goVars, recvQ, sendQ, index, selVars>>
      /\ (wake' = wake \/ wake' = [wake EXCEPT ![p] = <<>>])
      /\ (lock' = lock \/ lock' = Unlocked(p))
      /\ (res' = res \/ \E out : res' = [res EXCEPT ![p] = out])
      /\ \/ pc' = [pc EXCEPT ![p] = "idle"]
         \/ pc[p] = "closefinish" /\ pc' = [pc EXCEPT ![p] = "closing"]
  BY DEF Finish, CloseFinish, FinishRaises, Return
<1>3. Bystanders(p) /\ Domains' /\ wake' \in [Procs -> Seq(Entry)] /\ From(wake[p], wake'[p])
  <2>1. /\ wake' \in [Procs -> Seq(Entry)] /\ From(wake[p], wake'[p])
        /\ \A q \in Procs \ {p} : wake'[q] = wake[q]
    BY <1>1, <1>2, WakeFacts
  <2>2. Bystanders(p) /\ Domains'
    BY <1>1, <1>2, <2>1 DEF Bystanders, Domains, Shape, goVars, selVars
  <2> QED
    BY <2>1, <2>2
<1>4. ChannelsFit(p) /\ LocksFit(p)
  BY <1>1, <1>2, ChannelsSame, LocksFacts DEF goVars
<1>5. Frame(p) /\ StaysOpen(p) /\ StaysClosed
  BY <1>1, <1>2, <1>3, <1>4
  DEF Frame, Respects, Decided, LeftAlone, Kept, ChannelsFit, LocksFit, StaysOpen, StaysClosed,
      Finishing, Open, goVars
<1>6. Shape'
  <2>1. DOMAIN value' = Op /\ DOMAIN released' = Op /\ DOMAIN hand' = Procs
    BY <1>1, <1>2 DEF Shape
  <2>2. \A q \in Procs : pc'[q] # "idle" => nops'[q] > 0 /\ IsCall(call'[q])
    BY <1>1, <1>2 DEF Shape, goVars
  <2> QED
    BY <1>1, <1>2, <1>3, <1>4, <2>1, <2>2 DEF Shape, ChannelsFit, LocksFit, Domains, goVars
<1>7. LiveEntries' /\ LiveSnapshots'
  BY <1>1, <1>3, <1>4, <1>5, LiveEntriesStep, LiveSnapshotsStep DEF ChannelsFit
<1>8. hand[p].w \in Op /\ ~Unclaimed(hand[p].w)
  BY <1>1 DEF Delivered
<1>9. Waiters'
  <2>1. \A q \in Procs : nops'[q] >= nops[q]
    BY <1>1, <1>2, ChanAssumption DEF Shape, goVars
  <2>2. \A w \in Op : released'[w] => released[w] \/ ~Unclaimed(w)
    BY <1>1, <1>2, <1>8 DEF Shape
  <2> QED
    BY <1>1, <1>2, <1>5, <1>6, <2>1, <2>2, WaitersStep DEF Waiters, Unclaimed
<1>10. Delivered'
  <2>1. ASSUME NEW q \in Procs, nops[q] > 0, released'[Cur(q)]
        PROVE  \/ released[Cur(q)] /\ value'[Cur(q)] = value[Cur(q)]
               \/ ~Unclaimed(Cur(q)) /\ Learns(Cur(q), value'[Cur(q)])
    <3>1. Cur(q) \in Op /\ Cur(q)[1] = q
      BY <1>1, <2>1, InCall
    <3>2. CASE Cur(q) = hand[p].w
      <4>1. value'[Cur(q)] = hand[p].v
        BY <1>1, <1>2, <3>1, <3>2 DEF Shape
      <4>2. Learns(Cur(q), hand[p].v)
        BY <1>1, <3>1, <3>2 DEF Delivered
      <4> QED
        BY <1>8, <3>2, <4>1, <4>2
    <3>3. CASE Cur(q) # hand[p].w
      BY <1>1, <1>2, <2>1, <3>1, <3>3 DEF Shape
    <3> QED
      BY <3>2, <3>3
  <2>2. \A r \in Finishing' : r \in Finishing /\ hand'[r] = hand[r]
    BY <1>1, <1>2 DEF Finishing, Shape
  <2> QED
    BY <1>1, <1>2, <1>5, <1>6, <2>1, <2>2, DeliveredStep DEF goVars
<1>11. NoMissedMatch'
  BY <1>1, <1>4, <1>5, <1>6, MatchedStep DEF ChannelsFit, Frame
<1>12. PlaceOK(p)' /\ LockOK(p)'
  BY <1>1, <1>2
  DEF PlaceOK, LockOK, Finishing, Shape, Early, Open, Gone, goVars, Outcome
<1> QED
  BY <1>5, <1>6, <1>7, <1>9, <1>10, <1>11, <1>12, StepInv


-----------------------------------------------------------------------------
(* p parks: the queues hold what they held, and entries for p's cases.     *)
Mine(p, e, dir, c) ==
  /\ e.w = Cur(p) /\ e.i \in DOMAIN call[p].cases
  /\ Dir(p, e.i) = dir /\ Ch(p, e.i) = c

Grows(p, dir, c, q, r) == \A j \in DOMAIN r : (\E m \in DOMAIN q : r[j] = q[m]) \/ Mine(p, r[j], dir, c)

LEMMA EntryKeeps ==
  ASSUME NEW p \in Procs, Frame(p), pc[p] \notin Open, pc'[p] \in Open,
         UNCHANGED <<nops, call>>,
         NEW dir, NEW c, NEW q \in Seq(Entry), NEW r, Grows(p, dir, c, q, r),
         \A m \in DOMAIN q : Unclaimed(q[m].w) => AtCase(q[m], dir, c),
         NEW j \in DOMAIN r, index'[r[j].w] = NoIndex
  PROVE  AtCase(r[j], dir, c)'
<1>1. PICK e : e = r[j]
  OBVIOUS
<1>2. CASE \E m \in DOMAIN q : r[j] = q[m]
  <2>1. Decided
    BY DEF Frame
  <2>2. PICK m \in DOMAIN q : e = q[m] /\ index[q[m].w] = NoIndex
    <3>1. PICK m \in DOMAIN q : e = q[m]
      BY <1>1, <1>2
    <3>2. e.w \in Op
      BY <3>1, EntryWaiter
    <3> QED
      BY <1>1, <2>1, <3>1, <3>2 DEF Decided, Kept, Unclaimed
  <2>3. AtCase(e, dir, c) /\ index'[e.w] = NoIndex
    BY <1>1, <2>2 DEF Unclaimed
  <2>4. AtCase(e, dir, c)'
    BY <2>3, AtCaseStays DEF StaysOpen
  <2> QED
    BY <1>1, <2>4
<1>3. CASE Mine(p, r[j], dir, c)
  <2>1. Mine(p, e, dir, c) /\ e.w[1] = p
    BY <1>1, <1>3 DEF Mine, Cur
  <2>2. AtCase(e, dir, c)'
    BY <2>1 DEF Mine, AtCase, Cur, Dir, Ch
  <2> QED
    BY <1>1, <2>2
<1> QED
  BY <1>2, <1>3 DEF Grows

LEMMA EnterInv ==
  ASSUME SInv, NEW p \in Procs, pc[p] \in Early, pc' = [pc EXCEPT ![p] = "parked"],
         lock' = Unlocked(p),
         UNCHANGED <<goVars, waiters, hand, wake, res, order, at>>,
         left' = left \/ \E S : left' = [left EXCEPT ![p] = S],
         recvQ' \in [Chans -> Seq(Entry)], sendQ' \in [Chans -> Seq(Entry)],
         \A c \in Chans : lock[c] \notin {NoProc, p} => recvQ'[c] = recvQ[c] /\ sendQ'[c] = sendQ[c],
         \A c \in Chans : /\ Grows(p, "recv", c, recvQ[c], recvQ'[c])
                          /\ Grows(p, "send", c, sendQ[c], sendQ'[c]),
         NoMissedMatch'
  PROVE  SInv'
<1>1. /\ Shape /\ LiveEntries /\ LiveSnapshots /\ Waiters /\ Delivered /\ PlaceOK(p)
      /\ nops[p] > 0 /\ Cur(p) \in Op /\ Cur(p)' = Cur(p) /\ pc[p] \notin Open
  BY InCall DEF SInv, Shape, Early, Open, Cur, goVars
<1>2. LocksFit(p)
  BY <1>1, LocksFacts
<1>3. Frame(p)
  BY <1>1, <1>2
  DEF Frame, Bystanders, Respects, Decided, LeftAlone, Kept, LocksFit, Shape, goVars, waiters
<1>4. Shape'
  <2>1. \A q \in Procs : pc'[q] # "idle" => nops'[q] > 0 /\ IsCall(call'[q])
    BY <1>1 DEF Shape, Early, goVars
  <2> QED
    BY <1>1, <1>2, <2>1 DEF Shape, LocksFit, goVars, waiters
<1>5. LiveEntries'
  <2> SUFFICES ASSUME NEW c \in Chans
               PROVE  /\ \A j \in DOMAIN recvQ'[c] : index'[recvQ'[c][j].w] = NoIndex =>
                           AtCase(recvQ[c][j], "recv", c)'
                      /\ \A j \in DOMAIN sendQ'[c] : index'[sendQ'[c][j].w] = NoIndex =>
                           AtCase(sendQ[c][j], "send", c)'
    BY DEF LiveEntries, Unclaimed
  <2>1. /\ pc'[p] \in Open /\ nops' = nops /\ call' = call
        /\ recvQ[c] \in Seq(Entry) /\ sendQ[c] \in Seq(Entry)
        /\ \A m \in DOMAIN recvQ[c] : Unclaimed(recvQ[c][m].w) => AtCase(recvQ[c][m], "recv", c)
        /\ \A m \in DOMAIN sendQ[c] : Unclaimed(sendQ[c][m].w) => AtCase(sendQ[c][m], "send", c)
    BY <1>1 DEF LiveEntries, Shape, Open, goVars
  <2>2. PICK r, s : r = recvQ'[c] /\ s = sendQ'[c]
    OBVIOUS
  <2>3. Grows(p, "recv", c, recvQ[c], r) /\ Grows(p, "send", c, sendQ[c], s)
    BY <2>2
  <2>4. \A j \in DOMAIN r : index'[r[j].w] = NoIndex => AtCase(r[j], "recv", c)'
    BY <1>1, <1>3, <2>1, <2>3, EntryKeeps
  <2>5. \A j \in DOMAIN s : index'[s[j].w] = NoIndex => AtCase(s[j], "send", c)'
    BY <1>1, <1>3, <2>1, <2>3, EntryKeeps
  <2> QED
    BY <2>2, <2>4, <2>5
<1>6. LiveSnapshots'
  <2>1. StaysOpen(p) /\ StaysClosed /\ From(wake[p], wake'[p])
    BY <1>1, FromFacts DEF StaysOpen, StaysClosed, goVars
  <2> QED
    BY <1>1, <1>3, <2>1, LiveSnapshotsStep
<1>7. Waiters' /\ Delivered'
  <2>1. Quiet(p)
    BY <1>1 DEF Quiet, Finishing, Shape, Unclaimed, goVars, waiters
  <2> QED
    BY <1>1, <1>3, <1>4, <2>1, NoneArrives
<1>8. PlaceOK(p)' /\ LockOK(p)'
  BY <1>1 DEF PlaceOK, LockOK, Shape, Early, Open, Gone, Unclaimed, goVars, waiters
<1> QED
  BY <1>3, <1>4, <1>5, <1>6, <1>7, <1>8, StepInv


LEMMA ParkKeeps ==
  ASSUME SInv, NEW p \in Procs, Park(p), UNCHANGED selVars
  PROVE  SInv'
<1>1. PICK c \in Chans, dir \in {"send", "recv"} :
        /\ Polls(p, 0, dir, c)
        /\ Missed(dir, c)
        /\ LET e == NewEntry(p, 0)
           IN  /\ recvQ' = [recvQ EXCEPT ![c] = IF dir = "send" THEN <<>> ELSE Append(@, e)]
               /\ sendQ' = [sendQ EXCEPT ![c] = IF dir = "recv" THEN <<>> ELSE Append(@, e)]
  BY DEF Park
<1>2. PICK e : e = NewEntry(p, 0)
  OBVIOUS
<1>3. /\ Shape /\ nops[p] > 0 /\ Cur(p) \in Op /\ pc[p] \in Early
      /\ recvQ[c] \in Seq(Entry) /\ sendQ[c] \in Seq(Entry)
  BY InCall DEF SInv, Shape, Park, Early
<1>4. e \in Entry /\ Mine(p, e, dir, c)
  BY <1>1, <1>2, <1>3 DEF NewEntry, Entry, Mine, Polls, Park, Plain
<1>5. /\ Append(recvQ[c], e) \in Seq(Entry) /\ Append(sendQ[c], e) \in Seq(Entry)
      /\ \A q \in Seq(Entry) : \A j \in DOMAIN Append(q, e) :
           (\E m \in DOMAIN q : Append(q, e)[j] = q[m]) \/ Append(q, e)[j] = e
  BY <1>3, <1>4, AppendProperties
<1>6. /\ recvQ' \in [Chans -> Seq(Entry)] /\ sendQ' \in [Chans -> Seq(Entry)]
      /\ \A d \in Chans \ {c} : recvQ'[d] = recvQ[d] /\ sendQ'[d] = sendQ[d]
      /\ recvQ'[c] = (IF dir = "send" THEN <<>> ELSE Append(recvQ[c], e))
      /\ sendQ'[c] = (IF dir = "recv" THEN <<>> ELSE Append(sendQ[c], e))
  BY <1>1, <1>2, <1>3, <1>5 DEF Shape
<1>7. \A d \in Chans : /\ Grows(p, "recv", d, recvQ[d], recvQ'[d])
                       /\ Grows(p, "send", d, sendQ[d], sendQ'[d])
  <2>1. \A q, b, d : Grows(p, b, d, q, q) /\ Grows(p, b, d, q, <<>>)
    BY DEF Grows
  <2>2. \A q \in Seq(Entry) : Grows(p, dir, c, q, Append(q, e))
    BY <1>4, <1>5 DEF Grows
  <2>3. ASSUME NEW d \in Chans, d # c
        PROVE  Grows(p, "recv", d, recvQ[d], recvQ'[d]) /\ Grows(p, "send", d, sendQ[d], sendQ'[d])
    BY <1>6, <2>1, <2>3
  <2>4. Grows(p, "recv", c, recvQ[c], recvQ'[c])
    BY <1>1, <1>3, <1>6, <2>1, <2>2
  <2>5. Grows(p, "send", c, sendQ[c], sendQ'[c])
    BY <1>1, <1>3, <1>6, <2>1, <2>2
  <2> QED
    BY <2>3, <2>4, <2>5
<1>8. /\ UNCHANGED <<goVars, waiters, hand, wake, res, order, at>> /\ left' = left
      /\ pc' = [pc EXCEPT ![p] = "parked"] /\ lock' = Unlocked(p)
      /\ \A d \in Chans : lock[d] \notin {NoProc, p} => d # c
  BY <1>1 DEF Park, Polls, CanLock, selVars
<1>9. NoMissedMatch'
  <2>1. ASSUME NEW d \in Chans, d # c PROVE Matched(d)'
    <3>1. Matched(d)
      BY DEF SInv, NoMissedMatch, Matched
    <3>2. /\ recvQ'[d] = recvQ[d] /\ sendQ'[d] = sendQ[d] /\ buf'[d] = buf[d]
          /\ closed'[d] = closed[d] /\ index' = index
      BY <1>6, <1>8, <2>1 DEF goVars, waiters
    <3> QED
      BY <3>1, <3>2 DEF Matched, Unclaimed
  <2>2. Matched(c)'
    <3>1. ~closed'[c] /\ buf'[c] = buf[c] /\ index' = index
      BY <1>1, <1>8 DEF Missed, goVars, waiters
    <3>2. CASE dir = "send"
      BY <1>1, <1>6, <3>1, <3>2 DEF Missed, Matched
    <3>3. CASE dir = "recv"
      BY <1>1, <1>6, <3>1, <3>3 DEF Missed, Matched
    <3> QED
      BY <3>2, <3>3
  <2> QED
    BY <2>1, <2>2 DEF NoMissedMatch, Matched
<1> QED
  BY <1>3, <1>6, <1>7, <1>8, <1>9, EnterInv

(* Before it registers, a select found no case ready with every lock held. *)
LEMMA AllMissed ==
  ASSUME Shape, NEW p \in Procs, PlaceOK(p), LockOK(p), pc[p] = "recheck", ~MoreCases(p),
         NEW i \in DOMAIN call[p].cases
  PROVE  Missed(Dir(p, i), Ch(p, i)) /\ Ch(p, i) \in Chans /\ lock[Ch(p, i)] = p
<1>1. order[p] \in Orders(call[p].cases) /\ at[p] \in Nat \ {0} /\ IsCall(call[p])
  BY DEF PlaceOK, Early, Shape
<1>2. Cardinality(DOMAIN call[p].cases) \in Nat
  BY <1>1, FS_CardinalityType DEF IsCall
<1>3. PICK k \in DOMAIN order[p] : order[p][k] = i
  BY <1>1 DEF Orders
<1>4. k < at[p]
  <2>1. DOMAIN order[p] = 1..Cardinality(DOMAIN call[p].cases) /\ k \in Nat
    BY <1>1, <1>2, <1>3 DEF Orders
  <2> QED
    BY <1>1, <1>2, <1>3, <2>1 DEF MoreCases
<1>5. Ch(p, i) \in Chans /\ Ch(p, i) \in SelChans(p)
  BY <1>1 DEF IsCall, Case, Ch, SelChans
<1> QED
  BY <1>3, <1>4, <1>5 DEF LockOK

LEMMA RegisterKeeps == ASSUME SInv, NEW p \in Procs, Register(p) PROVE SInv'
<1>1. /\ Shape /\ LiveEntries /\ NoMissedMatch /\ PlaceOK(p) /\ LockOK(p)
      /\ pc[p] = "recheck" /\ pc[p] \in Early /\ ~MoreCases(p)
      /\ nops[p] > 0 /\ Cur(p) \in Op /\ IsCall(call[p])
  BY InCall DEF SInv, Shape, Register, Selecting, Early
<1>2. /\ UNCHANGED <<goVars, waiters, hand, wake, res, order, at>>
      /\ left' = [left EXCEPT ![p] = SelChans(p)]
      /\ pc' = [pc EXCEPT ![p] = "parked"] /\ lock' = Unlocked(p)
      /\ \A c \in Chans : /\ recvQ'[c] = recvQ[c] \o Entries(p, "recv", c)
                          /\ sendQ'[c] = sendQ[c] \o Entries(p, "send", c)
  BY DEF Register
<1>3. \A c \in Chans : recvQ[c] \in Seq(Entry) /\ sendQ[c] \in Seq(Entry)
  BY <1>1 DEF Shape
<1>4. \A c \in Chans :
        /\ recvQ'[c] \in Seq(Entry) /\ Grows(p, "recv", c, recvQ[c], recvQ'[c])
        /\ sendQ'[c] \in Seq(Entry) /\ Grows(p, "send", c, sendQ[c], sendQ'[c])
        /\ (~\E i \in DOMAIN call[p].cases : Ch(p, i) = c) => recvQ'[c] = recvQ[c] /\ sendQ'[c] = sendQ[c]
  <2>1. ASSUME NEW c \in Chans, NEW dir, NEW q \in Seq(Entry), NEW r, r = q \o Entries(p, dir, c)
        PROVE  /\ r \in Seq(Entry) /\ Grows(p, dir, c, q, r)
               /\ (~\E i \in DOMAIN call[p].cases : Ch(p, i) = c) => r = q
    <3>1. PICK s : s = Entries(p, dir, c)
      OBVIOUS
    <3>2. Cur(p) \in Op /\ IsCall(call[p])
      BY <1>1
    <3>3. /\ s \in Seq(Entry)
          /\ \A k \in DOMAIN s : \E i \in DOMAIN call[p].cases :
               s[k] = NewEntry(p, i) /\ Dir(p, i) = dir /\ Ch(p, i) = c
      BY <3>1, <3>2, EntriesProperties
    <3>4. \A k \in DOMAIN s : Mine(p, s[k], dir, c)
      BY <3>3 DEF Mine, NewEntry
    <3>5. Joins(q, s, q \o s)
      BY <3>3, ConcatJoins
    <3>6. q \o s \in Seq(Entry)
      BY <3>3, ConcatProperties
    <3>7. Grows(p, dir, c, q, q \o s)
      BY <3>4, <3>5 DEF Grows, Joins
    <3>8. ASSUME ~\E i \in DOMAIN call[p].cases : Dir(p, i) = dir /\ Ch(p, i) = c
          PROVE  q \o s = q
      <4>1. s = <<>>
        BY <3>3, <3>8, EmptySeq
      <4> QED
        BY <4>1, ConcatEmptySeq
    <3>9. r = q \o s
      BY <2>1, <3>1
    <3> QED
      BY <3>6, <3>7, <3>8, <3>9
  <2>2. ASSUME NEW c \in Chans
        PROVE  /\ recvQ'[c] \in Seq(Entry) /\ Grows(p, "recv", c, recvQ[c], recvQ'[c])
               /\ (~\E i \in DOMAIN call[p].cases : Ch(p, i) = c) => recvQ'[c] = recvQ[c]
    <3>1. recvQ[c] \in Seq(Entry) /\ recvQ'[c] = recvQ[c] \o Entries(p, "recv", c)
      BY <1>2, <1>3
    <3> QED
      BY <2>1, <3>1
  <2>3. ASSUME NEW c \in Chans
        PROVE  /\ sendQ'[c] \in Seq(Entry) /\ Grows(p, "send", c, sendQ[c], sendQ'[c])
               /\ (~\E i \in DOMAIN call[p].cases : Ch(p, i) = c) => sendQ'[c] = sendQ[c]
    <3>1. sendQ[c] \in Seq(Entry) /\ sendQ'[c] = sendQ[c] \o Entries(p, "send", c)
      BY <1>2, <1>3
    <3> QED
      BY <2>1, <3>1
  <2> QED
    BY <2>2, <2>3
<1>5. recvQ' \in [Chans -> Seq(Entry)] /\ sendQ' \in [Chans -> Seq(Entry)]
  BY <1>4 DEF Register
<1>6. \A i \in DOMAIN call[p].cases :
        Missed(Dir(p, i), Ch(p, i)) /\ Ch(p, i) \in Chans /\ lock[Ch(p, i)] = p
  BY <1>1, AllMissed
<1>7. \A c \in Chans : lock[c] \notin {NoProc, p} => recvQ'[c] = recvQ[c] /\ sendQ'[c] = sendQ[c]
  BY <1>4, <1>6
<1>8. NoMissedMatch'
  <2>1. SUFFICES ASSUME NEW c \in Chans PROVE Matched(c)'
    BY DEF NoMissedMatch, Matched
  <2>2. PICK q, r, s, t : q = recvQ[c] /\ r = recvQ'[c] /\ s = sendQ[c] /\ t = sendQ'[c]
    OBVIOUS
  <2>3. /\ Matched(c) /\ closed'[c] = closed[c] /\ buf'[c] = buf[c] /\ index' = index
        /\ Grows(p, "recv", c, q, r) /\ Grows(p, "send", c, s, t)
    BY <1>1, <1>2, <1>4, <2>2 DEF NoMissedMatch, Matched, goVars, waiters
  <2>4. closed'[c] => r = <<>> /\ t = <<>>
    BY <1>4, <1>6, <2>2, <2>3 DEF Matched, Missed
  <2>5. /\ \A j \in DOMAIN r : Mine(p, r[j], "recv", c) => Missed("recv", c) /\ r[j].w = Cur(p)
        /\ \A k \in DOMAIN t : Mine(p, t[k], "send", c) => Missed("send", c) /\ t[k].w = Cur(p)
    BY <1>6 DEF Mine
  <2>6. ASSUME NEW j \in DOMAIN r, Unclaimed(r[j].w)
        PROVE  /\ buf[c] = <<>>
               /\ \A k \in DOMAIN t : Unclaimed(t[k].w) => t[k].w = r[j].w
    <3>1. CASE \E m \in DOMAIN q : r[j] = q[m]
      <4>1. buf[c] = <<>> /\ ~Missed("send", c)
        BY <2>2, <2>3, <2>6, <3>1 DEF Matched, Missed, AllStale
      <4> QED
        BY <2>2, <2>3, <2>5, <2>6, <3>1, <4>1 DEF Grows, Matched
    <3>2. CASE Mine(p, r[j], "recv", c)
      <4>1. Missed("recv", c) /\ r[j].w = Cur(p)
        BY <2>5, <3>2
      <4> QED
        BY <2>2, <2>3, <2>5, <4>1 DEF Grows, Missed, AllStale
    <3> QED
      BY <2>3, <2>6, <3>1, <3>2 DEF Grows
  <2>7. ASSUME NEW k \in DOMAIN t, Unclaimed(t[k].w) PROVE Len(buf[c]) >= Cap[c]
    <3>1. CASE \E m \in DOMAIN s : t[k] = s[m]
      BY <2>2, <2>3, <2>7, <3>1 DEF Matched
    <3>2. CASE Mine(p, t[k], "send", c)
      BY <2>5, <3>2 DEF Missed
    <3> QED
      BY <2>3, <2>7, <3>1, <3>2 DEF Grows
  <2> QED
    BY <2>2, <2>3, <2>4, <2>6, <2>7 DEF Matched, Unclaimed
<1> QED
  BY <1>1, <1>2, <1>4, <1>5, <1>7, <1>8, EnterInv


(* close(): marks the channel and takes the snapshot of its queues.        *)
LEMMA CloseMarkKeeps ==
  ASSUME SInv, NEW p \in Procs, CloseMark(p), UNCHANGED selVars
  PROVE  SInv'
<1>1. PICK c \in Chans :
        /\ Polls(p, 0, "close", c)
        /\ ~closed[c]
        /\ closed' = [closed EXCEPT ![c] = TRUE]
        /\ wake' = [wake EXCEPT ![p] = recvQ[c] \o sendQ[c]]
        /\ recvQ' = [recvQ EXCEPT ![c] = <<>>]
        /\ sendQ' = [sendQ EXCEPT ![c] = <<>>]
  BY DEF CloseMark
<1>2. /\ Shape /\ LiveEntries /\ LiveSnapshots /\ Waiters /\ Delivered /\ NoMissedMatch
      /\ PlaceOK(p) /\ pc[p] \in Early /\ pc[p] \notin Open
      /\ nops[p] > 0 /\ Cur(p) \in Op /\ Cur(p)' = Cur(p) /\ Unclaimed(Cur(p))
      /\ recvQ[c] \in Seq(Entry) /\ sendQ[c] \in Seq(Entry)
  BY InCall DEF SInv, Shape, CloseMark, Early, Open, Cur, PlaceOK
<1>3. /\ lin' = [lin EXCEPT ![Cur(p)] = Outcome("done", 0, Unset)]
      /\ pc' = [pc EXCEPT ![p] = "closing"]
      /\ UNCHANGED <<buf, nops, call, lock, index, value, released, hand, res, order, at, left>>
  BY DEF CloseMark, waiters, selVars
<1>4. /\ recvQ' \in [Chans -> Seq(Entry)] /\ sendQ' \in [Chans -> Seq(Entry)]
      /\ recvQ'[c] = <<>> /\ sendQ'[c] = <<>> /\ closed'[c]
      /\ \A d \in Chans \ {c} : /\ recvQ'[d] = recvQ[d] /\ sendQ'[d] = sendQ[d]
                                /\ closed'[d] = closed[d]
  BY <1>1, <1>2, EmptyQueueType DEF Shape
<1>5. wake' \in [Procs -> Seq(Entry)] /\ wake'[p] = recvQ[c] \o sendQ[c]
  BY <1>1, <1>2, ConcatProperties DEF Shape
<1>6. Frame(p)
  <2>1. Bystanders(p)
    BY <1>1, <1>2, <1>3 DEF Bystanders, Shape
  <2>2. Respects(p)
    BY <1>1, <1>3, <1>4 DEF Respects, Polls, CanLock
  <2>3. \A w \in Op : w # Cur(p) => Kept(w)
    BY <1>2, <1>3 DEF Kept, Shape
  <2>4. Decided
    BY <1>2, <2>3 DEF Decided
  <2>5. LeftAlone(p)
    <3>1. \A q \in Procs \ {p} : nops[q] > 0 => Cur(q) \in Op /\ Cur(q) # Cur(p)
      BY <1>2, InCall DEF Cur
    <3> QED
      BY <2>3, <3>1 DEF LeftAlone
  <2> QED
    BY <2>1, <2>2, <2>4, <2>5 DEF Frame
<1>7. Shape'
  <2>1. \A q \in Procs : pc'[q] # "idle" => nops'[q] > 0 /\ IsCall(call'[q])
    BY <1>2, <1>3 DEF Shape, Early
  <2> QED
    BY <1>1, <1>2, <1>3, <1>4, <1>5, <2>1 DEF Shape
<1>8. StaysOpen(p) /\ StaysClosed /\ QueuesFrom
  BY <1>2, <1>3, <1>4, FromFacts DEF StaysOpen, StaysClosed, QueuesFrom
<1>9. LiveEntries'
  BY <1>2, <1>6, <1>8, LiveEntriesStep
<1>10. LiveSnapshots'
  <2>1. ASSUME NEW q \in Procs \ {p}, NEW k \in DOMAIN wake'[q], index'[wake'[q][k].w] = NoIndex
        PROVE  Refusing(wake[q][k])'
    <3>1. From(wake[q], wake'[q])
      BY <1>6, FromFacts DEF Frame, Bystanders
    <3> QED
      BY <1>2, <1>6, <1>8, <2>1, <3>1, LiveSnapshotStep
  <2>2. ASSUME NEW k \in DOMAIN wake'[p], index'[wake'[p][k].w] = NoIndex
        PROVE  Refusing(wake[p][k])'
    <3>1. PICK e : e = wake'[p][k]
      OBVIOUS
    <3>2. \/ \E j \in DOMAIN recvQ[c] : e = recvQ[c][j]
          \/ \E j \in DOMAIN sendQ[c] : e = sendQ[c][j]
      <4>1. Joins(recvQ[c], sendQ[c], wake'[p])
        BY <1>2, <1>5, ConcatJoins
      <4> QED
        BY <2>2, <3>1, <4>1 DEF Joins
    <3>3. index[e.w] = NoIndex /\ index'[e.w] = NoIndex
      BY <1>3, <2>2, <3>1
    <3>4. AtCase(e, "send", c) \/ (AtCase(e, "recv", c) /\ buf[c] = <<>>)
      BY <1>2, <3>2, <3>3 DEF LiveEntries, NoMissedMatch, Unclaimed
    <3>5. \A dir : AtCase(e, dir, c) => AtCase(e, dir, c)'
      BY <1>6, <1>8, <3>3, AtCaseStays
    <3>6. Refusing(e)'
      BY <1>3, <1>4, <3>4, <3>5 DEF Refusing
    <3> QED
      BY <3>1, <3>6
  <2> QED
    BY <2>1, <2>2 DEF LiveSnapshots, Unclaimed
<1>11. Waiters' /\ Delivered'
  <2>1. Quiet(p)
    BY <1>2, <1>3 DEF Quiet, Finishing, Shape, Unclaimed
  <2> QED
    BY <1>2, <1>6, <1>7, <2>1, NoneArrives
<1>12. NoMissedMatch'
  <2>1. ASSUME NEW d \in Chans, d # c PROVE Matched(d)'
    <3>1. Matched(d)
      BY <1>2 DEF NoMissedMatch, Matched
    <3>2. /\ recvQ'[d] = recvQ[d] /\ sendQ'[d] = sendQ[d] /\ buf'[d] = buf[d]
          /\ closed'[d] = closed[d] /\ index' = index
      BY <1>3, <1>4, <2>1
    <3> QED
      BY <3>1, <3>2 DEF Matched, Unclaimed
  <2>2. Matched(c)'
    BY <1>4 DEF Matched
  <2> QED
    BY <2>1, <2>2 DEF NoMissedMatch, Matched
<1>13. PlaceOK(p)' /\ LockOK(p)'
  <2>1. pc'[p] = "closing" /\ lin'[Cur(p)] = Outcome("done", 0, Unset)
    BY <1>2, <1>3 DEF Shape
  <2> QED
    BY <1>2, <2>1 DEF PlaceOK, LockOK, Early, Open, Gone
<1> QED
  BY <1>6, <1>7, <1>9, <1>10, <1>11, <1>12, <1>13, StepInv


-----------------------------------------------------------------------------
(* A call starts.                                                          *)
LEMMA CallKeeps == ASSUME SInv, NEW p \in Procs, Call(p) PROVE SInv'
<1>1. /\ Shape /\ LiveEntries /\ LiveSnapshots /\ Waiters /\ Delivered /\ NoMissedMatch
      /\ pc[p] = "idle"
  BY DEF SInv, Call, Invoke
<1>2. PICK cl \in Calls[p], o \in Orders(call'[p].cases) :
        call' = [call EXCEPT ![p] = cl] /\ order' = [order EXCEPT ![p] = o]
  BY DEF Call, Invoke, NewCall
<1>3. PICK w : w = <<p, nops[p] + 1>>
  OBVIOUS
<1>4. /\ nops[p] < MaxOps /\ nops' = [nops EXCEPT ![p] = @ + 1]
      /\ lin' = [lin EXCEPT ![w] = Outcome("pending", NoIndex, Unset)]
      /\ pc' = [pc EXCEPT ![p] = "start"] /\ at' = [at EXCEPT ![p] = 1]
      /\ UNCHANGED <<closed, buf, recvQ, sendQ, lock, index, value, released, hand, wake, res, left>>
  BY <1>3 DEF Call, Invoke, NewCall, waiters
<1>5. /\ nops'[p] = nops[p] + 1 /\ nops' \in [Procs -> 0..MaxOps] /\ call'[p] = cl /\ IsCall(cl)
      /\ \A q \in Procs \ {p} : nops'[q] = nops[q]
      /\ nops[p] \in Nat /\ nops[p] + 1 \in 1..MaxOps
  BY <1>1, <1>2, <1>4, ChanAssumption DEF Shape
<1>6. w \in Op /\ w[1] = p /\ Cur(p)' = w /\ Unclaimed(w) /\ ~released[w]
  BY <1>1, <1>3, <1>5 DEF Op, Cur, Waiters, Unclaimed
<1>7. lin'[w].st = "pending" /\ \A u \in Op : u # w => Kept(u)
  BY <1>1, <1>4, <1>6 DEF Shape, Kept, Outcome
<1>8. Frame(p)
  <2>1. Bystanders(p)
    BY <1>1, <1>2, <1>4, <1>5 DEF Bystanders, Shape
  <2>2. Respects(p)
    BY <1>4 DEF Respects
  <2>3. Decided
    BY <1>6, <1>7 DEF Decided
  <2>4. LeftAlone(p)
    <3>1. \A q \in Procs \ {p} : nops[q] > 0 => Cur(q) \in Op /\ Cur(q) # w
      BY <1>1, <1>6, InCall DEF Cur
    <3> QED
      BY <1>7, <3>1 DEF LeftAlone
  <2> QED
    BY <2>1, <2>2, <2>3, <2>4 DEF Frame
<1>9. Shape'
  <2>1. \A q \in Procs : pc'[q] # "idle" => nops'[q] > 0 /\ IsCall(call'[q])
    BY <1>1, <1>2, <1>4, <1>5 DEF Shape
  <2> QED
    BY <1>1, <1>2, <1>4, <1>5, <2>1 DEF Shape
<1>10. /\ StaysOpen(p) /\ StaysClosed /\ QueuesFrom /\ From(wake[p], wake'[p])
       /\ \A c \in Chans : Room(c)
  BY <1>1, <1>4, FromFacts DEF StaysOpen, StaysClosed, QueuesFrom, Open, Room
<1>11. LiveEntries' /\ LiveSnapshots' /\ NoMissedMatch'
  BY <1>1, <1>4, <1>8, <1>9, <1>10, LiveEntriesStep, LiveSnapshotsStep, MatchedStep DEF Frame
<1>12. Waiters'
  <2>1. nops \in [Procs -> 0..MaxOps] /\ MaxOps \in Nat
    BY <1>1, ChanAssumption DEF Shape
  <2>2. \A q \in Procs : nops[q] \in Nat
    BY <2>1
  <2>3. \A q \in Procs : nops'[q] = nops[q] \/ nops'[q] = nops[q] + 1
    BY <1>5
  <2>4. \A q \in Procs : nops'[q] >= nops[q]
    BY <2>2, <2>3
  <2> QED
    BY <1>1, <1>4, <1>8, <1>9, <2>4, WaitersStep DEF Unclaimed
<1>13. Delivered'
  <2>1. ASSUME NEW q \in Procs, nops'[q] > 0, (released[Cur(q)])'
        PROVE  Learns(Cur(q), value[Cur(q)])'
    <3>1. q # p
      BY <1>4, <1>6, <2>1
    <3>2. Cur(q)' = Cur(q) /\ nops[q] > 0 /\ call'[q] = call[q]
      BY <1>5, <1>8, <2>1, <3>1 DEF Cur, Frame, Bystanders
    <3>3. /\ Cur(q) \in Op /\ Cur(q)[1] = q /\ ~Unclaimed(Cur(q))
          /\ Learns(Cur(q), value[Cur(q)])
      BY <1>1, <1>4, <2>1, <3>2, InCall DEF Delivered, Waiters
    <3>4. Kept(Cur(q))
      BY <1>8, <3>3 DEF Frame, Decided
    <3> QED
      BY <1>4, <3>2, <3>3, <3>4 DEF Learns, Dir, Kept
  <2>2. ASSUME NEW r \in Finishing'
        PROVE  /\ hand'[r].w \in Op /\ index'[hand'[r].w] # NoIndex
               /\ hand'[r].w = Cur(hand[r].w[1])' => Learns(hand[r].w, hand[r].v)'
    <3>1. r \in Finishing /\ hand'[r] = hand[r]
      BY <1>1, <1>4, <2>2 DEF Finishing, Shape
    <3>2. PICK u \in Op : /\ u = hand[r].w /\ ~Unclaimed(u) /\ u[1] \in Procs
                          /\ (u = Cur(u[1]) => Learns(u, hand[r].v))
      BY <1>1, <3>1 DEF Delivered, Op
    <3>3. u = Cur(u[1])' => u[1] # p
      BY <1>6, <3>2
    <3>4. u[1] # p => Cur(u[1])' = Cur(u[1]) /\ call'[u[1]] = call[u[1]]
      BY <1>5, <1>8, <3>2 DEF Cur, Frame, Bystanders
    <3>5. Kept(u)
      BY <1>8, <3>2 DEF Frame, Decided
    <3>6. u = Cur(u[1])' => Learns(u, hand[r].v)'
      BY <3>1, <3>2, <3>3, <3>4, <3>5 DEF Learns, Dir, Kept
    <3> QED
      BY <1>4, <3>1, <3>2, <3>6 DEF Unclaimed
  <2> QED
    BY <2>1, <2>2 DEF Delivered, Unclaimed
<1>14. PlaceOK(p)' /\ LockOK(p)'
  <2>1. pc'[p] = "start" /\ order'[p] = o /\ at'[p] = 1 /\ index'[w] = NoIndex
    BY <1>1, <1>2, <1>4, <1>6 DEF Shape, Unclaimed
  <2> QED
    BY <1>2, <1>6, <1>7, <2>1 DEF PlaceOK, LockOK, Early, Open, Gone, Unclaimed
<1> QED
  BY <1>8, <1>9, <1>11, <1>12, <1>13, <1>14, StepInv


-----------------------------------------------------------------------------
(* Nobody has called yet.                                                  *)
LEMMA InitKeeps == ASSUME SelectInit PROVE SInv
<1>1. /\ closed = [c \in Chans |-> FALSE] /\ buf = [c \in Chans |-> <<>>]
      /\ nops = [p \in Procs |-> 0] /\ pc = [p \in Procs |-> "idle"]
      /\ recvQ = [c \in Chans |-> <<>>] /\ sendQ = [c \in Chans |-> <<>>]
      /\ lock = [c \in Chans |-> NoProc] /\ wake = [p \in Procs |-> <<>>]
      /\ index = [w \in Op |-> NoIndex] /\ released = [w \in Op |-> FALSE]
  BY DEF SelectInit, Init, CallsInit
<1>2. /\ DOMAIN lin = Op /\ DOMAIN value = Op /\ DOMAIN call = Procs /\ DOMAIN hand = Procs
      /\ DOMAIN res = Procs /\ DOMAIN order = Procs /\ DOMAIN at = Procs /\ DOMAIN left = Procs
  BY DEF SelectInit, Init, CallsInit
<1>3. Shape
  BY <1>1, <1>2, ChanAssumption DEF Shape
<1>4. LiveEntries /\ LiveSnapshots /\ NoMissedMatch
  BY <1>1 DEF LiveEntries, LiveSnapshots, NoMissedMatch
<1>5. Waiters
  BY <1>1 DEF Waiters, Unclaimed, Op
<1>6. Delivered
  BY <1>1 DEF Delivered, Finishing
<1>7. \A p \in Procs : PlaceOK(p) /\ LockOK(p)
  BY <1>1 DEF PlaceOK, LockOK, Early, Open, Gone
<1> QED
  BY <1>3, <1>4, <1>5, <1>6, <1>7 DEF SInv

LEMMA StutterKeeps == ASSUME SInv, UNCHANGED allVars PROVE SInv'
<1>1. UNCHANGED <<closed, buf, nops, call, lin, recvQ, sendQ, lock, index, value, released, pc,
                  hand, wake, res, order, at, left>>
  BY DEF allVars, vars, goVars, waiters, selVars
<1>2. Shape'
  BY <1>1 DEF SInv, Shape
<1>3. /\ \A w : Unclaimed(w)' = Unclaimed(w)
      /\ \A p : Cur(p)' = Cur(p)
      /\ \A p, i : Dir(p, i)' = Dir(p, i) /\ Ch(p, i)' = Ch(p, i)
      /\ \A q : AllStale(q)' = AllStale(q)
  BY <1>1 DEF Unclaimed, Cur, Dir, Ch, AllStale
<1>4. \A e, dir, c : AtCase(e, dir, c)' = AtCase(e, dir, c)
  BY <1>1, <1>3 DEF AtCase
<1>5. LiveEntries' /\ LiveSnapshots'
  BY <1>1, <1>3, <1>4 DEF SInv, LiveEntries, LiveSnapshots, Refusing
<1>6. Waiters' /\ NoMissedMatch'
  BY <1>1, <1>3 DEF SInv, Waiters, NoMissedMatch
<1>7. Delivered'
  BY <1>1, <1>3 DEF SInv, Delivered, Finishing, Learns
<1>8. \A p \in Procs : PlaceOK(p)' /\ LockOK(p)'
  BY <1>1, <1>3 DEF SInv, PlaceOK, LockOK, SelChans, Missed
<1> QED
  BY <1>2, <1>5, <1>6, <1>7, <1>8 DEF SInv

(* A poll, of the plain operation or of a pass over the cases.             *)
LEMMA PollsKeep ==
  ASSUME SInv, NEW p \in Procs, (Poll(p) /\ UNCHANGED selVars) \/ PassHit(p)
  PROVE  SInv'
<1>1. pc[p] \in Early /\ UNCHANGED selVars /\ \E i, c : c \in Chans /\ PollHit(p, i, c)
  BY DEF Poll, PassHit, Selecting, Early
<1> QED
  BY <1>1, PollKeeps

(* The steps a thread makes between its call and the parking, and those of *)
(* close().                                                                *)
LEMMA StepKeeps ==
  ASSUME SInv, NEW p \in Procs, SelectStep(p)
  PROVE  SInv'
<1>1. CASE Step(p) /\ UNCHANGED selVars
  BY <1>1, PollsKeep, MissEndsInv, ParkKeeps, FinishKeeps, LookInv, GiveUpInv, WithdrawalInv,
     CloseMarkKeeps, CloseCommitKeeps, LeaveInv DEF Step
<1>2. CASE PassHit(p)
  BY <1>2, PollsKeep
<1>3. CASE PassMiss(p)
  BY <1>3, PassMissInv
<1>4. CASE TakeDefault(p)
  BY <1>4, MissEndsInv
<1>5. CASE StartLocking(p) \/ Acquire(p)
  BY <1>5, LockingInv
<1>6. CASE Register(p)
  BY <1>6, RegisterKeeps
<1>7. CASE SelectWake(p)
  BY <1>7, LookInv
<1>8. CASE Unregister(p)
  BY <1>8, WithdrawalInv
<1> QED
  BY <1>1, <1>2, <1>3, <1>4, <1>5, <1>6, <1>7, <1>8 DEF SelectStep

(* Nobody sleeps next to something that is ready, also when calls offer    *)
(* several cases on several channels: a select that parks has looked at    *)
(* every case again with all its channels locked.                          *)
THEOREM SelectStrandsNobody == SelectSpec => []NoMissedMatch
<1>1. SelectInit => SInv
  BY InitKeeps
<1>2. SInv /\ [SelectNext]_allVars => SInv'
  BY CallKeeps, StepKeeps, StutterKeeps DEF SelectNext
<1>3. SInv => NoMissedMatch
  BY DEF SInv
<1> QED
  BY <1>1, <1>2, <1>3, PTL DEF SelectSpec


-----------------------------------------------------------------------------
(* Tasks.                                                                  *)

(* What a task's place says of its future, its waiter and its result.      *)
TaskOK(p) ==
  LET w == Cur(p)
  IN  /\ pc[p] # "idle" => loopOpen
      /\ pc[p] = "cleanup" => future[w]
      /\ pc[p] = "expired" => ~Unclaimed(w)
      /\ nops[p] > 0 /\ call[p].wait # "timed" /\ future[w] => released[w]
      /\ pc[p] = "idle" /\ nops[p] > 0 /\ call[p].wait # "timed" =>
           res[p] = lin[w] \/ res[p].st = "cancelled"

FuturesOK == DOMAIN future = Op /\ \A w \in Op : future[w] => ~Unclaimed(w)

AInv == SInv /\ FuturesOK /\ \A p \in Tasks : TaskOK(p)

(* What a step of p does not do to others: they stay where they are, what  *)
(* they returned and did stays, and nobody is unclaimed again.             *)
StandStill(p) ==
  \A q \in Procs \ {p} :
    /\ pc'[q] = pc[q] /\ nops'[q] = nops[q] /\ call'[q] = call[q] /\ res'[q] = res[q]
    /\ pc[q] \notin Open /\ nops[q] > 0 => lin'[Cur(q)] = lin[Cur(q)]
Grown == \A w \in Op : /\ released[w] => released'[w]
                       /\ ~Unclaimed(w) => index'[w] # NoIndex

(* p returns what its operation did, or is still inside the call.          *)
Tells(p) == pc'[p] = "idle" => res'[p] = lin'[Cur(p)]

LEMMA FuturesStay ==
  ASSUME FuturesOK, Grown, future' = future
  PROVE  FuturesOK'
BY DEF FuturesOK, Grown, Unclaimed

LEMMA TaskStays ==
  ASSUME SInv, FuturesOK, NEW p, StandStill(p), Grown, loopOpen' = loopOpen,
         NEW q \in Procs \ {p}, TaskOK(q),
         nops[q] > 0 => future'[Cur(q)] = future[Cur(q)]
  PROVE  TaskOK(q)'
<1>1. Cur(q)' = Cur(q) /\ (nops[q] > 0 => Cur(q) \in Op)
  BY InCall DEF StandStill, Cur, SInv
<1>2. pc[q] # "idle" => nops[q] > 0
  BY DEF SInv, Shape
<1>3. pc'[q] = pc[q] /\ nops'[q] = nops[q] /\ call'[q] = call[q] /\ res'[q] = res[q]
  BY DEF StandStill
<1>4. pc[q] = "idle" /\ nops[q] > 0 => lin'[Cur(q)] = lin[Cur(q)]
  BY DEF StandStill, Open
<1>5. nops[q] > 0 => /\ released[Cur(q)] => released'[Cur(q)]
                     /\ ~Unclaimed(Cur(q)) => index'[Cur(q)] # NoIndex
  BY <1>1 DEF Grown
<1> QED
  BY <1>1, <1>2, <1>3, <1>4, <1>5 DEF TaskOK, Unclaimed

(* A task that stays in its call, or tells what happened.                  *)
LEMMA TaskGoesOn ==
  ASSUME SInv, NEW p \in Procs, TaskOK(p), pc[p] # "idle", Grown, Tells(p),
         UNCHANGED <<nops, call, future, loopOpen>>, pc'[p] \notin {"expired", "cleanup"}
  PROVE  TaskOK(p)'
<1>1. Cur(p)' = Cur(p) /\ Cur(p) \in Op /\ nops[p] > 0
  BY InCall DEF SInv, Shape, Cur
<1>2. released[Cur(p)] => released'[Cur(p)]
  BY <1>1 DEF Grown
<1> QED
  BY <1>1, <1>2 DEF TaskOK, Tells

(* Three kinds of steps.                                                   *)
LEMMA EndsTells ==
  ASSUME SInv, NEW p \in Procs, pc[p] # "idle", NEW out, TakeEffect(p, out),
         UNCHANGED <<nops, call, index, released>>
  PROVE  StandStill(p) /\ Grown /\ Tells(p) /\ pc'[p] = "idle"
<1>1. Shape /\ Cur(p) \in Op
  BY InCall DEF SInv, Shape
<1>2. \A q \in Procs \ {p} : Cur(q) # Cur(p)
  BY DEF Cur
<1> QED
  BY <1>1, <1>2 DEF TakeEffect, Return, StandStill, Grown, Tells, Shape, Unclaimed

LEMMA MovesStill ==
  ASSUME SInv, NEW p \in Procs, UNCHANGED <<nops, call, lin, index, released>>,
         NEW st, pc' = [pc EXCEPT ![p] = st] \/ (pc' = pc /\ st = pc[p]),
         res' = res \/ \E out : res' = [res EXCEPT ![p] = out]
  PROVE  StandStill(p) /\ Grown /\ pc'[p] = st
BY DEF SInv, Shape, StandStill, Grown, Unclaimed

LEMMA CommitsStill ==
  ASSUME SInv, NEW p \in Procs, pc[p] # "idle", NEW e \in Entry, NEW dir, NEW c, AtCase(e, dir, c),
         NEW st, pc' = [pc EXCEPT ![p] = st],
         NEW theirs, NEW out,
         index' = [index EXCEPT ![e.w] = e.i],
         \/ lin' = [lin EXCEPT ![Cur(p)] = out, ![e.w] = theirs]
         \/ lin' = [lin EXCEPT ![e.w] = theirs],
         UNCHANGED <<nops, call, released, res>>
  PROVE  StandStill(p) /\ Grown /\ pc'[p] = st
<1>1. Shape /\ e.w \in Op /\ e.i \in Nat
  BY DEF SInv, Entry
<1>2. ASSUME NEW q \in Procs \ {p}, pc[q] \notin Open, nops[q] > 0
      PROVE  lin'[Cur(q)] = lin[Cur(q)]
  <2>1. Cur(q) # Cur(p) /\ Cur(q) # e.w
    BY <1>2 DEF Cur, AtCase
  <2>2. Cur(q) \in Op
    BY <1>1, <1>2, InCall
  <2> QED
    BY <1>1, <2>1, <2>2 DEF Shape
<1>3. Grown
  BY <1>1 DEF Grown, Shape, Unclaimed, NoIndex
<1> QED
  BY <1>1, <1>2, <1>3 DEF StandStill, Shape


(* The steps tasks and threads have in common.                             *)
StaysInside(p) == pc'[p] \notin {"expired", "cleanup", "withdraw"}

LEMMA PollTasks ==
  ASSUME SInv, NEW p \in Procs, pc[p] \in Early, NEW i, NEW c \in Chans, PollHit(p, i, c)
  PROVE  StandStill(p) /\ Grown /\ Tells(p) /\ StaysInside(p)
<1>1. pc[p] # "idle" /\ Shape /\ LiveEntries
  BY DEF Early, SInv
<1>2. CASE SendBuffer(p, i, c) \/ SendClosed(p, i, c) \/ RecvTake(p, i, c) \/ RecvClosed(p, i, c)
  <2>1. UNCHANGED <<nops, call, index, released>> /\ \E out : TakeEffect(p, out)
    BY <1>2 DEF SendBuffer, SendClosed, RecvTake, RecvClosed, waiters
  <2> QED
    BY <1>1, <2>1, EndsTells DEF StaysInside
<1>3. CASE SendHandoff(p, i, c)
  <2>1. PICK j \in DOMAIN recvQ[c] :
          /\ Unclaimed(recvQ[c][j].w)
          /\ Commit(p, recvQ[c][j], Outcome("ok", recvQ[c][j].i, Cur(p)), Cur(p), Outcome("ok", i, Unset))
    BY <1>3 DEF SendHandoff, FirstLive
  <2>2. PICK e : e = recvQ[c][j]
    OBVIOUS
  <2>3. e \in Entry /\ AtCase(e, "recv", c)
    BY <1>1, <2>1, <2>2, ElementOfSeq DEF Shape, LiveEntries
  <2>4. PICK theirs, out : lin' = [lin EXCEPT ![Cur(p)] = out, ![e.w] = theirs]
    BY <2>1, <2>2 DEF Commit
  <2>5. /\ index' = [index EXCEPT ![e.w] = e.i] /\ pc' = [pc EXCEPT ![p] = "finish"]
        /\ UNCHANGED <<nops, call, released, res>>
    BY <1>3, <2>1, <2>2 DEF Commit, SendHandoff
  <2>6. StandStill(p) /\ Grown /\ pc'[p] = "finish"
    BY <1>1, <2>3, <2>4, <2>5, CommitsStill
  <2> QED
    BY <2>6 DEF Tells, StaysInside
<1>4. CASE RecvTakePromote(p, i, c) \/ RecvFromSender(p, i, c)
  <2>1. PICK j, out :
          /\ j \in DOMAIN sendQ[c]
          /\ Unclaimed(sendQ[c][j].w)
          /\ Commit(p, sendQ[c][j], Outcome("ok", sendQ[c][j].i, Unset), SendOk, out)
    BY <1>4 DEF RecvTakePromote, RecvFromSender, FirstLive
  <2>2. PICK e : e = sendQ[c][j]
    OBVIOUS
  <2>3. e \in Entry /\ AtCase(e, "send", c)
    BY <1>1, <2>1, <2>2, ElementOfSeq DEF Shape, LiveEntries
  <2>4. UNCHANGED <<nops, call, released, res>>
    BY <1>4 DEF RecvTakePromote, RecvFromSender
  <2>5. PICK theirs, own : lin' = [lin EXCEPT ![Cur(p)] = own, ![e.w] = theirs]
    BY <2>1, <2>2 DEF Commit
  <2>6. index' = [index EXCEPT ![e.w] = e.i] /\ pc' = [pc EXCEPT ![p] = "finish"]
    BY <2>1, <2>2 DEF Commit
  <2>7. StandStill(p) /\ Grown /\ pc'[p] = "finish"
    BY <1>1, <2>3, <2>4, <2>5, <2>6, CommitsStill
  <2> QED
    BY <2>7 DEF Tells, StaysInside
<1> QED
  BY <1>2, <1>3, <1>4 DEF PollHit

LEMMA CommonTasks ==
  ASSUME SInv, NEW p \in Procs, PollAndPark(p) \/ CloseSteps(p) \/ Finish(p) \/ CloseFinish(p)
  PROVE  /\ StandStill(p) /\ Grown /\ Tells(p) /\ StaysInside(p)
         /\ UNCHANGED <<nops, call>> /\ pc[p] # "idle"
<1>1. Shape /\ PlaceOK(p) /\ LiveSnapshots
  BY DEF SInv
<1>2. CASE Poll(p) \/ PassHit(p)
  <2>1. pc[p] \in Early /\ \E i, c : c \in Chans /\ PollHit(p, i, c)
    BY <1>2 DEF Poll, PassHit, Selecting, Early
  <2>2. UNCHANGED <<nops, call>>
    BY <2>1 DEF PollHit, SendHandoff, SendBuffer, SendClosed, RecvTake, RecvTakePromote,
       RecvFromSender, RecvClosed
  <2> QED
    BY <2>1, <2>2, PollTasks DEF Early
<1>3. CASE TakeDefault(p) \/ CloseAgain(p)
  <2>1. /\ UNCHANGED <<nops, call, index, released>> /\ pc[p] # "idle"
        /\ \E out : TakeEffect(p, out)
    BY <1>3 DEF TakeDefault, CloseAgain, Selecting, waiters
  <2> QED
    BY <2>1, EndsTells DEF StaysInside
<1>4. CASE Park(p) \/ PassMiss(p) \/ StartLocking(p) \/ Register(p) \/ Acquire(p)
  <2>1. UNCHANGED <<nops, call, lin, index, released, res>> /\ pc[p] \in Early
    BY <1>4 DEF Park, PassMiss, StartLocking, Register, Acquire, Selecting, goVars, waiters, Early
  <2>2. pc' = pc \/ \E st \in {"parked", "locking", "recheck"} : pc' = [pc EXCEPT ![p] = st]
    BY <1>4 DEF Park, StartLocking, Register, PassMiss, Acquire
  <2>3. PICK st \in Early \cup {"parked"} : pc' = [pc EXCEPT ![p] = st] \/ (pc' = pc /\ st = pc[p])
    BY <2>1, <2>2 DEF Early
  <2>4. StandStill(p) /\ Grown /\ pc'[p] = st
    BY <2>1, <2>3, MovesStill
  <2> QED
    BY <2>1, <2>3, <2>4 DEF Tells, StaysInside, Early
<1>5. CASE CloseMark(p)
  <2>1. Cur(p) \in Op /\ \A q \in Procs \ {p} : Cur(q) # Cur(p)
    BY <1>1, <1>5, InCall DEF CloseMark, Shape, Cur
  <2> QED
    BY <1>1, <1>5, <2>1
       DEF CloseMark, StandStill, Grown, Tells, StaysInside, Shape, waiters, Unclaimed
<1>6. CASE CloseCommit(p)
  <2>1. PICK j \in DOMAIN wake[p] :
          /\ Unclaimed(wake[p][j].w)
          /\ index' = [index EXCEPT ![wake[p][j].w] = wake[p][j].i]
          /\ lin' = [lin EXCEPT ![wake[p][j].w] = Outcome("closed", wake[p][j].i, Unset)]
    BY <1>6 DEF CloseCommit, FirstLive
  <2>2. PICK e : e = wake[p][j]
    OBVIOUS
  <2>3. PICK dir, c : AtCase(e, dir, c)
    BY <1>1, <2>1, <2>2 DEF LiveSnapshots, Refusing
  <2>4. e \in Entry
    <3>1. wake[p] \in Seq(Entry)
      BY <1>1 DEF Shape
    <3> QED
      BY <2>1, <2>2, <3>1, ElementOfSeq
  <2>5. /\ pc[p] # "idle" /\ pc' = [pc EXCEPT ![p] = "closefinish"]
        /\ UNCHANGED <<nops, call, released, res>>
    BY <1>6 DEF CloseCommit
  <2>6. PICK theirs : lin' = [lin EXCEPT ![e.w] = theirs] /\ index' = [index EXCEPT ![e.w] = e.i]
    BY <2>1, <2>2
  <2>7. StandStill(p) /\ Grown /\ pc'[p] = "closefinish"
    BY <2>3, <2>4, <2>5, <2>6, CommitsStill
  <2> QED
    BY <2>5, <2>7 DEF Tells, StaysInside
<1>7. CASE CloseDone(p)
  <2>1. lin[Cur(p)] = Outcome("done", 0, Unset)
    BY <1>1, <1>7 DEF CloseDone, PlaceOK
  <2> QED
    BY <1>1, <1>7, <2>1, MovesStill
       DEF CloseDone, Return, Tells, StaysInside, goVars, waiters, Shape, Cur
<1>8. CASE Finish(p) \/ CloseFinish(p)
  <2>1. /\ UNCHANGED <<nops, call, lin, index>> /\ pc[p] # "idle"
        /\ \E st \in {"idle", "closing"} : pc' = [pc EXCEPT ![p] = st]
        /\ res' = res \/ \E out : res' = [res EXCEPT ![p] = out]
    BY <1>8 DEF Finish, CloseFinish, Return, goVars
  <2>2. \A w \in Op : released[w] => released'[w]
    BY <1>1, <1>8 DEF Finish, CloseFinish, Shape
  <2>3. StandStill(p) /\ Grown /\ StaysInside(p)
    BY <1>1, <2>1, <2>2 DEF StandStill, Grown, StaysInside, Shape, Unclaimed
  <2>4. Tells(p)
    BY <1>1, <1>8 DEF Finish, CloseFinish, Return, goVars, Tells, PlaceOK, Shape, Cur
  <2> QED
    BY <2>1, <2>3, <2>4
<1> QED
  BY <1>2, <1>3, <1>4, <1>5, <1>6, <1>7, <1>8 DEF PollAndPark, CloseSteps


(* What only threads do.                                                   *)
LEMMA ThreadStill ==
  ASSUME SInv, NEW p \in Procs, WaitAsThread(p) \/ FinishRaises(p)
  PROVE  StandStill(p) /\ Grown
<1>1. Shape
  BY DEF SInv
<1>2. CASE TryMiss(p)
  <2>1. /\ UNCHANGED <<nops, call, index, released>> /\ pc[p] # "idle"
        /\ \E out : TakeEffect(p, out)
    BY <1>2 DEF TryMiss, waiters
  <2> QED
    BY <2>1, EndsTells
<1>3. CASE Wake(p) \/ Expire(p) \/ LoseTimeout(p) \/ Withdraw(p) \/ SelectWake(p) \/ Unregister(p)
  <2>1. UNCHANGED <<nops, call, lin, index, released>>
    BY <1>3 DEF Wake, Expire, LoseTimeout, Withdraw, SelectWake, Unregister, Return, goVars, waiters
  <2>2. /\ \E st : pc' = [pc EXCEPT ![p] = st] \/ (pc' = pc /\ st = pc[p])
        /\ res' = res \/ \E out : res' = [res EXCEPT ![p] = out]
    BY <1>3 DEF Wake, Expire, LoseTimeout, Withdraw, SelectWake, Unregister, Return
  <2> QED
    BY <2>1, <2>2, MovesStill
<1>4. CASE ClaimTimeout(p)
  <2>1. \A q \in Procs \ {p} : Cur(q) # Cur(p)
    BY DEF Cur
  <2> QED
    BY <1>1, <1>4, <2>1 DEF ClaimTimeout, StandStill, Grown, Shape, Unclaimed, NoIndex, TimeoutIndex
<1>5. CASE FinishRaises(p)
  <2>1. \A w \in Op : released[w] => released'[w]
    BY <1>1, <1>5 DEF FinishRaises, Shape
  <2> QED
    BY <1>1, <1>5, <2>1 DEF FinishRaises, Return, StandStill, Grown, Shape, Unclaimed, goVars
<1> QED
  BY <1>2, <1>3, <1>4, <1>5 DEF WaitAsThread

(* task.cancel() and on_timeout claim the waiter of the task themselves.   *)
LEMMA CommitSelfStill ==
  ASSUME SInv, NEW p \in Procs, NEW st, NEW then, CommitSelf(p, st, then)
  PROVE  /\ StandStill(p) /\ Grown /\ pc'[p] = then
         /\ nops[p] > 0 => index'[Cur(p)] = TimeoutIndex
<1>1. Shape /\ \A q \in Procs \ {p} : Cur(q) # Cur(p)
  BY DEF SInv, Cur
<1>2. nops[p] > 0 => Cur(p) \in Op
  BY <1>1, InCall
<1> QED
  BY <1>1, <1>2 DEF CommitSelf, StandStill, Grown, Shape, Unclaimed, NoIndex, TimeoutIndex

(* Whoever is released reads what happened, a task whose future is done    *)
(* too.                                                                    *)
LEMMA ReleasedReads ==
  ASSUME SInv, NEW p \in Procs, nops[p] > 0, released[Cur(p)]
  PROVE  Woken(p) = lin[Cur(p)] /\ TaskResult(p) = lin[Cur(p)]
<1>1. Learns(Cur(p), value[Cur(p)]) /\ Cur(p)[1] = p
  BY DEF SInv, Delivered, Cur
<1>2. index[Cur(p)] \in Nat /\ value[Cur(p)] # Unset
  BY <1>1 DEF Learns, Fits
<1>3. TaskResult(p) = Woken(p)
  BY <1>2 DEF TaskResult, TimeoutIndex
<1> QED
  BY <1>1, <1>2, <1>3 DEF Learns, Fits, Woken

LEMMA CallStill ==
  ASSUME SInv, NEW p \in Procs, Call(p)
  PROVE  StandStill(p) /\ Grown /\ pc'[p] = "start"
<1>1. Shape
  BY DEF SInv
<1>2. PICK w : w = <<p, nops[p] + 1>>
  OBVIOUS
<1>3. /\ nops' = [nops EXCEPT ![p] = @ + 1]
      /\ lin' = [lin EXCEPT ![w] = Outcome("pending", NoIndex, Unset)]
      /\ pc' = [pc EXCEPT ![p] = "start"]
      /\ \E cl : call' = [call EXCEPT ![p] = cl]
      /\ UNCHANGED <<index, released, res>>
  BY <1>2 DEF Call, Invoke, NewCall, waiters
<1>4. \A q \in Procs \ {p} : nops'[q] = nops[q]
  BY <1>1, <1>3 DEF Shape
<1>5. \A q \in Procs \ {p} : Cur(q) # w
  BY <1>2 DEF Cur
<1>6. \A q \in Procs \ {p} : nops[q] > 0 => Cur(q) \in Op
  BY <1>1, InCall
<1>7. StandStill(p)
  BY <1>1, <1>3, <1>4, <1>5, <1>6 DEF StandStill, Shape
<1> QED
  BY <1>1, <1>3, <1>7 DEF Grown, Unclaimed, Shape

-----------------------------------------------------------------------------
(* Threads that select, or call plainly beside a select, learn what        *)
(* happened: p returns what its operation did.                             *)
ToldOK(p) ==
  LET w == Cur(p)
  IN  /\ pc[p] = "cleanup" => released[w]
      /\ pc[p] = "withdraw" => lin[w] = Outcome("timeout", TimeoutIndex, Unset)
      /\ pc[p] = "idle" /\ nops[p] > 0 => res[p] = lin[w]

RInv == SInv /\ \A p \in Procs : ToldOK(p)

LEMMA ToldStays ==
  ASSUME SInv, NEW p, StandStill(p), Grown, NEW q \in Procs \ {p}, ToldOK(q)
  PROVE  ToldOK(q)'
<1>1. Cur(q)' = Cur(q) /\ (nops[q] > 0 => Cur(q) \in Op)
  BY InCall DEF StandStill, Cur, SInv
<1>2. pc[q] # "idle" => nops[q] > 0
  BY DEF SInv, Shape
<1>3. pc'[q] = pc[q] /\ nops'[q] = nops[q] /\ res'[q] = res[q]
  BY DEF StandStill
<1>4. pc[q] \in {"cleanup", "withdraw", "idle"} /\ nops[q] > 0 => lin'[Cur(q)] = lin[Cur(q)]
  BY DEF StandStill, Open
<1>5. nops[q] > 0 /\ released[Cur(q)] => released'[Cur(q)]
  BY <1>1 DEF Grown
<1> QED
  BY <1>1, <1>2, <1>3, <1>4, <1>5 DEF ToldOK

(* A wait that ends, or that goes on as a clean-up.                        *)
LEMMA WaitTells ==
  ASSUME SInv, NEW p \in Procs, ToldOK(p), WaitAsThread(p)
  PROVE  ToldOK(p)'
<1>1. Shape /\ PlaceOK(p)
  BY DEF SInv
<1>2. pc[p] # "idle" /\ UNCHANGED nops
  BY DEF WaitAsThread, TryMiss, Wake, Expire, ClaimTimeout, LoseTimeout, Withdraw, SelectWake,
     Unregister, Selecting, goVars
<1>3. nops[p] > 0 /\ Cur(p) \in Op /\ Cur(p)' = Cur(p)
  BY <1>1, <1>2, InCall DEF Shape, Cur
<1>4. CASE TryMiss(p)
  <2>1. UNCHANGED <<nops, call, index, released>> /\ \E out : TakeEffect(p, out)
    BY <1>4 DEF TryMiss, waiters
  <2>2. Tells(p) /\ pc'[p] = "idle"
    BY <1>2, <2>1, EndsTells
  <2> QED
    BY <1>3, <2>2 DEF Tells, ToldOK
<1>5. CASE Wake(p)
  <2>1. res'[p] = lin'[Cur(p)] /\ pc'[p] = "idle"
    BY <1>1, <1>3, <1>5, ReleasedReads DEF Wake, Return, goVars, Shape
  <2> QED
    BY <1>3, <2>1 DEF ToldOK
<1>6. CASE Expire(p) \/ LoseTimeout(p)
  <2>1. pc'[p] \in {"expired", "claimed"}
    BY <1>1, <1>6 DEF Expire, LoseTimeout, Shape
  <2> QED
    BY <2>1 DEF ToldOK
<1>7. CASE ClaimTimeout(p)
  <2>1. pc'[p] = "withdraw" /\ lin'[Cur(p)] = Outcome("timeout", TimeoutIndex, Unset)
    BY <1>1, <1>3, <1>7 DEF ClaimTimeout, Shape
  <2> QED
    BY <1>3, <2>1 DEF ToldOK
<1>8. CASE Withdraw(p)
  <2>1. res'[p] = lin'[Cur(p)] /\ pc'[p] = "idle"
    BY <1>1, <1>8 DEF Withdraw, Return, goVars, Shape, ToldOK
  <2> QED
    BY <1>3, <2>1 DEF ToldOK
<1>9. CASE SelectWake(p)
  <2>1. released'[Cur(p)] /\ pc'[p] = "cleanup"
    BY <1>1, <1>9 DEF SelectWake, waiters, Shape
  <2> QED
    BY <1>3, <2>1 DEF ToldOK
<1>10. CASE Unregister(p)
  <2>1. UNCHANGED <<lin, released>> /\ pc[p] \in {"cleanup", "withdraw"}
    BY <1>10 DEF Unregister, goVars, waiters, Selecting
  <2>2. Woken(p) = lin[Cur(p)] \/ pc[p] = "withdraw"
    BY <1>3, <2>1, ReleasedReads DEF ToldOK
  <2>3. CASE UNCHANGED <<pc, res>>
    BY <1>3, <2>1, <2>3 DEF ToldOK
  <2>4. CASE Return(p, IF pc[p] = "withdraw"
                       THEN Outcome("timeout", TimeoutIndex, Unset) ELSE Woken(p))
    <3>1. pc'[p] = "idle" /\ res'[p] = lin[Cur(p)]
      BY <1>1, <2>1, <2>2, <2>4 DEF Return, Shape, ToldOK
    <3> QED
      BY <1>3, <2>1, <3>1 DEF ToldOK
  <2> QED
    BY <1>10, <2>3, <2>4 DEF Unregister
<1> QED
  BY <1>4, <1>5, <1>6, <1>7, <1>8, <1>9, <1>10 DEF WaitAsThread

LEMMA SelectStepTells ==
  ASSUME RInv, NEW p \in Procs, SelectStep(p)
  PROVE  StandStill(p) /\ Grown /\ ToldOK(p)'
<1>1. SInv /\ ToldOK(p)
  BY DEF RInv
<1>2. CASE WaitAsThread(p)
  BY <1>1, <1>2, ThreadStill, WaitTells
<1>3. CASE PollAndPark(p) \/ CloseSteps(p) \/ Finish(p) \/ CloseFinish(p)
  <2>1. StandStill(p) /\ Grown /\ Tells(p) /\ StaysInside(p) /\ UNCHANGED nops
    BY <1>1, <1>3, CommonTasks
  <2> QED
    BY <2>1 DEF Tells, StaysInside, ToldOK, Cur
<1> QED
  BY <1>2, <1>3 DEF SelectStep, Step, WaitAsThread, PollAndPark, CloseSteps

LEMMA RInvKept == ASSUME RInv, [SelectNext]_allVars PROVE RInv'
<1>1. SInv
  BY DEF RInv
<1>2. CASE UNCHANGED allVars
  <2>1. SInv'
    BY <1>1, <1>2, StutterKeeps
  <2> QED
    BY <1>2, <2>1 DEF RInv, ToldOK, allVars, vars, goVars, waiters, Cur
<1>3. ASSUME NEW p \in Procs, SInv', StandStill(p), Grown, ToldOK(p)' PROVE RInv'
  BY <1>1, <1>3, ToldStays DEF RInv
<1>4. ASSUME NEW p \in Procs, Call(p) PROVE RInv'
  <2>1. SInv' /\ StandStill(p) /\ Grown /\ pc'[p] = "start"
    BY <1>1, <1>4, CallKeeps, CallStill
  <2> QED
    BY <1>3, <2>1 DEF ToldOK
<1>5. ASSUME NEW p \in Procs, SelectStep(p) PROVE RInv'
  BY <1>1, <1>3, <1>5, StepKeeps, SelectStepTells
<1> QED
  BY <1>2, <1>4, <1>5 DEF SelectNext

(* README: "Exactly one case fires", and the caller is told which: what    *)
(* select() returns or raises is what happened to its operation, the case  *)
(* that fired with its value or the timeout, whichever of the case's       *)
(* partner and the deadline came first.                                    *)
THEOREM SelectTells == SelectSpec => []ReturnsAgree
<1>1. SelectInit => RInv
  <2>1. SelectInit => \A p \in Procs : pc[p] = "idle" /\ nops[p] = 0
    BY DEF SelectInit, Init, CallsInit
  <2> QED
    BY <2>1, InitKeeps DEF RInv, ToldOK
<1>2. RInv /\ [SelectNext]_allVars => RInv'
  BY RInvKept
<1>3. RInv => ReturnsAgree
  BY DEF RInv, ToldOK, ReturnsAgree
<1> QED
  BY <1>1, <1>2, <1>3, PTL DEF SelectSpec

-----------------------------------------------------------------------------
(* The invariant of tasks, step by step.                                   *)

LEMMA CallTasks ==
  ASSUME AInv, NEW p \in Procs, AioCall(p)
  PROVE  AInv'
<1>1. /\ SInv /\ FuturesOK /\ Shape /\ Waiters /\ Call(p) /\ UNCHANGED tasksOnly
      /\ pc[p] = "idle" /\ (p \in Tasks => loopOpen)
  BY DEF AInv, SInv, AioCall, Call, Invoke
<1>2. SInv'
  BY <1>1, CallKeeps
<1>3. PICK w : w = <<p, nops[p] + 1>>
  OBVIOUS
<1>4. /\ nops[p] < MaxOps /\ nops' = [nops EXCEPT ![p] = @ + 1]
      /\ lin' = [lin EXCEPT ![w] = Outcome("pending", NoIndex, Unset)]
      /\ pc' = [pc EXCEPT ![p] = "start"]
      /\ \E cl : call' = [call EXCEPT ![p] = cl]
      /\ UNCHANGED <<index, released, res, future, loopOpen>>
  BY <1>1, <1>3 DEF Call, Invoke, NewCall, waiters, tasksOnly
<1>5. /\ nops'[p] = nops[p] + 1 /\ nops[p] \in Nat /\ nops[p] + 1 \in 1..MaxOps
      /\ \A q \in Procs \ {p} : nops'[q] = nops[q]
  BY <1>1, <1>4, ChanAssumption DEF Shape
<1>6. w \in Op /\ Cur(p)' = w /\ Unclaimed(w)
  BY <1>1, <1>3, <1>5 DEF Op, Cur, Waiters
<1>7. StandStill(p)
  BY <1>1, CallStill
<1>8. Grown
  BY <1>1, CallStill
<1>9. FuturesOK'
  BY <1>1, <1>4, <1>8, FuturesStay
<1>10. \A q \in Tasks \ {p} : TaskOK(q)'
  BY <1>1, <1>4, <1>7, <1>8, TaskStays, AioAssumption DEF AInv
<1>11. p \in Tasks => TaskOK(p)'
  <2>1. pc'[p] = "start" /\ ~future'[w]
    BY <1>1, <1>4, <1>6 DEF Shape, FuturesOK
  <2> QED
    BY <1>1, <1>4, <1>6, <2>1 DEF TaskOK
<1> QED
  BY <1>2, <1>9, <1>10, <1>11 DEF AInv

(* A step that leaves the futures and the loop alone.                      *)
LEMMA OthersStay ==
  ASSUME AInv, SInv', NEW p, StandStill(p), Grown, UNCHANGED tasksOnly, p \in Tasks => TaskOK(p)'
  PROVE  AInv'
<1>1. UNCHANGED <<future, loopOpen>>
  BY DEF tasksOnly
<1>2. FuturesOK'
  BY <1>1, FuturesStay DEF AInv
<1>3. \A q \in Tasks \ {p} : TaskOK(q)'
  BY <1>1, TaskStays, AioAssumption DEF AInv
<1> QED
  BY <1>2, <1>3 DEF AInv

LEMMA SharedKeeps ==
  ASSUME AInv, NEW p \in Procs,
         CommonStep(p) \/ (p \notin Tasks /\ WaitAsThread(p) /\ UNCHANGED tasksOnly)
  PROVE  AInv'
<1>1. SInv /\ (p \in Tasks => TaskOK(p)) /\ UNCHANGED tasksOnly /\ UNCHANGED <<future, loopOpen>>
  BY DEF AInv, CommonStep, tasksOnly
<1>2. CASE PollAndPark(p) \/ CloseSteps(p) \/ AioFinish(p)
  <2>1. SInv'
    BY <1>1, <1>2, PollsKeep, ParkKeeps, PassMissInv, MissEndsInv, LockingInv, RegisterKeeps,
       CloseMarkKeeps, CloseCommitKeeps, LeaveInv, FinishKeeps
       DEF PollAndPark, CloseSteps, AioFinish
  <2>2. /\ StandStill(p) /\ Grown /\ Tells(p) /\ StaysInside(p) /\ UNCHANGED <<nops, call>>
        /\ pc[p] # "idle"
    BY <1>1, <1>2, CommonTasks DEF AioFinish
  <2>3. p \in Tasks => TaskOK(p)'
    BY <1>1, <2>2, TaskGoesOn DEF StaysInside
  <2> QED
    BY <1>1, <2>1, <2>2, <2>3, OthersStay
<1>3. CASE FinishRaises(p) \/ (p \notin Tasks /\ WaitAsThread(p))
  <2>1. SInv'
    BY <1>1, <1>3, FinishKeeps, MissEndsInv, LookInv, GiveUpInv, WithdrawalInv DEF WaitAsThread
  <2>2. StandStill(p) /\ Grown
    BY <1>1, <1>3, ThreadStill
  <2>3. p \notin Tasks
    <3>1. SUFFICES ASSUME p \in Tasks, FinishRaises(p) PROVE FALSE
      BY <1>3
    <3>2. hand[p].w \in Op /\ hand[p].w[1] \in Procs /\ pc[p] # "idle"
      BY <1>1, <3>1 DEF SInv, Delivered, Finishing, FinishRaises, Op
    <3> QED
      BY <1>1, <3>1, <3>2 DEF TaskOK, FinishRaises, LoopGone
  <2> QED
    BY <1>1, <2>1, <2>2, <2>3, OthersStay
<1> QED
  BY <1>2, <1>3 DEF CommonStep


(* A callback resolves the future of p's waiter, and nothing else moves.   *)
LEMMA ResolveKeeps ==
  ASSUME AInv, NEW p \in Tasks, Resolve(p) \/ OnTimeoutLate(p)
  PROVE  AInv'
<1>1. /\ SInv /\ FuturesOK /\ Waiters /\ Shape /\ p \in Procs /\ TaskOK(p) /\ pc[p] = "parked"
      /\ ~Unclaimed(Cur(p)) /\ (call[p].wait # "timed" => released[Cur(p)])
  <2>1. SInv /\ Waiters /\ p \in Procs /\ pc[p] = "parked" /\ nops[p] > 0
    BY AioAssumption DEF AInv, SInv, Shape, Resolve, OnTimeoutLate
  <2>2. Cur(p) \in Op
    BY <2>1, InCall DEF SInv
  <2> QED
    BY <2>1, <2>2 DEF AInv, SInv, Waiters, Resolve, OnTimeoutLate, Unclaimed
<1>2. /\ future' = [future EXCEPT ![Cur(p)] = TRUE] /\ UNCHANGED allVars /\ loopOpen' = loopOpen
      /\ UNCHANGED <<nops, call, pc, res, lin, index, released>>
  BY DEF Resolve, OnTimeoutLate, allVars, vars, goVars, waiters
<1>3. SInv'
  BY <1>1, <1>2, StutterKeeps
<1>4. StandStill(p) /\ Grown /\ Cur(p)' = Cur(p)
  BY <1>2 DEF StandStill, Grown, Unclaimed, Cur
<1>5. FuturesOK'
  BY <1>1, <1>2 DEF FuturesOK, Unclaimed
<1>6. \A q \in Tasks \ {p} : TaskOK(q)'
  <2>1. ASSUME NEW q \in Tasks \ {p}, nops[q] > 0 PROVE future'[Cur(q)] = future[Cur(q)]
    <3>1. Cur(q) # Cur(p)
      BY <2>1 DEF Cur
    <3>2. Cur(q) \in Op
      BY <1>1, <2>1, InCall, AioAssumption
    <3> QED
      BY <1>1, <1>2, <3>1, <3>2 DEF FuturesOK
  <2> QED
    BY <1>1, <1>2, <1>4, <2>1, TaskStays, AioAssumption DEF AInv
<1>7. TaskOK(p)'
  BY <1>1, <1>2, <1>4 DEF TaskOK, Unclaimed
<1> QED
  BY <1>3, <1>5, <1>6, <1>7 DEF AInv

(* The task claims its own waiter, for its timeout or its cancellation.    *)
LEMMA SelfKeeps ==
  ASSUME AInv, NEW p \in Tasks, pc[p] = "parked", NEW st, NEW then, CommitSelf(p, st, then),
         <<st, then>> \in {<<"timeout", "expired">>, <<"cancelled", "cancelling">>},
         st = "timeout" => call[p].wait = "timed"
  PROVE  AInv'
<1>1. SInv /\ p \in Procs /\ TaskOK(p) /\ nops[p] > 0 /\ Cur(p)' = Cur(p)
  BY AioAssumption DEF AInv, SInv, Shape, CommitSelf, Cur
<1>2. SInv'
  BY <1>1, GiveUpInv
<1>3. StandStill(p) /\ Grown /\ pc'[p] = then /\ index'[Cur(p)] = TimeoutIndex
  BY <1>1, CommitSelfStill
<1>4. TaskOK(p)'
  BY <1>1, <1>3 DEF CommitSelf, tasksOnly, TaskOK, Unclaimed, NoIndex, TimeoutIndex
<1> QED
  BY <1>1, <1>2, <1>3, <1>4, OthersStay DEF CommitSelf

(* The task leaves its call, told of its cancellation or of what happened. *)
LEMMA LeaveKeeps ==
  ASSUME AInv, NEW p \in Tasks,
         \/ Resume(p)
         \/ /\ pc[p] = "parked" /\ ~Unclaimed(Cur(p))
            /\ Return(p, Outcome("cancelled", NoIndex, Unset))
            /\ UNCHANGED <<goVars, recvQ, sendQ, waiters, hand, wake, selVars, tasksOnly>>
  PROVE  AInv'
<1>1. /\ SInv /\ Shape /\ p \in Procs /\ TaskOK(p) /\ pc[p] = "parked" /\ nops[p] > 0
      /\ Cur(p) \in Op
  BY InCall, AioAssumption DEF AInv, SInv, Shape, Resume
<1>2. SInv'
  <2>1. Resume(p) => ~Unclaimed(Cur(p))
    BY <1>1 DEF AInv, FuturesOK, Resume
  <2> QED
    BY <1>1, <2>1, LeaveInv
<1>3. /\ UNCHANGED <<nops, call, lin, index, released>> /\ UNCHANGED tasksOnly
      /\ UNCHANGED <<future, loopOpen>>
      /\ \E st \in {"idle", "cleanup"} : pc' = [pc EXCEPT ![p] = st]
      /\ res' = res \/ \E out : res' = [res EXCEPT ![p] = out]
  BY DEF Resume, Return, goVars, waiters, tasksOnly
<1>4. StandStill(p) /\ Grown
  BY <1>1, <1>3, MovesStill
<1>5. TaskOK(p)'
  <2>1. CASE Resume(p) /\ ~Plain(p)
    BY <1>1, <1>3, <2>1 DEF Resume, TaskOK, Shape, Cur
  <2>2. CASE Resume(p) /\ Plain(p)
    <3>1. future[Cur(p)] /\ pc'[p] = "idle" /\ res'[p] = TaskResult(p)
      BY <1>1, <2>2 DEF Resume, Return, Shape
    <3>2. call[p].wait # "timed" => TaskResult(p) = lin[Cur(p)]
      BY <1>1, <3>1, ReleasedReads DEF TaskOK
    <3> QED
      BY <1>1, <1>3, <3>1, <3>2 DEF TaskOK, Cur
  <2>3. CASE Return(p, Outcome("cancelled", NoIndex, Unset))
    BY <1>1, <1>3, <2>3 DEF Return, Outcome, TaskOK, Shape, Cur
  <2> QED
    BY <2>1, <2>2, <2>3
<1> QED
  BY <1>1, <1>2, <1>3, <1>4, <1>5, OthersStay

(* The entries of the call that is over are dropped, channel by channel.   *)
LEMMA DropKeeps ==
  ASSUME AInv, NEW p \in Tasks, EndTimeout(p) \/ EndCancel(p) \/ CleanUp(p)
  PROVE  AInv'
<1>1. /\ SInv /\ Shape /\ FuturesOK /\ p \in Procs /\ TaskOK(p) /\ pc[p] # "idle" /\ nops[p] > 0
      /\ Cur(p) \in Op
  BY InCall, AioAssumption DEF AInv, SInv, Shape, EndTimeout, EndCancel, CleanUp
<1>2. SInv'
  BY <1>1, WithdrawalInv
<1>3. /\ UNCHANGED <<nops, call, lin, index, released>> /\ loopOpen' = loopOpen
      /\ \E st : pc' = [pc EXCEPT ![p] = st] \/ (pc' = pc /\ st = pc[p])
      /\ res' = res \/ \E out : res' = [res EXCEPT ![p] = out]
  BY DEF EndTimeout, EndCancel, CleanUp, DropFrom, Return, goVars, waiters
<1>4. StandStill(p) /\ Grown /\ Cur(p)' = Cur(p)
  BY <1>1, <1>3, MovesStill DEF Cur
<1>5. \/ future' = future
      \/ pc[p] = "expired" /\ future' = [future EXCEPT ![Cur(p)] = TRUE]
  BY DEF EndTimeout, EndCancel, CleanUp, DropFrom
<1>6. FuturesOK'
  BY <1>1, <1>3, <1>5 DEF FuturesOK, TaskOK, Unclaimed
<1>7. \A q \in Tasks \ {p} : TaskOK(q)'
  <2>1. ASSUME NEW q \in Tasks \ {p}, nops[q] > 0 PROVE future'[Cur(q)] = future[Cur(q)]
    <3>1. Cur(q) # Cur(p)
      BY <2>1 DEF Cur
    <3>2. Cur(q) \in Op
      BY <1>1, <2>1, InCall, AioAssumption
    <3> QED
      BY <1>1, <1>5, <3>1, <3>2 DEF FuturesOK
  <2> QED
    BY <1>1, <1>3, <1>4, <2>1, TaskStays, AioAssumption DEF AInv
<1>8. TaskOK(p)'
  <2>1. CASE UNCHANGED <<pc, res, future>>
    BY <1>1, <1>3, <1>4, <2>1 DEF TaskOK, Unclaimed
  <2>2. CASE pc[p] = "expired" /\ pc' = [pc EXCEPT ![p] = "parked"]
    <3>1. call[p].wait = "timed"
      BY <1>1, <2>2 DEF SInv, PlaceOK
    <3> QED
      BY <1>1, <1>3, <1>4, <2>2, <3>1 DEF TaskOK, Shape
  <2>3. CASE pc[p] = "cancelling" /\ Return(p, Outcome("cancelled", NoIndex, Unset)) /\ future' = future
    BY <1>1, <1>3, <1>4, <2>3 DEF Return, Outcome, TaskOK, Shape
  <2>4. CASE pc[p] = "cleanup" /\ Return(p, TaskResult(p)) /\ future' = future
    <3>1. call[p].wait # "timed" => TaskResult(p) = lin[Cur(p)]
      BY <1>1, <2>4, ReleasedReads DEF TaskOK
    <3>2. pc'[p] = "idle" /\ res'[p] = TaskResult(p)
      BY <1>1, <2>4 DEF Return, Shape
    <3> QED
      BY <1>1, <1>3, <1>4, <2>4, <3>1, <3>2 DEF TaskOK
  <2> QED
    BY <2>1, <2>2, <2>3, <2>4 DEF EndTimeout, EndCancel, CleanUp, DropFrom
<1> QED
  BY <1>2, <1>6, <1>7, <1>8 DEF AInv

(* The loop closes only when no task is inside a call.                     *)
LEMMA CloseLoopKeeps == ASSUME AInv, CloseLoop PROVE AInv'
<1>1. /\ UNCHANGED allVars /\ future' = future /\ \A p \in Tasks : pc[p] = "idle"
      /\ UNCHANGED <<nops, call, pc, res, lin, index, released>>
  BY DEF CloseLoop, allVars, vars, goVars, waiters
<1>2. SInv'
  BY <1>1, StutterKeeps DEF AInv
<1>3. FuturesOK'
  BY <1>1 DEF AInv, FuturesOK, Unclaimed
<1>4. \A p \in Tasks : TaskOK(p)'
  BY <1>1 DEF AInv, TaskOK, Cur, Unclaimed
<1> QED
  BY <1>2, <1>3, <1>4 DEF AInv

LEMMA AioNextKeeps == ASSUME AInv, [AioNext]_aioVars PROVE AInv'
<1>1. CASE \E p \in Procs : AioCall(p)
  BY <1>1, CallTasks
<1>2. ASSUME NEW p \in Procs, AioStep(p) PROVE AInv'
  <2>1. CASE CommonStep(p) \/ (p \in Threads /\ WaitAsThread(p) /\ UNCHANGED tasksOnly)
    BY <2>1, SharedKeeps DEF Threads
  <2>2. CASE p \in Tasks /\ TaskStep(p)
    <3>1. CASE Resolve(p) \/ OnTimeoutLate(p)
      BY <2>2, <3>1, ResolveKeeps
    <3>2. CASE OnTimeout(p)
      BY <2>2, <3>2, SelfKeeps DEF OnTimeout
    <3>3. CASE EndTimeout(p) \/ EndCancel(p) \/ CleanUp(p)
      BY <2>2, <3>3, DropKeeps
    <3>4. CASE Resume(p)
      BY <2>2, <3>4, LeaveKeeps
    <3> QED
      BY <2>2, <3>1, <3>2, <3>3, <3>4 DEF TaskStep
  <2> QED
    BY <1>2, <2>1, <2>2 DEF AioStep
<1>3. ASSUME NEW p \in Tasks, Cancel(p) PROVE AInv'
  BY <1>3, SelfKeeps, LeaveKeeps DEF Cancel
<1>4. CASE CloseLoop
  BY <1>4, CloseLoopKeeps
<1>5. CASE UNCHANGED aioVars
  <2>1. UNCHANGED allVars /\ UNCHANGED <<future, loopOpen>>
    BY <1>5 DEF aioVars
  <2>2. UNCHANGED <<nops, call, pc, res, lin, index, released>>
    BY <2>1 DEF allVars, vars, goVars, waiters
  <2>3. SInv' /\ FuturesOK'
    BY <2>1, <2>2, StutterKeeps DEF AInv, FuturesOK, Unclaimed
  <2> QED
    BY <2>1, <2>2, <2>3 DEF AInv, TaskOK, Cur, Unclaimed
<1> QED
  BY <1>1, <1>2, <1>3, <1>4, <1>5 DEF AioNext

LEMMA AioInitKeeps == ASSUME AioInit PROVE AInv
<1>1. SInv
  BY InitKeeps DEF AioInit
<1>2. FuturesOK
  BY DEF AioInit, FuturesOK
<1>3. \A p \in Tasks : TaskOK(p)
  BY AioAssumption DEF AioInit, SelectInit, Init, CallsInit, TaskOK
<1> QED
  BY <1>1, <1>2, <1>3 DEF AInv

(* A cancelled or timed out call leaves no entry behind that could still   *)
(* take a value: whatever entry can belongs to a call in progress.         *)
THEOREM LeavesNothingAlive == AioSpec => []NoLiveGhosts
<1>1. AInv => NoLiveGhosts
  BY DEF AInv, SInv, LiveEntries, AtCase, Open, NoLiveGhosts, Registered
<1> QED
  BY <1>1, AioInitKeeps, AioNextKeeps, PTL DEF AioSpec

(* A task without a timeout that was not cancelled is told what happened   *)
(* to its operation, though it goes on in a callback of the event loop     *)
(* some time after finish().                                               *)
THEOREM TasksLearn == AioSpec => []TasksAgree
<1>1. AInv => TasksAgree
  BY DEF AInv, TaskOK, TasksAgree
<1> QED
  BY <1>1, AioInitKeeps, AioNextKeeps, PTL DEF AioSpec

(* Tasks are stranded next to something that is ready no more than threads. *)
THEOREM TasksNotStranded == AioSpec => []NoMissedMatch
<1>1. AInv => NoMissedMatch
  BY DEF AInv, SInv
<1> QED
  BY <1>1, AioInitKeeps, AioNextKeeps, PTL DEF AioSpec


-----------------------------------------------------------------------------
(* select() and the bridge implement GoChan.                               *)

(* A thread that polls offers the case it polls to GoChan.                 *)
LEMMA EarlyOffers ==
  ASSUME SInv, NEW p \in Procs, pc[p] \in Early,
         NEW i \in DOMAIN call[p].cases, NEW dir, NEW c, Polls(p, i, dir, c)
  PROVE  Go!Offers(p, i, dir, c)
<1>1. nops[p] > 0 /\ lin[Cur(p)].st = "pending" /\ IsCall(call[p])
  BY DEF SInv, Shape, PlaceOK, Early
<1>2. call[p].cases[i] = [dir |-> dir, ch |-> c]
  BY <1>1 DEF IsCall, Case, Polls, Dir, Ch
<1> QED
  BY <1>1, <1>2 DEF Go!Offers, Go!Pending, Go!Cur, Cur

(* So does the thread of a live entry the case of the entry.               *)
LEMMA LiveOffers ==
  ASSUME SInv, NEW e, NEW dir, NEW c, AtCase(e, dir, c), Unclaimed(e.w)
  PROVE  \E q \in Procs : /\ e.w = Cur(q) /\ pc[q] \in Open /\ e.i \in DOMAIN call[q].cases
                          /\ Go!Offers(q, e.i, dir, c)
<1>1. PICK q \in Procs : /\ e.w = Cur(q) /\ pc[q] \in Open
                        /\ e.i \in DOMAIN call[q].cases /\ Dir(q, e.i) = dir /\ Ch(q, e.i) = c
  BY DEF AtCase
<1>2. nops[q] > 0 /\ lin[Cur(q)].st = "pending" /\ IsCall(call[q])
  BY <1>1 DEF SInv, Shape, PlaceOK, Open
<1>3. call[q].cases[e.i] = [dir |-> dir, ch |-> c]
  BY <1>1, <1>2 DEF IsCall, Case, Dir, Ch
<1> QED
  BY <1>1, <1>2, <1>3 DEF Go!Offers, Go!Pending, Go!Cur, Cur

LEMMA CallImplements == ASSUME SInv, NEW p \in Procs, Call(p) PROVE Go!Next
<1>1. ~Go!Pending(p)
  BY DEF SInv, PlaceOK, Call, Invoke, Go!Pending, Go!Cur, Cur
<1>2. Go!NewCall(p)
  BY DEF Call, Invoke, NewCall, Go!NewCall, Outcome, Go!Outcome, NoIndex, Go!NoIndex
<1> QED
  BY <1>1, <1>2 DEF Go!Next, Go!Invoke

LEMMA HitImplements ==
  ASSUME SInv, NEW p \in Procs, pc[p] \in Early, NEW i \in DOMAIN call[p].cases,
         NEW c \in Chans, PollHit(p, i, c)
  PROVE  Go!Next
<1>1. /\ LiveEntries /\ NoMissedMatch /\ DOMAIN lin = Op /\ Cur(p) \in Op
      /\ recvQ[c] \in Seq(Entry) /\ sendQ[c] \in Seq(Entry)
      /\ \A dir : Polls(p, i, dir, c) => Go!Offers(p, i, dir, c)
  BY EarlyOffers, InCall DEF SInv, Shape, Early
<1>2. ASSUME NEW e, NEW dir, AtCase(e, dir, c), Unclaimed(e.w)
      PROVE  \E q \in Procs : /\ q # p /\ e.w = Cur(q) /\ Cur(q) # Cur(p)
                              /\ e.i \in DOMAIN call[q].cases /\ Go!Offers(q, e.i, dir, c)
  BY <1>2, LiveOffers DEF Cur, Early, Open
<1>3. CASE SendHandoff(p, i, c)
  <2>1. PICK m \in DOMAIN recvQ[c] :
          /\ Unclaimed(recvQ[c][m].w)
          /\ Commit(p, recvQ[c][m], Outcome("ok", recvQ[c][m].i, Cur(p)), Cur(p), Outcome("ok", i, Unset))
    BY <1>3 DEF SendHandoff, FirstLive
  <2>2. PICK e : e = recvQ[c][m]
    OBVIOUS
  <2>3. AtCase(e, "recv", c) /\ Unclaimed(e.w)
    BY <1>1, <2>1, <2>2 DEF LiveEntries
  <2>4. PICK q \in Procs : /\ q # p /\ e.w = Cur(q) /\ Cur(q) # Cur(p)
                           /\ e.i \in DOMAIN call[q].cases /\ Go!Offers(q, e.i, "recv", c)
    BY <1>2, <2>3
  <2>5. buf[c] = <<>> /\ ~closed[c]
    BY <1>1, <1>3, <2>1 DEF NoMissedMatch, SendHandoff
  <2>6. lin' = [lin EXCEPT ![Cur(p)] = Outcome("ok", i, Unset), ![Cur(q)] = Outcome("ok", e.i, Cur(p))]
    BY <2>1, <2>2, <2>4 DEF Commit
  <2>7. Go!Rendezvous(p, i, q, e.i, c)
    BY <1>1, <1>3, <2>4, <2>5, <2>6 DEF SendHandoff, Go!Rendezvous, Go!Outcome, Outcome, Go!Cur, Cur
  <2> QED
    BY <2>4, <2>7 DEF Go!Next
<1>4. CASE SendBuffer(p, i, c)
  <2>1. Go!Enqueue(p, i, c)
    BY <1>1, <1>4 DEF SendBuffer, TakeEffect, Go!Enqueue, Go!Outcome, Outcome, Go!Cur, Cur
  <2> QED
    BY <2>1 DEF Go!Next
<1>5. CASE SendClosed(p, i, c)
  <2>1. Go!Refuse(p, i, c)
    BY <1>1, <1>5 DEF SendClosed, TakeEffect, Go!Refuse, Go!Outcome, Outcome, Go!Cur, Cur
  <2> QED
    BY <2>1 DEF Go!Next
<1>6. CASE RecvTake(p, i, c)
  <2>1. Go!Dequeue(p, i, c)
    BY <1>1, <1>6 DEF RecvTake, TakeEffect, Go!Dequeue, Go!Outcome, Outcome, Go!Cur, Cur
  <2> QED
    BY <2>1 DEF Go!Next
<1>7. CASE RecvClosed(p, i, c)
  <2>1. Go!Refuse(p, i, c)
    BY <1>1, <1>7 DEF RecvClosed, TakeEffect, Go!Refuse, Go!Outcome, Outcome, Go!Cur, Cur
  <2> QED
    BY <2>1 DEF Go!Next
<1>8. ASSUME NEW m \in DOMAIN sendQ[c], Unclaimed(sendQ[c][m].w), NEW e, e = sendQ[c][m]
      PROVE  /\ ~closed[c]
             /\ \E q \in Procs : /\ q # p /\ e.w = Cur(q) /\ Cur(q) # Cur(p)
                                 /\ e.i \in DOMAIN call[q].cases /\ Go!Offers(q, e.i, "send", c)
  <2>1. AtCase(e, "send", c) /\ Unclaimed(e.w)
    BY <1>1, <1>8 DEF LiveEntries
  <2>2. ~closed[c]
    BY <1>1, <1>8 DEF NoMissedMatch
  <2> QED
    BY <1>2, <2>1, <2>2
<1>9. CASE RecvTakePromote(p, i, c)
  <2>1. PICK m \in DOMAIN sendQ[c] :
          /\ Unclaimed(sendQ[c][m].w)
          /\ Commit(p, sendQ[c][m], Outcome("ok", sendQ[c][m].i, Unset), SendOk,
                    Outcome("ok", i, Head(buf[c])))
          /\ buf' = [buf EXCEPT ![c] = Append(Tail(buf[c]), sendQ[c][m].w)]
    BY <1>9 DEF RecvTakePromote, FirstLive
  <2>2. PICK e : e = sendQ[c][m]
    OBVIOUS
  <2>3. PICK q \in Procs : /\ q # p /\ e.w = Cur(q) /\ Cur(q) # Cur(p)
                           /\ e.i \in DOMAIN call[q].cases /\ Go!Offers(q, e.i, "send", c)
    BY <1>8, <2>1, <2>2
  <2>4. e.w \in Op /\ ~closed[c]
    <3>1. e \in Entry
      BY <1>1, <2>1, <2>2, ElementOfSeq
    <3>2. ~closed[c]
      BY <1>8, <2>1, <2>2
    <3> QED
      BY <3>1, <3>2 DEF Entry
  <2>5. lin' = [lin EXCEPT ![Cur(q)] = Outcome("ok", e.i, Unset),
                           ![Cur(p)] = Outcome("ok", i, Head(buf[c]))]
    BY <1>1, <2>1, <2>2, <2>3, <2>4 DEF Commit
  <2>6. buf' = [buf EXCEPT ![c] = Append(Tail(buf[c]), Cur(q))]
    BY <2>1, <2>2, <2>3
  <2>7. Go!DequeueRefill(q, e.i, p, i, c)
    BY <1>1, <1>9, <2>3, <2>4, <2>5, <2>6
       DEF RecvTakePromote, Go!DequeueRefill, Go!Outcome, Outcome, Go!Cur, Cur
  <2> QED
    BY <2>3, <2>7 DEF Go!Next
<1>10. CASE RecvFromSender(p, i, c)
  <2>1. PICK m \in DOMAIN sendQ[c] :
          /\ Unclaimed(sendQ[c][m].w)
          /\ Commit(p, sendQ[c][m], Outcome("ok", sendQ[c][m].i, Unset), SendOk,
                    Outcome("ok", i, sendQ[c][m].w))
    BY <1>10 DEF RecvFromSender, FirstLive
  <2>2. PICK e : e = sendQ[c][m]
    OBVIOUS
  <2>3. PICK q \in Procs : /\ q # p /\ e.w = Cur(q) /\ Cur(q) # Cur(p)
                           /\ e.i \in DOMAIN call[q].cases /\ Go!Offers(q, e.i, "send", c)
    BY <1>8, <2>1, <2>2
  <2>4. e.w \in Op /\ ~closed[c]
    <3>1. e \in Entry
      BY <1>1, <2>1, <2>2, ElementOfSeq
    <3>2. ~closed[c]
      BY <1>8, <2>1, <2>2
    <3> QED
      BY <3>1, <3>2 DEF Entry
  <2>5. lin' = [lin EXCEPT ![Cur(q)] = Outcome("ok", e.i, Unset), ![Cur(p)] = Outcome("ok", i, Cur(q))]
    BY <1>1, <2>1, <2>2, <2>3, <2>4 DEF Commit
  <2>6. Go!Rendezvous(q, e.i, p, i, c)
    BY <1>1, <1>10, <2>3, <2>4, <2>5 DEF RecvFromSender, Go!Rendezvous, Go!Outcome, Outcome, Go!Cur, Cur
  <2> QED
    BY <2>3, <2>6 DEF Go!Next
<1> QED
  BY <1>3, <1>4, <1>5, <1>6, <1>7, <1>9, <1>10 DEF PollHit

LEMMA PollsImplement ==
  ASSUME SInv, NEW p \in Procs, Poll(p) \/ PassHit(p)
  PROVE  Go!Next
<1>1. CASE Poll(p)
  BY <1>1, HitImplements DEF Poll, Plain, Early
<1>2. CASE PassHit(p)
  <2>1. pc[p] \in Early /\ order[p] \in Orders(call[p].cases)
    BY <1>2 DEF SInv, PlaceOK, PassHit, Selecting, Early
  <2>2. order[p][at[p]] \in DOMAIN call[p].cases
    BY <1>2, <2>1 DEF PassHit, MoreCases, Orders
  <2> QED
    BY <1>2, <2>1, <2>2, HitImplements DEF PassHit
<1> QED
  BY <1>1, <1>2

(* try_send, try_recv and select with a default find nothing.              *)
LEMMA NothingImplements ==
  ASSUME SInv, NEW p \in Procs, TryMiss(p) \/ TakeDefault(p)
  PROVE  Go!Next
<1>1. Go!Pending(p)
  BY DEF SInv, Shape, PlaceOK, Early, TryMiss, TakeDefault, Selecting, Go!Pending, Go!Cur, Cur
<1>2. CASE TryMiss(p)
  <2>1. PICK c \in Chans, dir \in {"send", "recv"} : Polls(p, 0, dir, c) /\ Missed(dir, c)
    BY <1>2 DEF TryMiss
  <2>2. Go!Offers(p, 0, dir, c)
    BY <1>2, <2>1, EarlyOffers DEF TryMiss, Plain, Early
  <2>3. \A i \in DOMAIN call[p].cases : call[p].cases[i] = [dir |-> dir, ch |-> c]
    BY <1>2, <2>2 DEF TryMiss, Plain, Go!Offers
  <2>4. Go!Decline(p)
    BY <1>1, <1>2, <2>1, <2>3 DEF TryMiss, Missed, TakeEffect, Go!Decline, Go!Unready,
       Go!Outcome, Outcome, Go!Cur, Cur, Go!NoIndex, NoIndex
  <2> QED
    BY <2>4 DEF Go!Next
<1>3. CASE TakeDefault(p)
  <2>1. Go!Decline(p)
    BY <1>1, <1>3 DEF TakeDefault, TakeEffect, Go!Decline, Go!Outcome, Outcome, Go!Cur, Cur,
       Go!NoIndex, NoIndex
  <2> QED
    BY <2>1 DEF Go!Next
<1> QED
  BY <1>2, <1>3

(* A waiter that its own thread claims was pending.                        *)
LEMMA OwnPending ==
  ASSUME SInv, NEW p \in Procs, pc[p] \in Open, Unclaimed(Cur(p))
  PROVE  Go!Pending(p)
BY DEF SInv, Shape, PlaceOK, Open, Go!Pending, Go!Cur, Cur

LEMMA GiveUpImplements ==
  ASSUME SInv, NEW p \in Procs,
         \/ ClaimTimeout(p)
         \/ pc[p] = "parked" /\ call[p].wait = "timed" /\ CommitSelf(p, "timeout", "expired")
  PROVE  Go!Next
<1>1. Go!Pending(p) /\ call[p].wait = "timed"
  BY OwnPending DEF SInv, PlaceOK, ClaimTimeout, CommitSelf, Open
<1>2. Go!GiveUp(p)
  BY <1>1 DEF ClaimTimeout, CommitSelf, Go!GiveUp, Go!Outcome, Outcome, Go!Cur, Cur,
     Go!TimeoutIndex, TimeoutIndex
<1> QED
  BY <1>2 DEF Go!Next

LEMMA ClosesImplement ==
  ASSUME SInv, NEW p \in Procs, CloseAgain(p) \/ CloseMark(p)
  PROVE  Go!Next
<1>1. PICK c \in Chans : /\ Polls(p, 0, "close", c)
                        /\ closed' = [closed EXCEPT ![c] = TRUE]
                        /\ lin' = [lin EXCEPT ![Cur(p)] = Outcome("done", 0, Unset)]
                        /\ UNCHANGED <<buf, nops, call>>
  <2>1. closed \in [Chans -> BOOLEAN]
    BY DEF SInv, Shape
  <2> QED
    BY <2>1 DEF CloseAgain, CloseMark, TakeEffect
<1>2. Go!Offers(p, 0, "close", c) /\ 0 \in DOMAIN call[p].cases
  BY <1>1, EarlyOffers DEF CloseAgain, CloseMark, Plain, Early
<1>3. Go!Close(p, 0, c)
  BY <1>1, <1>2 DEF Go!Close, Go!Outcome, Outcome, Go!Cur, Cur
<1> QED
  BY <1>2, <1>3 DEF Go!Next

LEMMA RefusalImplements == ASSUME SInv, NEW p \in Procs, CloseCommit(p) PROVE Go!Next
<1>1. PICK e : /\ \E j \in DOMAIN wake[p] : e = wake[p][j]
               /\ Unclaimed(e.w)
               /\ lin' = [lin EXCEPT ![e.w] = Outcome("closed", e.i, Unset)]
               /\ UNCHANGED <<closed, buf, nops, call>>
  BY DEF CloseCommit, FirstLive
<1>2. PICK c, dir : /\ c \in Chans /\ closed[c] /\ AtCase(e, dir, c)
                    /\ dir = "send" \/ (dir = "recv" /\ buf[c] = <<>>)
  BY <1>1 DEF SInv, LiveSnapshots, Refusing
<1>3. PICK q \in Procs : /\ e.w = Cur(q) /\ e.i \in DOMAIN call[q].cases
                         /\ Go!Offers(q, e.i, dir, c)
  BY <1>1, <1>2, LiveOffers
<1>4. Go!Refuse(q, e.i, c)
  BY <1>1, <1>2, <1>3 DEF Go!Refuse, Go!Outcome, Outcome, Go!Cur, Cur
<1> QED
  BY <1>2, <1>3, <1>4 DEF Go!Next

LEMMA SelectStepImplements ==
  ASSUME SInv, NEW p \in Procs, SelectStep(p)
  PROVE  Go!Next \/ UNCHANGED goVars
<1>1. CASE Step(p)
  BY <1>1, PollsImplement, NothingImplements, GiveUpImplements, ClosesImplement, RefusalImplements
     DEF Step, Park, Finish, Wake, Expire, LoseTimeout, Withdraw, CloseFinish, CloseDone
<1>2. CASE PassHit(p) \/ TakeDefault(p)
  BY <1>2, PollsImplement, NothingImplements
<1>3. CASE PassMiss(p) \/ StartLocking(p) \/ Acquire(p) \/ Register(p) \/ SelectWake(p) \/ Unregister(p)
  BY <1>3 DEF PassMiss, StartLocking, Acquire, Register, SelectWake, Unregister
<1> QED
  BY <1>1, <1>2, <1>3 DEF SelectStep

LEMMA SelectInitImplements == ASSUME SelectInit PROVE Go!Init
BY DEF SelectInit, Init, Go!Init, CallsInit, Go!CallsInit, Outcome, Go!Outcome,
   NoIndex, Go!NoIndex, NoCall, Go!NoCall, Op, Go!Op

(* select() implements GoChan beside the plain operations: whichever of    *)
(* its cases fires takes effect at one instant, together with the other    *)
(* party's operation, and the cases that lost do nothing.                  *)
THEOREM SelectImplements == SelectSpec => Promise
<1>1. SelectInit => SInv
  BY InitKeeps
<1>2. SInv /\ [SelectNext]_allVars => SInv'
  BY CallKeeps, StepKeeps, StutterKeeps DEF SelectNext
<1>3. SelectInit => Go!Init
  BY SelectInitImplements
<1>4. SInv /\ [SelectNext]_allVars => [Go!Next]_(Go!goVars)
  <2>1. UNCHANGED allVars => UNCHANGED goVars
    BY DEF allVars, vars
  <2>2. ASSUME SInv, SelectNext PROVE Go!Next \/ UNCHANGED goVars
    BY <2>2, CallImplements, SelectStepImplements DEF SelectNext
  <2> QED
    BY <2>1, <2>2 DEF goVars, Go!goVars
<1> QED
  BY <1>1, <1>2, <1>3, <1>4, PTL DEF SelectSpec, Promise, Go!Spec

(* README: "No value is ever delivered twice or lost", of a select whose   *)
(* cases are offered on several channels at once too.                      *)
THEOREM SelectDeliversExactlyOnce == SelectSpec => []ExactlyOnce
BY SelectImplements, PromiseDelivers

(* Every step of the bridge is one of GoChan's, an Abandon, or none.       *)
LEMMA AioNextImplements ==
  ASSUME AInv, AioNext
  PROVE  Go!Next \/ Abandon \/ UNCHANGED goVars
<1>1. SInv
  BY DEF AInv
<1>2. ASSUME NEW p \in Procs, PollAndPark(p) \/ WaitAsThread(p) \/ CloseSteps(p) \/ AioFinish(p)
      PROVE  Go!Next \/ UNCHANGED goVars
  <2>1. SelectStep(p) \/ Step(p)
    BY <1>2 DEF PollAndPark, WaitAsThread, CloseSteps, AioFinish, SelectStep, Step
  <2>2. CASE Step(p)
    BY <1>1, <2>2, PollsImplement, NothingImplements, GiveUpImplements, ClosesImplement,
       RefusalImplements
       DEF Step, Park, Finish, Wake, Expire, LoseTimeout, Withdraw, CloseFinish, CloseDone
  <2> QED
    BY <1>1, <2>1, <2>2, SelectStepImplements
<1>3. ASSUME NEW p \in Procs, AioStep(p) PROVE Go!Next \/ UNCHANGED goVars
  <2>1. CASE CommonStep(p) \/ WaitAsThread(p)
    BY <1>2, <2>1 DEF CommonStep, FinishRaises
  <2>2. CASE TaskStep(p)
    <3>1. CASE OnTimeout(p)
      BY <1>1, <3>1, GiveUpImplements DEF OnTimeout
    <3> QED
      BY <2>2, <3>1 DEF TaskStep, Resolve, OnTimeoutLate, EndTimeout, Resume, CleanUp, EndCancel,
         DropFrom, allVars, vars
  <2> QED
    BY <1>3, <2>1, <2>2 DEF AioStep
<1>4. ASSUME NEW p \in Tasks, Cancel(p) PROVE Abandon \/ UNCHANGED goVars
  <2>1. CASE CommitSelf(p, "cancelled", "cancelling") /\ pc[p] = "parked"
    <3>1. Go!Pending(p)
      BY <1>1, <2>1, OwnPending, AioAssumption DEF CommitSelf, Open
    <3> QED
      BY <2>1, <3>1 DEF CommitSelf, Abandon
  <2> QED
    BY <1>4, <2>1 DEF Cancel
<1>5. CloseLoop => UNCHANGED goVars
  BY DEF CloseLoop, allVars, vars
<1> QED
  BY <1>1, <1>3, <1>4, <1>5, CallImplements DEF AioNext, AioCall

(* The channels keep their promise to tasks too: an operation of a task    *)
(* takes effect at one instant, and a cancelled one either did before, or  *)
(* never does.                                                             *)
THEOREM AioImplements == AioSpec => AioPromise
<1>1. AioInit => AInv /\ Go!Init
  BY AioInitKeeps, SelectInitImplements DEF AioInit
<1>2. AInv /\ [AioNext]_aioVars => AInv'
  BY AioNextKeeps
<1>3. AInv /\ [AioNext]_aioVars => [Go!Next \/ Abandon]_goVars
  <2>1. UNCHANGED aioVars => UNCHANGED goVars
    BY DEF aioVars, allVars, vars
  <2> QED
    BY <2>1, AioNextImplements
<1> QED
  BY <1>1, <1>2, <1>3, PTL DEF AioSpec, AioPromise

LEMMA AbandonKeeps ==
  ASSUME G!GoInv, Abandon
  PROVE  G!GoInv'
<1>1. PICK p \in Tasks :
        /\ Go!Pending(p)
        /\ lin' = [lin EXCEPT ![Cur(p)] = Outcome("cancelled", TimeoutIndex, Unset)]
        /\ UNCHANGED <<closed, buf, nops, call>>
  BY DEF Abandon
<1>2. G!Pending(p) /\ Cur(p) = G!Cur(p) /\ TimeoutIndex \in Int
  BY <1>1 DEF Go!Pending, G!Pending, Go!Cur, G!Cur, Cur, TimeoutIndex
<1>3. lin' = [lin EXCEPT ![G!Cur(p)] = G!Outcome("cancelled", TimeoutIndex, Unset)]
  BY <1>1, <1>2 DEF Outcome, G!Outcome
<1>4. closed' \in [Chans -> BOOLEAN]
  BY <1>1 DEF G!GoInv, G!CallsTypeOK
<1>5. G!Op = Op /\ \A cl : G!IsCall(cl) = IsCall(cl)
  BY DEF G!Op, Op, G!IsCall, IsCall, G!IsFiniteSet, IsFiniteSet, G!Case, Case
<1> QED
  BY <1>1, <1>2, <1>3, <1>4, <1>5, ChanAssumption, AioAssumption, G!EndWithoutValueInv

(* README: "No value is ever delivered twice or lost", where tasks take    *)
(* part too: a value goes to one receiver, also when that is a task which  *)
(* is cancelled afterwards and drops it; a cancelled offer goes nowhere.   *)
THEOREM TasksExactlyOnce == AioSpec => []ExactlyOnce
<1>1. G!GoInv /\ [Go!Next \/ Abandon]_goVars => G!GoInv'
  BY GoInvFacts, AbandonKeeps DEF goVars, Go!goVars
<1> QED
  BY <1>1, GoInvFacts, AioImplements, PTL DEF AioPromise
=============================================================================
