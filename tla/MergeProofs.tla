----------------------------- MODULE MergeProofs -----------------------------
(***************************************************************************)
(* merge() closes its output when every input is closed and drained, and   *)
(* sends on what it takes, for any channels, inputs (given twice, too),    *)
(* threads and calls.  PumpInv relates the pump's place in its loop to its *)
(* latest two calls: a case of the select that was refused named an input  *)
(* that is spent for good, and the value of a call is what the next sends. *)
(* Together with exactly-once delivery: when the pump closes the output,   *)
(* nothing is left behind.                                                 *)
(***************************************************************************)
EXTENDS Merge, GoChanProofs, FiniteSetTheorems

(* Closed and empty: for good, as nothing enters a closed channel.         *)
Spent(c) == closed[c] /\ buf[c] = <<>>

(* An input that left the select is spent.                                 *)
InputsKept ==
  \A k \in DOMAIN Inputs :
    \/ \E j \in DOMAIN remaining : remaining[j] = Inputs[k]
    \/ Spent(Inputs[k])

(* The pump's latest call, and the one before, fit the place it is at.     *)
TookNothing(n) == n > 0 => lin[<<Pump, n>>].got = Unset

AtSelect == Ended /\ TookNothing(nops[Pump])
AtSelecting ==
  /\ nops[Pump] > 0
  /\ call[Pump] = SelectCall(remaining)
  /\ Latest.st \in {"pending", "ok", "closed"}
  /\ Latest.st = "ok" => Latest.got # Unset
  /\ Latest.st = "closed" =>
       /\ Latest.got = Unset
       /\ Latest.i + 1 \in DOMAIN remaining
       /\ Spent(remaining[Latest.i + 1])
  /\ TookNothing(nops[Pump] - 1)
AtSend == Ended /\ nops[Pump] > 0 /\ Latest.got # Unset
AtSending ==
  /\ nops[Pump] > 0
  /\ call[Pump] = OneCaseCall("send", Output)
  /\ Latest.st \in {"pending", "ok", "closed"} /\ Latest.got = Unset
  /\ Latest.st = "closed" => closed[Output]
AtClose == Ended /\ TookNothing(nops[Pump])
ClosesOutput == call[Pump] = OneCaseCall("close", Output)
AtOver ==
  /\ Pending(Pump) => ClosesOutput
  /\ ClosesOutput =>
       /\ nops[Pump] > 0 /\ remaining = <<>>
       /\ TookNothing(nops[Pump]) /\ TookNothing(nops[Pump] - 1)

PumpFits ==
  /\ ppc = "select" => AtSelect
  /\ ppc = "selecting" => AtSelecting
  /\ ppc = "send" => AtSend
  /\ ppc = "sending" => AtSending
  /\ ppc = "close" => AtClose
  /\ ppc = "over" => AtOver

(* The call after one that took a value sends it; only the last of them    *)
(* may have been refused, and then the pump ended.                         *)
SentOn(n) ==
  LET o == lin[<<Pump, n + 1>>] IN
    \/ o.st = "ok" /\ o.got = Unset
    \/ n + 1 = nops[Pump] /\ o.st = "pending" /\ ppc = "sending"
    \/ n + 1 = nops[Pump] /\ o.st = "closed" /\ closed[Output] /\ ppc \in {"sending", "over"}

ValuesSentOn == \A n \in 1..(nops[Pump] - 1) : lin[<<Pump, n>>].got # Unset => SentOn(n)

PumpInv == MergeTypeOK /\ InputsKept /\ PumpFits /\ ValuesSentOn

-----------------------------------------------------------------------------
(* The pump and the others only do what the channels allow.                *)

LEMMA MergeStepIsChannelStep == ASSUME MergeNext PROVE [Next]_goVars
<1>1. CASE PumpStep
  <2>1. Pump \in Procs
    BY MergeAssumption
  <2>2. CASE UNCHANGED goVars
    BY <2>2
  <2>3. CASE Invoke(Pump)
    BY <2>1, <2>3 DEF Next
  <2> QED
    BY <1>1, <2>2, <2>3
    DEF PumpStep, PumpSelect, PumpTook, PumpDropsInput, PumpSend, PumpSent, PumpClose, Calling
<1>2. ASSUME NEW p \in Procs, OtherCalls(p) PROVE Next
  BY <1>2 DEF OtherCalls, Next
<1>3. ASSUME NEW p \in Procs, TakesEffect(p) PROVE Next
  BY <1>3 DEF TakesEffect, Next
<1> QED
  BY <1>1, <1>2, <1>3 DEF MergeNext

-----------------------------------------------------------------------------
(* What an operation that takes effect does to the pump's calls: nothing,  *)
(* or it decides the latest one, by one of its cases.                      *)

Decides(o) ==
  \E i \in DOMAIN call[Pump].cases : \E c \in Chans :
    \/ call[Pump].cases[i] = [dir |-> "send", ch |-> c] /\ o = Outcome("ok", i, Unset)
    \/ call[Pump].cases[i] = [dir |-> "recv", ch |-> c] /\ o.st = "ok" /\ o.got # Unset
    \/ call[Pump].cases[i] = [dir |-> "send", ch |-> c] /\ o = Outcome("closed", i, Unset) /\ closed[c]
    \/ call[Pump].cases[i] = [dir |-> "recv", ch |-> c] /\ o = Outcome("closed", i, Unset) /\ Spent(c)
    \/ call[Pump].cases[i] = [dir |-> "close", ch |-> c] /\ o = Outcome("done", i, Unset)

PumpSees ==
  /\ \A n \in 1..MaxOps : n # nops[Pump] => lin'[<<Pump, n>>] = lin[<<Pump, n>>]
  /\ \/ nops[Pump] > 0 => lin'[Cur(Pump)] = lin[Cur(Pump)]
     \/ Pending(Pump) /\ Decides(lin'[Cur(Pump)])

LEMMA PumpCalls ==
  ASSUME GoInv
  PROVE  /\ nops[Pump] \in 0..MaxOps /\ MaxOps \in Nat
         /\ \A n \in 1..MaxOps : <<Pump, n>> \in Op
         /\ nops[Pump] > 0 => Cur(Pump) \in Op
         /\ Unset \notin Op
BY MergeAssumption, ChanAssumption DEF GoInv, CallsTypeOK, Cur, Op

LEMMA OneDecided ==
  ASSUME GoInv, NEW p \in Procs, Pending(p), NEW o, lin' = [lin EXCEPT ![Cur(p)] = o],
         p = Pump => Decides(o)
  PROVE  PumpSees
<1>1. Cur(p) \in Op
  BY PendingUndecided
<1>2. \A x \in Op : lin'[x] = IF x = Cur(p) THEN o ELSE lin[x]
  BY DEF GoInv, CallsTypeOK
<1>3. \A n \in 1..MaxOps : <<Pump, n>> = Cur(p) <=> p = Pump /\ n = nops[Pump]
  BY DEF Cur
<1>4. \A n \in 1..MaxOps : n # nops[Pump] => lin'[<<Pump, n>>] = lin[<<Pump, n>>]
  BY <1>2, <1>3, PumpCalls
<1>5. CASE p = Pump
  BY <1>1, <1>2, <1>4, <1>5 DEF PumpSees
<1>6. CASE p # Pump
  <2>1. Cur(Pump) # Cur(p)
    BY <1>6 DEF Cur
  <2>2. nops[Pump] > 0 => lin'[Cur(Pump)] = lin[Cur(Pump)]
    BY <1>2, <2>1, PumpCalls
  <2> QED
    BY <1>4, <2>2 DEF PumpSees
<1> QED
  BY <1>5, <1>6

LEMMA TwoDecided ==
  ASSUME GoInv, NEW p \in Procs, Pending(p), NEW q \in Procs, Pending(q), p # q, NEW o, NEW u,
         lin' = [lin EXCEPT ![Cur(p)] = o, ![Cur(q)] = u],
         p = Pump => Decides(o), q = Pump => Decides(u)
  PROVE  PumpSees
<1>1. Cur(p) \in Op /\ Cur(q) \in Op /\ Cur(p) # Cur(q)
  BY PendingUndecided DEF Cur
<1>2. \A x \in Op : lin'[x] = IF x = Cur(q) THEN u ELSE IF x = Cur(p) THEN o ELSE lin[x]
  BY <1>1 DEF GoInv, CallsTypeOK
<1>3. \A n \in 1..MaxOps : /\ <<Pump, n>> = Cur(p) <=> p = Pump /\ n = nops[Pump]
                           /\ <<Pump, n>> = Cur(q) <=> q = Pump /\ n = nops[Pump]
  BY DEF Cur
<1>4. \A n \in 1..MaxOps : n # nops[Pump] => lin'[<<Pump, n>>] = lin[<<Pump, n>>]
  BY <1>2, <1>3, PumpCalls
<1>5. CASE p = Pump
  BY <1>1, <1>2, <1>4, <1>5 DEF PumpSees
<1>6. CASE q = Pump
  BY <1>1, <1>2, <1>4, <1>6 DEF PumpSees
<1>7. CASE p # Pump /\ q # Pump
  <2>1. Cur(Pump) # Cur(p) /\ Cur(Pump) # Cur(q)
    BY <1>7 DEF Cur
  <2>2. nops[Pump] > 0 => lin'[Cur(Pump)] = lin[Cur(Pump)]
    BY <1>2, <2>1, PumpCalls
  <2> QED
    BY <1>4, <2>2 DEF PumpSees
<1> QED
  BY <1>5, <1>6, <1>7

(* What is over stays over, and the pump sees at most its own outcome.     *)
LEMMA EffectSeen ==
  ASSUME GoInv, NEW p \in Procs, TakesEffect(p)
  PROVE  /\ UNCHANGED <<nops, call, remaining, ppc>>
         /\ \A c \in Chans : (closed[c] => closed'[c]) /\ (Spent(c) => Spent(c)')
         /\ PumpSees
<1>0. /\ closed \in [Chans -> BOOLEAN] /\ buf \in [Chans -> Seq(Op)] /\ CallsTypeOK
      /\ Unset \notin Op
  BY PumpCalls DEF GoInv, CallsTypeOK
<1>1. ASSUME NEW i \in DOMAIN call[p].cases, NEW c \in Chans, Enqueue(p, i, c)
      PROVE  /\ UNCHANGED <<nops, call>>
             /\ \A d \in Chans : (closed[d] => closed'[d]) /\ (Spent(d) => Spent(d)')
             /\ PumpSees
  <2>1. Pending(p) /\ (p = Pump => Decides(Outcome("ok", i, Unset)))
    BY <1>1 DEF Enqueue, Offers, Decides
  <2>2. \A d \in Chans : (closed[d] => closed'[d]) /\ (Spent(d) => Spent(d)')
    BY <1>0, <1>1 DEF Enqueue, Spent
  <2> QED
    BY <1>1, <2>1, <2>2, OneDecided DEF Enqueue
<1>2. ASSUME NEW i \in DOMAIN call[p].cases, NEW c \in Chans, Dequeue(p, i, c)
      PROVE  /\ UNCHANGED <<nops, call>>
             /\ \A d \in Chans : (closed[d] => closed'[d]) /\ (Spent(d) => Spent(d)')
             /\ PumpSees
  <2>1. Head(buf[c]) \in Op
    BY <1>0, <1>2 DEF Dequeue
  <2>2. Outcome("ok", i, Head(buf[c])).st = "ok" /\ Outcome("ok", i, Head(buf[c])).got # Unset
    BY <1>0, <2>1 DEF Outcome
  <2>3. Pending(p) /\ (p = Pump => Decides(Outcome("ok", i, Head(buf[c]))))
    BY <1>2, <2>2 DEF Dequeue, Offers, Decides
  <2>4. \A d \in Chans : (closed[d] => closed'[d]) /\ (Spent(d) => Spent(d)')
    BY <1>0, <1>2 DEF Dequeue, Spent
  <2> QED
    BY <1>2, <2>3, <2>4, OneDecided DEF Dequeue
<1>3. ASSUME NEW i \in DOMAIN call[p].cases, NEW c \in Chans, Refuse(p, i, c)
      PROVE  /\ UNCHANGED <<nops, call>>
             /\ \A d \in Chans : (closed[d] => closed'[d]) /\ (Spent(d) => Spent(d)')
             /\ PumpSees
  <2>1. Pending(p) /\ (p = Pump => Decides(Outcome("closed", i, Unset)))
    BY <1>3 DEF Refuse, Offers, Decides, Spent
  <2> QED
    BY <1>3, <2>1, OneDecided DEF Refuse, Spent
<1>4. ASSUME NEW i \in DOMAIN call[p].cases, NEW c \in Chans, Close(p, i, c)
      PROVE  /\ UNCHANGED <<nops, call>>
             /\ \A d \in Chans : (closed[d] => closed'[d]) /\ (Spent(d) => Spent(d)')
             /\ PumpSees
  <2>1. Pending(p) /\ (p = Pump => Decides(Outcome("done", i, Unset)))
    BY <1>4 DEF Close, Offers, Decides
  <2>2. \A d \in Chans : (closed[d] => closed'[d]) /\ (Spent(d) => Spent(d)')
    BY <1>0, <1>4 DEF Close, Spent
  <2> QED
    BY <1>4, <2>1, <2>2, OneDecided DEF Close
<1>5. ASSUME NEW i \in DOMAIN call[p].cases, NEW c \in Chans,
             NEW q \in Procs, NEW j \in DOMAIN call[q].cases, Rendezvous(p, i, q, j, c)
      PROVE  /\ UNCHANGED <<nops, call>>
             /\ \A d \in Chans : (closed[d] => closed'[d]) /\ (Spent(d) => Spent(d)')
             /\ PumpSees
  <2>1. Pending(p) /\ Pending(q) /\ p # q /\ Cur(p) # Unset
    BY <1>0, <1>5, PendingUndecided DEF Rendezvous, Offers
  <2>2. Outcome("ok", j, Cur(p)).st = "ok" /\ Outcome("ok", j, Cur(p)).got # Unset
    BY <2>1 DEF Outcome
  <2>3. (p = Pump => Decides(Outcome("ok", i, Unset))) /\ (q = Pump => Decides(Outcome("ok", j, Cur(p))))
    BY <1>5, <2>2 DEF Rendezvous, Offers, Decides
  <2> QED
    BY <1>5, <2>1, <2>3, TwoDecided DEF Rendezvous, Spent
<1>6. ASSUME NEW i \in DOMAIN call[p].cases, NEW c \in Chans,
             NEW q \in Procs, NEW j \in DOMAIN call[q].cases, DequeueRefill(p, i, q, j, c)
      PROVE  /\ UNCHANGED <<nops, call>>
             /\ \A d \in Chans : (closed[d] => closed'[d]) /\ (Spent(d) => Spent(d)')
             /\ PumpSees
  <2>1. Head(buf[c]) \in Op /\ Pending(p) /\ Pending(q) /\ p # q
    BY <1>0, <1>6 DEF DequeueRefill, Offers
  <2>2. Outcome("ok", j, Head(buf[c])).st = "ok" /\ Outcome("ok", j, Head(buf[c])).got # Unset
    BY <1>0, <2>1 DEF Outcome
  <2>3. (p = Pump => Decides(Outcome("ok", i, Unset))) /\ (q = Pump => Decides(Outcome("ok", j, Head(buf[c]))))
    BY <1>6, <2>2 DEF DequeueRefill, Offers, Decides
  <2>4. \A d \in Chans : (closed[d] => closed'[d]) /\ (Spent(d) => Spent(d)')
    BY <1>0, <1>6 DEF DequeueRefill, Spent
  <2> QED
    BY <1>6, <2>1, <2>3, <2>4, TwoDecided DEF DequeueRefill
<1> QED
  BY <1>1, <1>2, <1>3, <1>4, <1>5, <1>6 DEF TakesEffect

(* What the pump's three calls come to.                                    *)
LEMMA DecidesEnds == ASSUME NEW o, Decides(o) PROVE o.st # "pending"
BY DEF Decides, Outcome

LEMMA SelectDecided ==
  ASSUME remaining \in Seq(Chans), call[Pump] = SelectCall(remaining), NEW o, Decides(o)
  PROVE  \/ o.st = "ok" /\ o.got # Unset
         \/ /\ o.st = "closed" /\ o.got = Unset
            /\ o.i + 1 \in DOMAIN remaining /\ Spent(remaining[o.i + 1])
<1>1. /\ DOMAIN call[Pump].cases = 0..(Len(remaining) - 1)
      /\ \A i \in DOMAIN call[Pump].cases : call[Pump].cases[i] = [dir |-> "recv", ch |-> remaining[i + 1]]
  BY DEF SelectCall
<1>2. PICK i \in DOMAIN call[Pump].cases, c \in Chans :
        \/ call[Pump].cases[i] = [dir |-> "send", ch |-> c]
        \/ call[Pump].cases[i] = [dir |-> "close", ch |-> c]
        \/ o.st = "ok" /\ o.got # Unset
        \/ /\ call[Pump].cases[i] = [dir |-> "recv", ch |-> c]
           /\ o = Outcome("closed", i, Unset) /\ Spent(c)
  BY Zenon DEF Decides
<1>3. /\ i + 1 \in DOMAIN remaining
      /\ call[Pump].cases[i].dir = "recv" /\ call[Pump].cases[i].ch = remaining[i + 1]
  <2>1. call[Pump].cases[i] = [dir |-> "recv", ch |-> remaining[i + 1]]
    BY <1>1
  <2>2. i + 1 \in DOMAIN remaining
    BY <1>1
  <2> QED
    BY <2>1, <2>2
<1>4. CASE o.st = "ok" /\ o.got # Unset
  BY <1>4
<1>5. CASE call[Pump].cases[i].ch = c /\ o = Outcome("closed", i, Unset) /\ Spent(c)
  BY <1>3, <1>5 DEF Outcome
<1> QED
  BY <1>2, <1>3, <1>4, <1>5

LEMMA SendDecided ==
  ASSUME call[Pump] = OneCaseCall("send", Output), NEW o, Decides(o)
  PROVE  o.got = Unset /\ (o.st = "ok" \/ (o.st = "closed" /\ closed[Output]))
<1>1. \A i \in DOMAIN call[Pump].cases : call[Pump].cases[i] = [dir |-> "send", ch |-> Output]
  BY DEF OneCaseCall
<1>2. PICK i \in DOMAIN call[Pump].cases, c \in Chans :
        \/ o = Outcome("ok", i, Unset)
        \/ call[Pump].cases[i] = [dir |-> "recv", ch |-> c]
        \/ call[Pump].cases[i] = [dir |-> "close", ch |-> c]
        \/ /\ call[Pump].cases[i] = [dir |-> "send", ch |-> c]
           /\ o = Outcome("closed", i, Unset) /\ closed[c]
  BY Zenon DEF Decides
<1>3. call[Pump].cases[i].dir = "send" /\ call[Pump].cases[i].ch = Output
  BY <1>1
<1>4. CASE o = Outcome("ok", i, Unset)
  BY <1>4 DEF Outcome
<1>5. CASE call[Pump].cases[i].ch = c /\ o = Outcome("closed", i, Unset) /\ closed[c]
  BY <1>3, <1>5 DEF Outcome
<1> QED
  BY <1>2, <1>3, <1>4, <1>5

LEMMA CloseDecided ==
  ASSUME call[Pump] = OneCaseCall("close", Output), NEW o, Decides(o)
  PROVE  o.got = Unset
<1>1. \A i \in DOMAIN call[Pump].cases : call[Pump].cases[i] = [dir |-> "close", ch |-> Output]
  BY DEF OneCaseCall
<1>2. PICK i \in DOMAIN call[Pump].cases, c \in Chans :
        \/ call[Pump].cases[i] = [dir |-> "send", ch |-> c]
        \/ call[Pump].cases[i] = [dir |-> "recv", ch |-> c]
        \/ o = Outcome("done", i, Unset)
  BY Zenon DEF Decides
<1>3. call[Pump].cases[i].dir = "close"
  BY <1>1
<1> QED
  BY <1>2, <1>3 DEF Outcome

-----------------------------------------------------------------------------
(* PumpInv is inductive.                                                   *)

LEMMA PumpInvInit == ASSUME MergeInit PROVE PumpInv
<1>1. CallsTypeOK
  BY GoInitInv DEF MergeInit, GoInv
<1>2. nops[Pump] = 0 /\ Ended
  BY MergeAssumption DEF MergeInit, Init, CallsInit, Ended, Pending
<1>3. remaining = Inputs /\ ppc = "select" /\ remaining \in Seq(Chans) /\ remaining # <<>>
  BY MergeAssumption DEF MergeInit
<1> QED
  BY <1>1, <1>2, <1>3
  DEF PumpInv, MergeTypeOK, InputsKept, PumpFits, AtSelect, TookNothing, ValuesSentOn

(* A step of the channels: the pump's place does not change, and its       *)
(* latest call may be decided.                                             *)
LEMMA EffectInv ==
  ASSUME GoInv, GoInv', PumpInv, NEW p \in Procs, TakesEffect(p)
  PROVE  PumpInv'
<1>1. /\ UNCHANGED <<nops, call, remaining, ppc>>
      /\ \A c \in Chans : (closed[c] => closed'[c]) /\ (Spent(c) => Spent(c)')
      /\ PumpSees
  BY EffectSeen
<1>2. /\ \A n \in 1..MaxOps : n # nops[Pump] => lin'[<<Pump, n>>] = lin[<<Pump, n>>]
      /\ nops[Pump] \in 0..MaxOps /\ MaxOps \in Nat
      /\ Cur(Pump)' = Cur(Pump)
  BY <1>1, PumpCalls DEF PumpSees, Cur
<1>3. remaining \in Seq(Chans) /\ Output \in Chans /\ Inputs \in Seq(Chans)
  BY MergeAssumption DEF PumpInv, MergeTypeOK
<1>4. \A n \in {nops[Pump] - 1} : TookNothing(n) => TookNothing(n)'
  BY <1>2 DEF TookNothing
<1>5. InputsKept'
  <2>1. \A k \in DOMAIN Inputs : Inputs[k] \in Chans
    BY <1>3
  <2> QED
    BY <1>1, <2>1 DEF PumpInv, InputsKept
<1>6. CASE nops[Pump] > 0 => lin'[Cur(Pump)] = lin[Cur(Pump)]
  <2>1. Latest' = Latest \/ nops[Pump] = 0
    BY <1>2, <1>6 DEF Latest
  <2>2. Pending(Pump)' = Pending(Pump) /\ Ended' = Ended
    BY <1>1, <1>2, <1>6 DEF Pending, Ended
  <2>3. MergeTypeOK'
    BY <1>1, <2>2 DEF PumpInv, MergeTypeOK, GoInv
  <2>4. \A n \in 1..MaxOps : lin'[<<Pump, n>>] = lin[<<Pump, n>>]
    BY <1>2, <1>6 DEF Cur
  <2>5. \A n \in 0..MaxOps : TookNothing(n)' <=> TookNothing(n)
    BY <2>4 DEF TookNothing
  <2>6. PumpFits'
    <3>1. AtSelect => AtSelect'
      BY <1>1, <1>2, <2>2, <2>5 DEF AtSelect
    <3>2. AtSelecting => AtSelecting'
      <4> SUFFICES ASSUME AtSelecting PROVE AtSelecting'
        OBVIOUS
      <4>1. Latest' = Latest /\ nops'[Pump] > 0 /\ nops[Pump] - 1 \in 0..MaxOps
        BY <1>1, <1>2, <2>1 DEF AtSelecting
      <4>2. Latest.i + 1 \in DOMAIN remaining => remaining[Latest.i + 1] \in Chans
        BY <1>3
      <4> QED
        BY <1>1, <4>1, <4>2, <2>5 DEF AtSelecting
    <3>3. AtSend => AtSend'
      BY <1>1, <1>2, <2>1, <2>2 DEF AtSend
    <3>4. AtSending => AtSending'
      BY <1>1, <1>2, <1>3, <2>1, <2>2 DEF AtSending
    <3>5. AtClose => AtClose'
      BY <1>1, <1>2, <2>2, <2>5 DEF AtClose
    <3>6. AtOver => AtOver'
      <4>1. ClosesOutput' <=> ClosesOutput
        BY <1>1 DEF ClosesOutput, OneCaseCall
      <4>2. nops[Pump] > 0 => nops[Pump] - 1 \in 0..MaxOps
        BY <1>2
      <4> QED
        BY <1>1, <1>2, <2>2, <2>5, <4>1, <4>2 DEF AtOver
    <3> QED
      BY <1>1, <3>1, <3>2, <3>3, <3>4, <3>5, <3>6 DEF PumpInv, PumpFits
  <2>7. ValuesSentOn'
    <3> SUFFICES ASSUME NEW n \in 1..(nops[Pump] - 1), lin'[<<Pump, n>>].got # Unset
                 PROVE  SentOn(n)'
      BY <1>1 DEF ValuesSentOn
    <3>1. n \in 1..MaxOps /\ n + 1 \in 1..MaxOps
      BY <1>2
    <3>2. SentOn(n)
      BY <3>1, <2>4 DEF PumpInv, ValuesSentOn
    <3> QED
      BY <1>1, <1>3, <2>4, <3>1, <3>2 DEF SentOn
  <2> QED
    BY <1>5, <2>3, <2>6, <2>7 DEF PumpInv
<1>7. CASE Pending(Pump) /\ Decides(lin'[Cur(Pump)])
  <2> DEFINE o == lin'[Cur(Pump)]
  <2>0. o = Latest' /\ nops[Pump] > 0 /\ Latest.st = "pending"
    BY <1>2, <1>7 DEF Pending, Latest
  <2>1. o.st # "pending"
    BY <1>7, DecidesEnds
  <2>2. ~Pending(Pump)' /\ ppc \in {"selecting", "sending", "over"}
    BY <1>1, <1>2, <1>7, <2>1 DEF Pending, Ended, PumpInv, MergeTypeOK
  <2>3. MergeTypeOK'
    BY <1>1, <2>2 DEF PumpInv, MergeTypeOK, GoInv
  <2>4. PumpFits'
    <3>1. CASE ppc = "selecting"
      <4>1. AtSelecting
        BY <3>1 DEF PumpInv, PumpFits
      <4>2. \/ o.st = "ok" /\ o.got # Unset
            \/ /\ o.st = "closed" /\ o.got = Unset
               /\ o.i + 1 \in DOMAIN remaining /\ Spent(remaining[o.i + 1])
        BY <1>3, <1>7, <4>1, SelectDecided DEF AtSelecting
      <4>3. o.i + 1 \in DOMAIN remaining => remaining[o.i + 1] \in Chans
        BY <1>3
      <4>4. AtSelecting'
        BY <1>1, <1>2, <1>4, <2>0, <4>1, <4>2, <4>3 DEF AtSelecting
      <4> QED
        BY <1>1, <3>1, <4>4 DEF PumpFits
    <3>2. CASE ppc = "sending"
      <4>1. AtSending
        BY <3>2 DEF PumpInv, PumpFits
      <4>2. o.got = Unset /\ (o.st = "ok" \/ (o.st = "closed" /\ closed[Output]))
        BY <1>7, <4>1, SendDecided DEF AtSending
      <4>3. AtSending'
        BY <1>1, <1>2, <1>3, <2>0, <4>1, <4>2 DEF AtSending
      <4> QED
        BY <1>1, <3>2, <4>3 DEF PumpFits
    <3>3. CASE ppc = "over"
      <4>1. AtOver /\ ClosesOutput
        BY <1>7, <3>3 DEF PumpInv, PumpFits, AtOver
      <4>2. o.got = Unset
        BY <1>7, <4>1, CloseDecided DEF ClosesOutput
      <4>3. TookNothing(nops[Pump])'
        BY <1>1, <2>0, <4>2 DEF TookNothing, Latest, Cur
      <4>4. TookNothing(nops[Pump] - 1)'
        BY <1>1, <1>4, <4>1 DEF AtOver, TookNothing
      <4>5. AtOver'
        BY <1>1, <2>2, <4>1, <4>3, <4>4 DEF AtOver
      <4> QED
        BY <1>1, <3>3, <4>5 DEF PumpFits
    <3> QED
      BY <2>2, <3>1, <3>2, <3>3
  <2>5. ValuesSentOn'
    <3> SUFFICES ASSUME NEW n \in 1..(nops[Pump] - 1), lin'[<<Pump, n>>].got # Unset
                 PROVE  SentOn(n)'
      BY <1>1 DEF ValuesSentOn
    <3>1. n \in 1..MaxOps /\ n + 1 \in 1..MaxOps /\ n # nops[Pump]
      BY <1>2
    <3>2. SentOn(n)
      BY <1>2, <3>1 DEF PumpInv, ValuesSentOn
    <3>3. CASE n + 1 # nops[Pump]
      BY <1>1, <1>2, <3>1, <3>2, <3>3 DEF SentOn
    <3>4. CASE n + 1 = nops[Pump]
      <4>1. ppc = "sending" /\ lin[<<Pump, n + 1>>] = Latest /\ lin'[<<Pump, n + 1>>] = o
        BY <1>1, <1>2, <2>0, <3>2, <3>4 DEF SentOn, Cur, Latest
      <4>2. AtSending
        BY <4>1 DEF PumpInv, PumpFits
      <4>3. o.got = Unset /\ (o.st = "ok" \/ (o.st = "closed" /\ closed[Output]))
        BY <1>7, <4>2, SendDecided DEF AtSending
      <4> QED
        BY <1>1, <1>3, <3>4, <4>1, <4>3 DEF SentOn
    <3> QED
      BY <3>3, <3>4
  <2> QED
    BY <1>5, <2>3, <2>4, <2>5 DEF PumpInv
<1> QED
  BY <1>1, <1>6, <1>7 DEF PumpSees

(* Another thread calls.                                                   *)
LEMMA OthersInv ==
  ASSUME GoInv, GoInv', PumpInv, NEW p \in Procs, OtherCalls(p)
  PROVE  PumpInv'
<1>1. /\ UNCHANGED <<closed, buf, remaining, ppc>>
      /\ nops'[Pump] = nops[Pump] /\ call'[Pump] = call[Pump]
      /\ \A n \in 1..MaxOps : lin'[<<Pump, n>>] = lin[<<Pump, n>>]
  <2>1. <<p, nops[p] + 1>> # <<Pump, nops[Pump]>> /\ \A n \in 1..MaxOps : <<p, nops[p] + 1>> # <<Pump, n>>
    BY DEF OtherCalls
  <2> QED
    BY <2>1, PumpCalls, MergeAssumption DEF OtherCalls, Invoke, NewCall, GoInv, CallsTypeOK
<1>2. nops[Pump] \in 0..MaxOps /\ MaxOps \in Nat
  BY PumpCalls
<1>3. Cur(Pump)' = Cur(Pump) /\ (nops[Pump] > 0 => Latest' = Latest) /\ (Pending(Pump)' <=> Pending(Pump))
      /\ (Ended' <=> Ended)
  <2>1. Cur(Pump)' = Cur(Pump) /\ (nops[Pump] > 0 => Latest' = Latest)
    BY <1>1, <1>2 DEF Cur, Latest
  <2>2. Pending(Pump)' <=> Pending(Pump)
    BY <1>1, <2>1 DEF Pending, Latest
  <2> QED
    BY <2>1, <2>2 DEF Ended
<1>4. MergeTypeOK'
  BY <1>1, <1>3 DEF PumpInv, MergeTypeOK, GoInv
<1>5. InputsKept'
  BY <1>1 DEF PumpInv, InputsKept, Spent
<1>6. \A n \in 0..MaxOps : TookNothing(n)' <=> TookNothing(n)
  BY <1>1 DEF TookNothing
<1>7. PumpFits'
  <2>1. nops[Pump] > 0 => nops[Pump] - 1 \in 0..MaxOps
    BY <1>2
  <2>2. AtSelect => AtSelect'
    BY <1>1, <1>2, <1>3, <1>6 DEF AtSelect
  <2>3. AtSelecting => AtSelecting'
    BY <1>1, <1>2, <1>3, <1>6, <2>1 DEF AtSelecting, Spent
  <2>4. AtSend => AtSend'
    BY <1>1, <1>3 DEF AtSend
  <2>5. AtSending => AtSending'
    BY <1>1, <1>3 DEF AtSending
  <2>6. AtClose => AtClose'
    BY <1>1, <1>2, <1>3, <1>6 DEF AtClose
  <2>7. AtOver => AtOver'
    <3>1. ClosesOutput' <=> ClosesOutput
      BY <1>1 DEF ClosesOutput, OneCaseCall
    <3> QED
      BY <1>1, <1>2, <1>3, <1>6, <2>1, <3>1 DEF AtOver
  <2> QED
    BY <1>1, <2>2, <2>3, <2>4, <2>5, <2>6, <2>7 DEF PumpInv, PumpFits
<1>8. ValuesSentOn'
  <2> SUFFICES ASSUME NEW n \in 1..(nops[Pump] - 1), lin'[<<Pump, n>>].got # Unset
               PROVE  SentOn(n)'
    BY <1>1 DEF ValuesSentOn
  <2>1. n \in 1..MaxOps /\ n + 1 \in 1..MaxOps
    BY <1>2
  <2>2. SentOn(n)
    BY <1>1, <2>1 DEF PumpInv, ValuesSentOn
  <2> QED
    BY <1>1, <2>1, <2>2 DEF SentOn
<1> QED
  BY <1>4, <1>5, <1>7, <1>8 DEF PumpInv


(* The pump calls: its latest call becomes the one before.                 *)
LEMMA PumpCalled ==
  ASSUME GoInv, NEW cl, Calling(cl)
  PROVE  /\ UNCHANGED <<closed, buf>>
         /\ nops'[Pump] = nops[Pump] + 1 /\ nops[Pump] + 1 \in 1..MaxOps
         /\ call'[Pump] = cl
         /\ \A n \in 1..MaxOps : n # nops[Pump] + 1 => lin'[<<Pump, n>>] = lin[<<Pump, n>>]
         /\ lin'[<<Pump, nops[Pump] + 1>>] = Outcome("pending", NoIndex, Unset)
         /\ Latest' = Outcome("pending", NoIndex, Unset)
<1>1. /\ UNCHANGED <<closed, buf>> /\ call'[Pump] = cl
      /\ nops[Pump] < MaxOps /\ nops' = [nops EXCEPT ![Pump] = nops[Pump] + 1]
      /\ lin' = [lin EXCEPT ![<<Pump, nops[Pump] + 1>>] = Outcome("pending", NoIndex, Unset)]
  BY DEF Calling, Invoke, NewCall
<1>2. nops'[Pump] = nops[Pump] + 1 /\ nops[Pump] + 1 \in 1..MaxOps
  <2>1. Pump \in Procs /\ nops \in [Procs -> 0..MaxOps]
    BY MergeAssumption DEF GoInv, CallsTypeOK
  <2>2. nops'[Pump] = nops[Pump] + 1
    BY <1>1, <2>1
  <2> QED
    BY <1>1, <2>1, <2>2, PumpCalls
<1>3. \A n \in 1..MaxOps : <<Pump, n>> \in Op /\ (<<Pump, n>> = <<Pump, nops[Pump] + 1>> <=> n = nops[Pump] + 1)
  BY PumpCalls
<1>4. \A n \in 1..MaxOps : lin'[<<Pump, n>>] =
        IF n = nops[Pump] + 1 THEN Outcome("pending", NoIndex, Unset) ELSE lin[<<Pump, n>>]
  BY <1>1, <1>3 DEF GoInv, CallsTypeOK
<1>5. Latest' = lin'[<<Pump, nops[Pump] + 1>>]
  BY <1>2 DEF Latest, Cur
<1> QED
  BY <1>1, <1>2, <1>4, <1>5

(* What the calls before the new one say of the history.                   *)
LEMMA HistoryGrows ==
  ASSUME GoInv, PumpInv, NEW cl, Calling(cl), ppc \in {"select", "send", "close"},
         nops[Pump] > 0 => \/ lin[<<Pump, nops[Pump]>>].got = Unset
                           \/ ppc' = "sending"
  PROVE  ValuesSentOn'
<1>1. /\ UNCHANGED <<closed, buf>>
      /\ nops'[Pump] = nops[Pump] + 1 /\ nops[Pump] + 1 \in 1..MaxOps
      /\ \A n \in 1..MaxOps : n # nops[Pump] + 1 => lin'[<<Pump, n>>] = lin[<<Pump, n>>]
      /\ lin'[<<Pump, nops[Pump] + 1>>] = Outcome("pending", NoIndex, Unset)
      /\ nops[Pump] \in 0..MaxOps /\ MaxOps \in Nat
  BY PumpCalled, PumpCalls
<1> SUFFICES ASSUME NEW n \in 1..nops[Pump], lin'[<<Pump, n>>].got # Unset
             PROVE  SentOn(n)'
  BY <1>1 DEF ValuesSentOn
<1>2. n \in 1..MaxOps /\ n # nops[Pump] + 1 /\ lin[<<Pump, n>>].got # Unset
  BY <1>1
<1>3. CASE n = nops[Pump]
  BY <1>1, <1>2, <1>3 DEF SentOn, Outcome
<1>4. CASE n # nops[Pump]
  <2>1. n \in 1..(nops[Pump] - 1) /\ n + 1 \in 1..MaxOps /\ n + 1 # nops[Pump] + 1
    BY <1>1, <1>4
  <2>2. lin[<<Pump, n + 1>>].st = "ok" /\ lin[<<Pump, n + 1>>].got = Unset
    BY <1>2, <2>1 DEF PumpInv, ValuesSentOn, SentOn
  <2> QED
    BY <1>1, <2>1, <2>2 DEF SentOn
<1> QED
  BY <1>3, <1>4

LEMMA PumpSelectInv == ASSUME GoInv, GoInv', PumpInv, PumpSelect PROVE PumpInv'
<1>1. Calling(SelectCall(remaining)) /\ ppc = "select" /\ ppc' = "selecting" /\ remaining' = remaining
  BY DEF PumpSelect
<1>2. /\ UNCHANGED <<closed, buf>> /\ call'[Pump] = SelectCall(remaining)
      /\ nops'[Pump] = nops[Pump] + 1 /\ nops[Pump] + 1 \in 1..MaxOps /\ nops[Pump] \in 0..MaxOps
      /\ \A n \in 1..MaxOps : n # nops[Pump] + 1 => lin'[<<Pump, n>>] = lin[<<Pump, n>>]
      /\ Latest' = Outcome("pending", NoIndex, Unset) /\ MaxOps \in Nat
  BY <1>1, PumpCalled, PumpCalls
<1>3. TookNothing(nops[Pump])
  BY <1>1 DEF PumpInv, PumpFits, AtSelect
<1>4. AtSelecting'
  <2>1. nops'[Pump] - 1 = nops[Pump] /\ (nops[Pump] > 0 => nops[Pump] \in 1..MaxOps)
    BY <1>2
  <2>2. nops[Pump] > 0 => lin'[<<Pump, nops[Pump]>>].got = Unset
    BY <1>2, <1>3, <2>1 DEF TookNothing
  <2>3. SelectCall(remaining)' = SelectCall(remaining)
    BY <1>1 DEF SelectCall
  <2>4. Latest'.st = "pending"
    BY <1>2 DEF Outcome
  <2> QED
    BY <1>2, <2>1, <2>2, <2>3, <2>4 DEF AtSelecting, TookNothing
<1>5. MergeTypeOK'
  BY <1>1 DEF PumpInv, MergeTypeOK, GoInv
<1>6. InputsKept'
  BY <1>1, <1>2 DEF PumpInv, InputsKept, Spent
<1>7. ValuesSentOn'
  BY <1>1, <1>3, HistoryGrows DEF TookNothing
<1> QED
  BY <1>1, <1>4, <1>5, <1>6, <1>7 DEF PumpInv, PumpFits

LEMMA PumpSendInv == ASSUME GoInv, GoInv', PumpInv, PumpSend PROVE PumpInv'
<1>1. Calling(OneCaseCall("send", Output)) /\ ppc = "send" /\ ppc' = "sending" /\ remaining' = remaining
  BY DEF PumpSend
<1>2. /\ UNCHANGED <<closed, buf>> /\ call'[Pump] = OneCaseCall("send", Output)
      /\ nops'[Pump] = nops[Pump] + 1 /\ nops[Pump] + 1 \in 1..MaxOps
      /\ Latest' = Outcome("pending", NoIndex, Unset)
  BY <1>1, PumpCalled
<1>3. AtSending'
  BY <1>2 DEF AtSending, Outcome, OneCaseCall
<1>4. MergeTypeOK'
  BY <1>1 DEF PumpInv, MergeTypeOK, GoInv
<1>5. InputsKept'
  BY <1>1, <1>2 DEF PumpInv, InputsKept, Spent
<1>6. ValuesSentOn'
  BY <1>1, HistoryGrows
<1> QED
  BY <1>1, <1>3, <1>4, <1>5, <1>6 DEF PumpInv, PumpFits

LEMMA PumpCloseInv == ASSUME GoInv, GoInv', PumpInv, PumpClose PROVE PumpInv'
<1>1. Calling(OneCaseCall("close", Output)) /\ ppc = "close" /\ ppc' = "over" /\ remaining' = remaining
  BY DEF PumpClose
<1>2. /\ UNCHANGED <<closed, buf>> /\ call'[Pump] = OneCaseCall("close", Output)
      /\ nops'[Pump] = nops[Pump] + 1 /\ nops[Pump] + 1 \in 1..MaxOps /\ nops[Pump] \in 0..MaxOps
      /\ \A n \in 1..MaxOps : n # nops[Pump] + 1 => lin'[<<Pump, n>>] = lin[<<Pump, n>>]
      /\ Latest' = Outcome("pending", NoIndex, Unset) /\ MaxOps \in Nat
  BY <1>1, PumpCalled, PumpCalls
<1>3. TookNothing(nops[Pump])
  BY <1>1 DEF PumpInv, PumpFits, AtClose
<1>4. AtOver'
  <2>1. nops'[Pump] - 1 = nops[Pump] /\ (nops[Pump] > 0 => nops[Pump] \in 1..MaxOps)
    BY <1>2
  <2>2. nops[Pump] > 0 => lin'[<<Pump, nops[Pump]>>].got = Unset
    BY <1>2, <1>3, <2>1 DEF TookNothing
  <2>3. ClosesOutput'
    BY <1>2 DEF ClosesOutput, OneCaseCall
  <2>4. remaining' = <<>>
    BY <1>1 DEF PumpInv, MergeTypeOK
  <2>5. TookNothing(nops[Pump])'
    BY <1>2 DEF TookNothing, Latest, Cur, Outcome
  <2> QED
    BY <1>2, <2>1, <2>2, <2>3, <2>4, <2>5 DEF AtOver, TookNothing
<1>5. MergeTypeOK'
  BY <1>1 DEF PumpInv, MergeTypeOK, GoInv
<1>6. InputsKept'
  BY <1>1, <1>2 DEF PumpInv, InputsKept, Spent
<1>7. ValuesSentOn'
  BY <1>1, <1>3, HistoryGrows DEF TookNothing
<1> QED
  BY <1>1, <1>4, <1>5, <1>6, <1>7 DEF PumpInv, PumpFits

(* The pump learns what its call did.  No call changes meanwhile.          *)
LEMMA PumpTookInv == ASSUME GoInv, GoInv', PumpInv, PumpTook PROVE PumpInv'
<1>1. ppc = "selecting" /\ ppc' = "send" /\ Ended /\ Latest.st = "ok" /\ UNCHANGED <<goVars, remaining>>
  BY DEF PumpTook
<1>2. /\ UNCHANGED <<closed, buf, nops, call, lin>> /\ Latest' = Latest /\ (Ended' <=> Ended)
  BY <1>1 DEF goVars, Latest, Cur, Ended, Pending
<1>3. AtSend'
  BY <1>1, <1>2 DEF PumpInv, PumpFits, AtSelecting, AtSend
<1>4. MergeTypeOK'
  BY <1>1, <1>2 DEF PumpInv, MergeTypeOK, GoInv
<1>5. InputsKept'
  BY <1>1, <1>2 DEF PumpInv, InputsKept, Spent
<1>6. ValuesSentOn'
  BY <1>1, <1>2 DEF PumpInv, ValuesSentOn, SentOn
<1> QED
  BY <1>1, <1>3, <1>4, <1>5, <1>6 DEF PumpInv, PumpFits

LEMMA PumpSentInv == ASSUME GoInv, GoInv', PumpInv, PumpSent PROVE PumpInv'
<1>1. ppc = "sending" /\ Ended /\ ppc' = (IF Latest.st = "ok" THEN "select" ELSE "over")
      /\ UNCHANGED <<goVars, remaining>>
  BY DEF PumpSent
<1>2. /\ UNCHANGED <<closed, buf, nops, call, lin>> /\ Latest' = Latest /\ (Ended' <=> Ended)
  BY <1>1 DEF goVars, Latest, Cur, Ended, Pending
<1>3. AtSending
  BY <1>1 DEF PumpInv, PumpFits
<1>4. AtSelect' /\ AtOver'
  <2>1. ~Pending(Pump)'
    BY <1>1, <1>2 DEF Ended
  <2>2. TookNothing(nops[Pump])'
    BY <1>2, <1>3 DEF AtSending, TookNothing, Latest, Cur
  <2>3. ~ClosesOutput'
    <3>1. call'[Pump].cases[0].dir = "send"
      BY <1>2, <1>3 DEF AtSending, OneCaseCall
    <3>2. ClosesOutput' => call'[Pump].cases[0].dir = "close"
      BY DEF ClosesOutput, OneCaseCall
    <3> QED
      BY <3>1, <3>2
  <2> QED
    BY <1>1, <1>2, <2>1, <2>2, <2>3 DEF AtSelect, AtOver
<1>5. MergeTypeOK'
  BY <1>1, <1>2 DEF PumpInv, MergeTypeOK, GoInv
<1>6. InputsKept'
  BY <1>1, <1>2 DEF PumpInv, InputsKept, Spent
<1>7. ValuesSentOn'
  <2> SUFFICES ASSUME NEW n \in 1..(nops[Pump] - 1), lin[<<Pump, n>>].got # Unset
               PROVE  SentOn(n)'
    BY <1>2 DEF ValuesSentOn
  <2>1. SentOn(n)
    BY DEF PumpInv, ValuesSentOn
  <2>2. n + 1 = nops[Pump] => lin[<<Pump, n + 1>>] = Latest /\ Latest.st # "pending"
    BY <1>1, <1>3 DEF Latest, Cur, Ended, Pending, AtSending
  <2> QED
    BY <1>1, <1>2, <2>1, <2>2 DEF SentOn
<1> QED
  BY <1>1, <1>4, <1>5, <1>6, <1>7 DEF PumpInv, PumpFits

(* A case leaves the select.                                               *)
LEMMA PumpDropsInputInv == ASSUME GoInv, GoInv', PumpInv, PumpDropsInput PROVE PumpInv'
<1>1. /\ ppc = "selecting" /\ Ended /\ Latest.st = "closed"
      /\ remaining' = WithoutCase(remaining, Latest.i + 1)
      /\ ppc' = (IF remaining' = <<>> THEN "close" ELSE "select") /\ UNCHANGED goVars
  BY DEF PumpDropsInput
<1>2. /\ UNCHANGED <<closed, buf, nops, call, lin>> /\ Latest' = Latest /\ (Ended' <=> Ended)
  BY <1>1 DEF goVars, Latest, Cur, Ended, Pending
<1>3. AtSelecting
  BY <1>1 DEF PumpInv, PumpFits
<1> DEFINE m == Latest.i + 1
<1>4. m \in DOMAIN remaining /\ Spent(remaining[m]) /\ remaining \in Seq(Chans) /\ Latest.got = Unset
  BY <1>1, <1>3 DEF AtSelecting, PumpInv, MergeTypeOK
<1> HIDE DEF m
<1>5. /\ remaining' \in Seq(Chans)
      /\ \A j \in DOMAIN remaining : j # m => \E k \in DOMAIN remaining' : remaining'[k] = remaining[j]
  <2> DEFINE a == SubSeq(remaining, 1, m - 1)
             b == SubSeq(remaining, m + 1, Len(remaining))
  <2>1. m \in 1..Len(remaining) /\ Len(remaining) \in Nat
    BY <1>4
  <2>2. /\ a \in Seq(Chans) /\ Len(a) = m - 1 /\ \A j \in 1..(m - 1) : a[j] = remaining[j]
    BY <1>4, <2>1
  <2>3. /\ b \in Seq(Chans) /\ Len(b) = Len(remaining) - m
        /\ \A j \in 1..(Len(remaining) - m) : b[j] = remaining[m + j]
    BY <1>4, <2>1
  <2>4. remaining' = a \o b
    BY <1>1 DEF WithoutCase, RemoveAt, m
  <2> HIDE DEF a, b
  <2>5. /\ remaining' \in Seq(Chans) /\ Len(remaining') = Len(remaining) - 1
        /\ \A k \in 1..(Len(remaining) - 1) :
             remaining'[k] = IF k <= m - 1 THEN a[k] ELSE b[k - (m - 1)]
    <3>1. Len(a) + Len(b) = Len(remaining) - 1 /\ Len(a) = m - 1
      BY <2>1, <2>2, <2>3
    <3> QED
      BY <2>2, <2>3, <2>4, <3>1, ConcatProperties
  <2>6. ASSUME NEW j \in DOMAIN remaining, j # m
        PROVE  \E k \in DOMAIN remaining' : remaining'[k] = remaining[j]
    <3>1. j \in 1..Len(remaining) /\ DOMAIN remaining' = 1..(Len(remaining) - 1)
      BY <1>4, <2>5
    <3>2. CASE j < m
      <4>1. j \in DOMAIN remaining' /\ remaining'[j] = remaining[j]
        BY <2>1, <2>2, <2>5, <3>1, <3>2
      <4> QED
        BY <4>1
    <3>3. CASE j > m
      <4>1. j - 1 \in DOMAIN remaining' /\ remaining'[j - 1] = b[j - m]
        BY <2>1, <2>5, <3>1, <3>3
      <4>2. b[j - m] = remaining[j]
        BY <2>1, <2>3, <3>1, <3>3
      <4> QED
        BY <4>1, <4>2
    <3> QED
      BY <2>1, <2>6, <3>1, <3>2, <3>3
  <2> QED
    BY <2>5, <2>6
<1>6. MergeTypeOK'
  BY <1>1, <1>2, <1>5 DEF PumpInv, MergeTypeOK, GoInv
<1>7. InputsKept'
  <2>1. \A c : Spent(c)' <=> Spent(c)
    BY <1>2 DEF Spent
  <2> QED
    BY <1>4, <1>5, <2>1 DEF PumpInv, InputsKept
<1>8. AtSelect' /\ AtClose'
  <2>1. TookNothing(nops[Pump])'
    BY <1>2, <1>4 DEF TookNothing, Latest, Cur
  <2> QED
    BY <1>1, <1>2, <2>1 DEF AtSelect, AtClose
<1>9. ValuesSentOn'
  BY <1>1, <1>2 DEF PumpInv, ValuesSentOn, SentOn
<1> QED
  BY <1>1, <1>6, <1>7, <1>8, <1>9 DEF PumpInv, PumpFits

LEMMA PumpInvNext == ASSUME GoInv, PumpInv, [MergeNext]_mergeVars PROVE GoInv' /\ PumpInv'
<1>1. CASE UNCHANGED mergeVars
  <2>1. UNCHANGED goVars /\ UNCHANGED <<closed, buf, nops, call, lin, remaining, ppc>>
    BY <1>1 DEF mergeVars, goVars
  <2>2. GoInv'
    BY <2>1, GoNextInv
  <2>3. PumpInv'
    BY <2>1
    DEF PumpInv, MergeTypeOK, CallsTypeOK, InputsKept, PumpFits, ValuesSentOn, SentOn, Spent,
        AtSelect, AtSelecting, AtSend, AtSending, AtClose, AtOver, ClosesOutput, TookNothing, Latest, Cur, Ended,
        Pending, OneCaseCall, SelectCall
  <2> QED
    BY <2>2, <2>3
<1>2. CASE MergeNext
  <2>1. GoInv'
    BY <1>2, MergeStepIsChannelStep, GoNextInv
  <2>2. CASE PumpStep
    BY <2>1, <2>2, PumpSelectInv, PumpTookInv, PumpDropsInputInv, PumpSendInv, PumpSentInv, PumpCloseInv
    DEF PumpStep
  <2>3. ASSUME NEW p \in Procs, OtherCalls(p) \/ TakesEffect(p) PROVE PumpInv'
    BY <2>1, <2>3, OthersInv, EffectInv
  <2> QED
    BY <1>2, <2>1, <2>2, <2>3 DEF MergeNext
<1> QED
  BY <1>1, <1>2

LEMMA Invariant == MergeSpec => [](GoInv /\ PumpInv)
<1>1. MergeInit => GoInv /\ PumpInv
  BY GoInitInv, PumpInvInit DEF MergeInit
<1>2. (GoInv /\ PumpInv) /\ [MergeNext]_mergeVars => (GoInv /\ PumpInv)'
  BY PumpInvNext
<1> QED
  BY <1>1, <1>2, PTL DEF MergeSpec

-----------------------------------------------------------------------------
(* "The returned channel closes once every input is closed and drained"    *)
(* (merge), and not before: when the pump has nothing left to select over, *)
(* each of its inputs is closed and empty.                                 *)
THEOREM ClosesOnlyDrained == MergeSpec => []ClosesWhenDrained
<1>1. PumpInv => ClosesWhenDrained
  <2> SUFFICES ASSUME PumpInv, ppc = "close" PROVE Drained
    BY DEF ClosesWhenDrained
  <2>1. remaining = <<>>
    BY DEF PumpInv, MergeTypeOK
  <2> QED
    BY <2>1 DEF PumpInv, InputsKept, Spent, Drained
<1> QED
  BY <1>1, Invariant, PTL

(* "carrying every value from all the inputs": each value the pump took    *)
(* was sent to the output by its next call, and the only one that may be   *)
(* lost is the last, when the output had been closed.                      *)
THEOREM NothingLeftBehind == MergeSpec => []CarriesEverything
<1>1. GoInv /\ PumpInv => CarriesEverything
  <2> SUFFICES ASSUME GoInv, PumpInv PROVE CarriesEverything
    OBVIOUS
  <2>0. nops[Pump] \in 0..MaxOps /\ MaxOps \in Nat
    BY PumpCalls
  <2>1. ASSUME NEW n \in TookAt, n + 1 < nops[Pump] PROVE Accepted(lin, <<Pump, n + 1>>)
    <3>1. n \in 1..(nops[Pump] - 1) /\ lin[<<Pump, n>>].got # Unset
      BY <2>0, <2>1 DEF TookAt
    <3> QED
      BY <2>0, <2>1, <3>1 DEF PumpInv, ValuesSentOn, SentOn, Accepted
  <2>2. ASSUME NEW n \in DroppedAt PROVE n = nops[Pump] - 1 /\ closed[Output]
    <3>1. /\ n \in 1..(nops[Pump] - 1) /\ lin[<<Pump, n>>].got # Unset
          /\ lin[<<Pump, n + 1>>].st = "closed"
      BY <2>0 DEF DroppedAt, TookAt
    <3> QED
      BY <2>0, <3>1 DEF PumpInv, ValuesSentOn, SentOn
  <2>3. DroppedAt = {} \/ DroppedAt = {nops[Pump] - 1}
    BY <2>2
  <2>4. Cardinality(DroppedAt) <= 1
    BY <2>3, FS_EmptySet, FS_Singleton
  <2> QED
    BY <2>1, <2>2, <2>4 DEF CarriesEverything
<1> QED
  BY <1>1, Invariant, PTL

(* A value that was accepted arrived: somebody received it, and if that    *)
(* was the pump, its next call was accepted by the output.                 *)
Arrived(w) ==
  \E r \in Op : /\ lin[r].got = w
                /\ r[1] = Pump => Accepted(lin, <<Pump, r[2] + 1>>)

(* Or it is in the buffer of a channel that merge() does not read.         *)
Elsewhere(w) ==
  \E c \in Chans \ Range(Inputs) : \E k \in DOMAIN buf[c] : buf[c][k] = w

CloseLosesNothing ==
  ppc = "close" \/ (ppc = "over" /\ ClosesOutput) =>
    /\ Drained
    /\ \A w \in Op : Accepted(lin, w) => Arrived(w) \/ Elsewhere(w)

(* "one channel carrying every value from all the inputs" (merge), end to  *)
(* end: from the moment the pump closes the output, no value can enter an  *)
(* input any more or is left in one, and every value the pump took was     *)
(* accepted by the output.  A pump that drops the wrong case of its select *)
(* or goes on after a refused send breaks it.                              *)
THEOREM NothingLostAtClose == MergeSpec => []CloseLosesNothing
<1>1. GoInv /\ PumpInv => CloseLosesNothing
  <2> SUFFICES ASSUME GoInv, PumpInv, ppc = "close" \/ (ppc = "over" /\ ClosesOutput)
               PROVE  Drained /\ \A w \in Op : Accepted(lin, w) => Arrived(w) \/ Elsewhere(w)
    BY DEF CloseLosesNothing
  <2>0. /\ nops[Pump] \in 0..MaxOps /\ MaxOps \in Nat /\ Unset \notin Op /\ Fresh
    BY PumpCalls DEF GoInv, CallsTypeOK
  <2>1. remaining = <<>> /\ TookNothing(nops[Pump])
    BY DEF PumpInv, PumpFits, MergeTypeOK, AtClose, AtOver
  <2>2. Drained
    BY <2>1 DEF PumpInv, InputsKept, Spent, Drained
  <2>3. ASSUME NEW w \in Op, InBuf(buf, w) PROVE Elsewhere(w)
    <3>1. \A c \in Range(Inputs) : buf[c] = <<>>
      BY <2>2 DEF Drained, Range
    <3> QED
      BY <2>3, <3>1 DEF InBuf, Elsewhere
  <2>4. ASSUME NEW w \in Op, NEW r \in Op, lin[r].got = w, r[1] = Pump
        PROVE  Accepted(lin, <<Pump, r[2] + 1>>)
    <3> DEFINE n == r[2]
    <3>1. r = <<Pump, n>> /\ n \in 1..MaxOps
      BY <2>4 DEF Op
    <3> HIDE DEF n
    <3>2. n <= nops[Pump]
      <4>1. lin[r].st \notin {"none", "pending"}
        BY <2>0, <2>4 DEF Fresh
      <4> QED
        BY <2>0, <3>1, <4>1, MergeAssumption DEF Fresh
    <3>3. n # nops[Pump]
      <4>1. CASE n = nops[Pump]
        <5>1. nops[Pump] > 0 /\ lin[<<Pump, nops[Pump]>>].got = w
          BY <2>4, <3>1, <4>1
        <5> QED
          BY <2>0, <2>1, <5>1 DEF TookNothing
      <4> QED
        BY <4>1
    <3>4. n \in 1..(nops[Pump] - 1)
      BY <2>0, <3>1, <3>2, <3>3
    <3>5. SentOn(n)
      BY <2>0, <2>4, <3>1, <3>4 DEF PumpInv, ValuesSentOn
    <3>6. ppc = "over" => n # nops[Pump] - 1
      <4>1. ppc = "over" => TookNothing(nops[Pump] - 1)
        BY DEF PumpInv, PumpFits, AtOver
      <4> QED
        BY <2>0, <2>4, <3>1, <3>4, <4>1 DEF TookNothing
    <3>7. lin[<<Pump, n + 1>>].st = "ok" /\ lin[<<Pump, n + 1>>].got = Unset
      BY <2>0, <3>4, <3>5, <3>6 DEF SentOn
    <3> QED
      BY <3>7 DEF Accepted, n
  <2>5. ASSUME NEW w \in Op, Accepted(lin, w) PROVE Arrived(w) \/ Elsewhere(w)
    <3>1. Received(lin, w) => Arrived(w)
      BY <2>4 DEF Received, Arrived
    <3> QED
      BY <2>3, <2>5, <3>1 DEF GoInv, ExactlyOnce, OnePlace
  <2> QED
    BY <2>2, <2>5
<1> QED
  BY <1>1, Invariant, PTL
=============================================================================
