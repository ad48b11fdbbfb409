------------------------------- MODULE Merge -------------------------------
(***************************************************************************)
(* merge() of _helpers.py: one routine, the pump, selects over the inputs  *)
(* that are open and sends what it took to the output.  It is a client of  *)
(* the channels, which are those of GoChan: an operation takes effect at   *)
(* one instant.  Any thread may send to the inputs and close them; the     *)
(* consumer receives from the output and may close it.                     *)
(*                                                                         *)
(* After a call that took a value the pump calls send, and GoChan names    *)
(* the value it sends after that call.                                     *)
(***************************************************************************)
EXTENDS GoChan, FiniteSets, SequencesExt

CONSTANTS
  Pump,      \* the pump
  Consumer,  \* the thread that reads the output
  Inputs,    \* the arguments of merge(), a sequence of channels
  Output,    \* the channel it returns
  Budget     \* bound: Budget[p] calls of thread p, the pump excepted

ASSUME MergeAssumption ==
  /\ Pump \in Procs /\ Consumer \in Procs \ {Pump}
  /\ Inputs \in Seq(Chans \ {Output}) /\ Inputs # <<>>
  /\ Output \in Chans

VARIABLES
  remaining,  \* remaining: the inputs that were not found closed
  ppc         \* the pump: "select", "selecting", "send", "sending", "close", "over"

mergeVars == <<goVars, remaining, ppc>>

MergeInit ==
  /\ Init
  /\ remaining = Inputs
  /\ ppc = "select"

-----------------------------------------------------------------------------
(* The pump.                                                               *)

OneCaseCall(dir, c) == [cases |-> [i \in {0} |-> [dir |-> dir, ch |-> c]], wait |-> "block"]
SelectCall(chans) ==
  [cases |-> [i \in 0..(Len(chans) - 1) |-> [dir |-> "recv", ch |-> chans[i + 1]]],
   wait |-> "block"]

Calling(cl) == Invoke(Pump) /\ call'[Pump] = cl
Latest == lin[Cur(Pump)]
Ended == ~Pending(Pump)

PumpSelect ==
  /\ ppc = "select"
  /\ Calling(SelectCall(remaining))
  /\ ppc' = "selecting"
  /\ UNCHANGED remaining

PumpTook ==
  /\ ppc = "selecting" /\ Ended
  /\ Latest.st = "ok"
  /\ ppc' = "send"
  /\ UNCHANGED <<goVars, remaining>>

(* ChanClosed: the case that raised leaves the select.                     *)
BugDropFirst(chans, i) == Tail(chans)
WithoutCase(chans, i) == RemoveAt(chans, i)

BugNoClose ==
  /\ ppc = "selecting" /\ Ended
  /\ Latest.st = "closed"
  /\ remaining' = WithoutCase(remaining, Latest.i + 1)
  /\ ppc' = IF remaining' = <<>> THEN "over" ELSE "select"
  /\ UNCHANGED goVars
PumpDropsInput ==
  /\ ppc = "selecting" /\ Ended
  /\ Latest.st = "closed"
  /\ remaining' = WithoutCase(remaining, Latest.i + 1)
  /\ ppc' = IF remaining' = <<>> THEN "close" ELSE "select"
  /\ UNCHANGED goVars

PumpSend ==
  /\ ppc = "send"
  /\ Calling(OneCaseCall("send", Output))
  /\ ppc' = "sending"
  /\ UNCHANGED remaining

(* ChanClosed here ends the pump, and drops the value.                     *)
BugGoOnSelecting ==
  /\ ppc = "sending" /\ Ended
  /\ ppc' = "select"
  /\ UNCHANGED <<goVars, remaining>>
PumpSent ==
  /\ ppc = "sending" /\ Ended
  /\ ppc' = IF Latest.st = "ok" THEN "select" ELSE "over"
  /\ UNCHANGED <<goVars, remaining>>

PumpClose ==
  /\ ppc = "close"
  /\ Calling(OneCaseCall("close", Output))
  /\ ppc' = "over"
  /\ UNCHANGED remaining

PumpStep == PumpSelect \/ PumpTook \/ PumpDropsInput \/ PumpSend \/ PumpSent \/ PumpClose

(* The others, and the channels.                                           *)
OtherCalls(p) ==
  /\ p # Pump
  /\ nops[p] < Budget[p]
  /\ Invoke(p)
  /\ UNCHANGED <<remaining, ppc>>

TakesEffect(p) ==
  /\ \E i \in DOMAIN call[p].cases : \E c \in Chans :
       \/ Enqueue(p, i, c)
       \/ Dequeue(p, i, c)
       \/ Refuse(p, i, c)
       \/ Close(p, i, c)
       \/ \E q \in Procs : \E j \in DOMAIN call[q].cases :
            \/ Rendezvous(p, i, q, j, c)
            \/ DequeueRefill(p, i, q, j, c)
  /\ UNCHANGED <<remaining, ppc>>

MergeNext ==
  \/ PumpStep
  \/ \E p \in Procs : OtherCalls(p) \/ TakesEffect(p)

MergeSpec == MergeInit /\ [][MergeNext]_mergeVars

(* The pump runs; operations that can take effect do (NoMissedMatch and    *)
(* DecidedReturns of Chan); the consumer goes on receiving.                *)
FairMergeSpec ==
  /\ MergeSpec
  /\ WF_mergeVars(PumpStep)
  /\ WF_mergeVars(OtherCalls(Consumer))
  /\ \A p \in Procs : WF_mergeVars(TakesEffect(p))

-----------------------------------------------------------------------------
TookAt == {n \in 1..MaxOps : lin[<<Pump, n>>].got # Unset}

DroppedAt == {n \in TookAt : n < nops[Pump] /\ lin[<<Pump, n + 1>>].st = "closed"}

(* Types; the pump's position fits its latest call.                        *)
MergeTypeOK ==
  /\ CallsTypeOK
  /\ remaining \in Seq(Chans)
  /\ ppc \in {"select", "selecting", "send", "sending", "close", "over"}
  /\ ppc \in {"select", "send", "close"} => Ended
  /\ ppc # "over" => (ppc = "close" <=> remaining = <<>>)

(* "carrying every value from all the inputs" (merge): what the pump took  *)
(* went to the output, but for one value at most, and that only because    *)
(* the output was closed.                                                  *)
CarriesEverything ==
  /\ \A n \in TookAt \ DroppedAt :
       n + 1 < nops[Pump] => Accepted(lin, <<Pump, n + 1>>)
  /\ Cardinality(DroppedAt) <= 1
  /\ DroppedAt # {} => closed[Output]

Drained == \A k \in DOMAIN Inputs : closed[Inputs[k]] /\ buf[Inputs[k]] = <<>>

(* "The returned channel closes once every input is closed and drained":   *)
(* not before, ...                                                         *)
ClosesWhenDrained == ppc = "close" => Drained

(* ... and then it does.                                                   *)
MergeCloses == (\A k \in DOMAIN Inputs : closed[Inputs[k]]) ~> closed[Output]
=============================================================================
