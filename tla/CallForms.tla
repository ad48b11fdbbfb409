----------------------------- MODULE CallForms -----------------------------
(* Calls and channel sets that the MC modules of channels, select and the  *)
(* asyncio bridge are put together from.                                   *)
EXTENDS Integers

OneCase(dir, c, wait) == [cases |-> [i \in {0} |-> [dir |-> dir, ch |-> c]], wait |-> wait]
Send(c, wait) == OneCase("send", c, wait)
Recv(c, wait) == OneCase("recv", c, wait)
CloseOf(c) == OneCase("close", c, "block")
Two(dir0, c0, dir1, c1, wait) ==
  [cases |-> [i \in {0, 1} |-> IF i = 0 THEN [dir |-> dir0, ch |-> c0]
                                        ELSE [dir |-> dir1, ch |-> c1]],
   wait |-> wait]

OneChan == {1}
TwoChans == {1, 2}
ThreeChans == {1, 2, 3}
OneSlot == [c \in {1} |-> 1]
NoSlots == [c \in {1, 2} |-> 0]
SlotInFirst == [c \in {1, 2, 3} |-> IF c = 1 THEN 1 ELSE 0]
SlotInThird == [c \in {1, 2, 3} |-> IF c = 3 THEN 1 ELSE 0]
=============================================================================
