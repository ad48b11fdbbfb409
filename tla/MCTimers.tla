----------------------------- MODULE MCTimers -----------------------------
(* Instance of Timers for TLC: a Timer and the ticks of a ticker, any of   *)
(* which but the first tick may find no thread; two threads stop and close.*)
EXTENDS Timers
=============================================================================
