---------------------------- MODULE MCScheduler ----------------------------
(* Instance of Scheduler for TLC: two threads spawn three tasks, the       *)
(* second of which joins the first; the third may find no thread.  One of  *)
(* them asks for small stacks and later for the default again.             *)
EXTENDS Scheduler, TLC

CONSTANTS t1, t2, t3, p1, p2

OneJoins == (t1 :> {}) @@ (t2 :> {t1}) @@ (t3 :> {})
TwoOwners == (t1 :> p1) @@ (t2 :> p2) @@ (t3 :> p1)
SmallThenDefault == <<1, 0>>
=============================================================================
