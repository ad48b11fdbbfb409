----------------------------- MODULE MCErrGroup -----------------------------
(* Instance of ErrGroup for TLC: four routines in a group limited to two.  *)
(* Two of them add to their own group, one ends only when the context of   *)
(* the group is cancelled, one may find no thread to run on.               *)
EXTENDS ErrGroup
=============================================================================
