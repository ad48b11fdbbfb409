----------------------------- MODULE MCDetector -----------------------------
(* Instance of Detector for TLC: two watchers, so that detection is turned *)
(* off and on again; the second may find no thread to run on.              *)
EXTENDS Detector
=============================================================================
