------------------------------ MODULE MCRWMutex ------------------------------
(* Instance of RWMutex for TLC; threads come and go without bound.         *)
EXTENDS RWMutex
=============================================================================
