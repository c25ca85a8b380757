------------------------------ MODULE MCMuCore ------------------------------
(* Model checking instance of the coroutine mutex.                         *)
EXTENDS MuCore
=============================================================================
