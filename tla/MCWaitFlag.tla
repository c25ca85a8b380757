----------------------------- MODULE MCWaitFlag -----------------------------
(* Model checking instance of async and future::get.                       *)
EXTENDS WaitFlag
=============================================================================
