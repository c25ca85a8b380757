----------------------------- MODULE MCMpmcQueue ----------------------------
(* Model checking instance of the node level of MpmcQueue.                 *)
EXTENDS MpmcQueue
=============================================================================
