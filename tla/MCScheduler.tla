----------------------------- MODULE MCScheduler ----------------------------
(* Model checking instance of the ready queue and its CPU threads.         *)
EXTENDS Scheduler
=============================================================================
