---------------------------- MODULE MCLifeCycle -----------------------------
(* An instance of the kernel for TLC: INIT(2, 1).                           *)
EXTENDS LifeCycle

MCCate == <<"ICU", "CPU">>
=============================================================================
