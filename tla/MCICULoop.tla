----------------------------- MODULE MCICULoop ------------------------------
(* Model checking instance of one ICU.                                     *)
EXTENDS ICULoop
=============================================================================
