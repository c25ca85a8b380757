----------------------------- MODULE MCIRQTable -----------------------------
(* Model checking instance of the descriptor table.                        *)
EXTENDS IRQTable
=============================================================================
