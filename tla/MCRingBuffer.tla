---------------------------- MODULE MCRingBuffer ----------------------------
(* Model checking instance of a small ring buffer.                          *)
EXTENDS RingBuffer
=============================================================================
