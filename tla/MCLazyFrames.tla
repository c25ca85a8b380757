---------------------------- MODULE MCLazyFrames ----------------------------
(* Module LazyFrames for TLC: the constants are given in the .cfg file.     *)
EXTENDS LazyFrames
=============================================================================
