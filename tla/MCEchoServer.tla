---------------------------- MODULE MCEchoServer ----------------------------
(* Instances of the echo server for TLC.                                    *)
EXTENDS EchoServer

MCData == <<1, 2, 3>>
=============================================================================
