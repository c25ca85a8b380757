---------------------------- MODULE MCTimedWait ----------------------------
(* Module TimedWait for TLC: two programs, one that sleeps and connects     *)
(* with time limits and one that transfers data.                            *)
EXTENDS TimedWait

CONSTANTS c1, c2, c3

Waiting == [users |-> {c1, c2, c3}, ops |-> {"connect", "sleep"},
            timed |-> {"connect"}, data |-> 1, ticks |-> 2]
Transferring == [users |-> {c1, c2}, ops |-> {"recv", "readv", "writev"},
                 timed |-> {}, data |-> 2, ticks |-> 1]
MCPrograms == {Waiting, Transferring}
=============================================================================
