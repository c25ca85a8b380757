------------------------------ MODULE FifoLock ------------------------------
(***************************************************************************)
(* What colib::AMutex promises its callers: at most one coroutine holds    *)
(* the lock, a coroutine that finds it taken joins a line, and the lock is *)
(* handed to the coroutine at the head of the line.  The lock is `taken'   *)
(* without a holder while a release is being turned into a hand-over: no   *)
(* newcomer can slip in between.                                           *)
(***************************************************************************)
EXTENDS Naturals, Sequences

CONSTANT Tasks                 \* the coroutines that share the mutex

VARIABLES taken,               \* somebody holds the lock or is being given it
          holder,              \* {} or the one holder
          line                 \* coroutines waiting, longest first

vars == <<taken, holder, line>>

InLine(t) == \E i \in DOMAIN line : line[i] = t

Init == /\ taken = FALSE
        /\ holder = {}
        /\ line = <<>>

Acquire(t) == /\ ~taken
              /\ taken' = TRUE
              /\ holder' = {t}
              /\ UNCHANGED line

Join(t) == /\ taken
           /\ t \notin holder
           /\ ~InLine(t)
           /\ line' = Append(line, t)
           /\ UNCHANGED <<taken, holder>>

\* The last one out leaves the lock free, and only with nobody in line.
Free == /\ holder # {}
        /\ line = <<>>
        /\ taken' = FALSE
        /\ holder' = {}
        /\ UNCHANGED line

HandOver == /\ holder # {}
            /\ holder' = {}
            /\ UNCHANGED <<taken, line>>

Grant == /\ taken
         /\ holder = {}
         /\ line # <<>>
         /\ holder' = {Head(line)}
         /\ line' = Tail(line)
         /\ UNCHANGED taken

Next == \/ \E t \in Tasks : Acquire(t) \/ Join(t)
        \/ Free \/ HandOver \/ Grant

Spec == Init /\ [][Next]_vars /\ WF_vars(Grant)
=============================================================================
