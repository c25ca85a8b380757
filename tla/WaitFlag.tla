------------------------------ MODULE WaitFlag ------------------------------
(***************************************************************************)
(* colib::async and future::get (AFuture.h, AFiber.cpp): one task sets the *)
(* value and notifies the waitflag, any number of coroutines get it.       *)
(*                                                                         *)
(* Both waitflag::wait and waitflag::notify begin with the statement       *)
(* `std::lock_guard{ fl };', which locks and unlocks fl on the spot: their *)
(* bodies run without it.  Their accesses to flag and waitQ are therefore  *)
(* steps of their own here; with one CPU no two of them interleave.        *)
(***************************************************************************)
EXTENDS Naturals, Sequences, FiniteSets

CONSTANTS
  Getters,      \* coroutines that call get() on the future
  Setter,       \* the task that async_run started
  cpuNum_       \* the second argument of CoKernel::INIT

Coros == Getters \cup {Setter}
ASSUME SetterAssumption == Setter \notin Getters
ASSUME CpuNumAssumption == cpuNum_ \in Nat \ {0}

VARIABLES
  flag, waitQ,  \* the fields of waitflag
  value,        \* has state::value been assigned
  old,          \* old[c]: what wait() read when it tested flag
  ready,        \* coroutines in the ready queue
  onCpu,        \* coroutines some CPU is executing
  pc,           \* where each coroutine stands
  gone          \* gone[c]: how often c went on past its co_await

vars == <<flag, waitQ, value, old, ready, onCpu, pc, gone>>

Init ==
  /\ flag = FALSE /\ waitQ = <<>> /\ value = FALSE
  /\ old = [c \in Coros |-> FALSE]
  /\ ready = Coros
  /\ onCpu = {}
  /\ pc = [c \in Coros |-> "start"]
  /\ gone = [c \in Coros |-> 0]

Go(c, to) == pc' = [pc EXCEPT ![c] = to]
Leave(c) == onCpu' = onCpu \ {c}
GoOn(c) == gone' = [gone EXCEPT ![c] = @ + 1]
-----------------------------------------------------------------------------
(* A CPU takes a coroutine from the ready queue.                           *)

HasCpu == Cardinality(onCpu) < cpuNum_

Start(c) ==
  /\ c \in ready /\ pc[c] = "start" /\ HasCpu
  /\ ready' = ready \ {c}
  /\ onCpu' = onCpu \cup {c}
  /\ Go(c, IF c = Setter THEN "compute" ELSE "test")
  /\ UNCHANGED <<flag, waitQ, value, old, gone>>

\* h.resume() continues behind the co_await, wherever the coroutine stands.
Resume(c) ==
  /\ c \in ready /\ pc[c] # "start" /\ HasCpu
  /\ ready' = ready \ {c}
  /\ GoOn(c)
  /\ Go(c, IF pc[c] = "suspended" THEN "end" ELSE pc[c])
  /\ UNCHANGED <<flag, waitQ, value, old, onCpu>>
-----------------------------------------------------------------------------
(* async_help: run the callable, store its value, SetAwaiter.              *)

\* An exception of the callable ends async_help, and the task drops it.
Throw(c) ==
  /\ pc[c] = "compute"
  /\ Leave(c)
  /\ Go(c, "thrown")
  /\ UNCHANGED <<flag, waitQ, value, old, ready, gone>>

StoreValue(c) ==
  /\ pc[c] = "compute"
  /\ value' = TRUE
  /\ Go(c, "set")
  /\ UNCHANGED <<flag, waitQ, old, ready, onCpu, gone>>

NotifySet(c) ==
  /\ pc[c] = "set"
  /\ flag' = TRUE
  /\ Go(c, "notify")
  /\ UNCHANGED <<waitQ, value, old, ready, onCpu, gone>>

NotifyOnlyFirst(c) ==
  /\ pc[c] = "notify"
  /\ waitQ # <<>>
  /\ ready' = ready \cup {Head(waitQ)}
  /\ waitQ' = <<>>
  /\ UNCHANGED <<flag, value, old, onCpu, pc, gone>>

\* wakeUpReady(waitQ.front()); waitQ.pop();
NotifyOne(c) ==
  /\ pc[c] = "notify"
  /\ waitQ # <<>>
  /\ ready' = ready \cup {Head(waitQ)}
  /\ waitQ' = Tail(waitQ)
  /\ UNCHANGED <<flag, value, old, onCpu, pc, gone>>

NotifyEnd(c) ==
  /\ pc[c] = "notify"
  /\ waitQ = <<>>
  /\ Leave(c)
  /\ Go(c, "end")
  /\ UNCHANGED <<flag, waitQ, value, old, ready, gone>>
-----------------------------------------------------------------------------
(* future::get: GetAwaiter calls wait(h) and stays suspended if that says  *)
(* FALSE.                                                                  *)

WaitTest(c) ==
  /\ pc[c] = "test"
  /\ old' = [old EXCEPT ![c] = flag]
  /\ Go(c, IF flag THEN "return" ELSE "push")
  /\ UNCHANGED <<flag, waitQ, value, ready, onCpu, gone>>

WaitPush(c) ==
  /\ pc[c] = "push"
  /\ waitQ' = Append(waitQ, c)
  /\ Go(c, "return")
  /\ UNCHANGED <<flag, value, old, ready, onCpu, gone>>

\* As if the caller took `true' for "wait".
WaitReturnInverted(c) ==
  /\ pc[c] = "return"
  /\ Leave(c)
  /\ IF ~flag
     THEN GoOn(c) /\ Go(c, "end")
     ELSE UNCHANGED gone /\ Go(c, "suspended")
  /\ UNCHANGED <<flag, waitQ, value, old, ready>>

\* `return flag' may read flag again or reuse what the test has read.
WaitReturn(c) ==
  /\ pc[c] = "return"
  /\ Leave(c)
  /\ \E result \in {flag, old[c]} :
       IF result
       THEN GoOn(c) /\ Go(c, "end")
       ELSE UNCHANGED gone /\ Go(c, "suspended")
  /\ UNCHANGED <<flag, waitQ, value, old, ready>>
-----------------------------------------------------------------------------
\* onCpu limits how many coroutines are between two suspensions at once.
Step(c) == \/ Start(c) \/ Resume(c)
           \/ Throw(c) \/ StoreValue(c) \/ NotifySet(c) \/ NotifyOne(c) \/ NotifyEnd(c)
           \/ WaitTest(c) \/ WaitPush(c) \/ WaitReturn(c)

Next == \E c \in Coros : Step(c)

\* Ready coroutines get a CPU (module Scheduler) and run.
Spec == Init /\ [][Next]_vars
FairSpec == Spec /\ \A c \in Coros : WF_vars(Step(c))
-----------------------------------------------------------------------------
TypeOK ==
  /\ {flag, value} \subseteq BOOLEAN
  /\ waitQ \in Seq(Getters)
  /\ old \in [Coros -> BOOLEAN]
  /\ ready \subseteq Coros /\ onCpu \subseteq Coros
  /\ pc \in [Coros -> {"start", "compute", "set", "notify", "test", "push",
                       "return", "suspended", "end", "thrown"}]
  /\ gone \in [Coros -> Nat]

\* Values have their types.  get() returns once to a caller, after the task has
\* stored its value: it is never continued both by its own CPU, because wait()
\* said "set", and by the CPU that takes it from the ready queue.
GetReturnsOnce ==
  /\ TypeOK
  /\ \A c \in Getters : gone[c] <= 1 /\ (gone[c] > 0 => value)

\* Every get() returns, whether it comes before the value, in the middle of
\* notify() or after it, unless the callable throws.
GetReturns == \A c \in Getters : <>(gone[c] > 0 \/ pc[Setter] = "thrown")
=============================================================================
