----------------------------- MODULE Scheduler ------------------------------
(***************************************************************************)
(* The ready queue of coker and the CPU threads that serve it:             *)
(* CoKernel::wakeUpReady and CoKernel::schedule (CoKernel.cpp), called from*)
(* CPU::loop, from the ICU threads and from coroutines running on a CPU.   *)
(*                                                                         *)
(* readyRo_ is only half protected by hmu: wakeUpReady enqueues under it   *)
(* and the predicate of hcv.wait dequeues under it, but the do-while of    *)
(* schedule drains the queue without it.                                   *)
(*                                                                         *)
(* readyRo_ is the FIFO that MpmcQueue promises.  A coroutine counts as    *)
(* suspended when it enters await_suspend, so it may be woken and resumed  *)
(* by another CPU before the first one is back from resume().              *)
(***************************************************************************)
EXTENDS Naturals, Sequences, FiniteSets

CONSTANTS
  CPUs,         \* the CPU components, one thread each
  ICUs,         \* the ICU components and the main thread
  Handles       \* coroutine handles

ASSUME ThreadsAssumption == CPUs \cap ICUs = {} /\ CPUs # {}

Threads == CPUs \cup ICUs
Nobody == "nobody"
Nothing == "nothing"
ASSUME NamesAssumption == Nobody \notin Threads /\ Nothing \notin Handles

VARIABLES
  readyRo_,     \* CoKernel::readyRo_, the handles ready to run
  hmu,          \* the thread holding CoKernel::hmu, or Nobody
  pc,           \* pc[c] is where CPU c stands in schedule()
  cur,          \* cur[c] is the local h of schedule() on c
  wk,           \* wk[t] is where thread t stands in wakeUpReady()
  arg,          \* arg[t] is the handle t wakes, or Nothing
  ended         \* coroutines that ran to their end

vars == <<readyRo_, hmu, pc, cur, wk, arg, ended>>

Control == {"lock", "pred", "sleep", "waiting", "unlock", "resume", "drain"}
WakeControl == {"none", "lock", "enqueue", "unlock", "notify"}

\* The wait set of the condition variable.
hcv == {c \in CPUs : pc[c] = "waiting"}

Go(c, to) == pc' = [pc EXCEPT ![c] = to]
WakeGo(t, to) == wk' = [wk EXCEPT ![t] = to]
IsQueued(h) == \E i \in DOMAIN readyRo_ : readyRo_[i] = h
IsRunning(h) == \E c \in CPUs : pc[c] \in {"unlock", "resume"} /\ cur[c] = h

Init ==
  /\ readyRo_ = <<>>
  /\ hmu = Nobody
  /\ pc = [c \in CPUs |-> "lock"]
  /\ cur = [c \in CPUs |-> Nothing]
  /\ wk = [t \in Threads |-> "none"]
  /\ arg = [t \in Threads |-> Nothing]
  /\ ended = {}
-----------------------------------------------------------------------------
(* wakeUpReady(h), called with a coroutine that is suspended and that      *)
(* nobody else is waking: a new task, an expired timer, a file event, the  *)
(* next owner of a mutex.                                                  *)

Suspended(h) ==
  h \notin ended /\ ~IsQueued(h) /\ ~IsRunning(h) /\ \A t \in Threads : arg[t] # h

WakeCall(t, h) ==
  /\ wk[t] = "none"
  /\ t \in CPUs => pc[t] = "resume"
  /\ Suspended(h)
  /\ WakeGo(t, "lock")
  /\ arg' = [arg EXCEPT ![t] = h]
  /\ UNCHANGED <<readyRo_, hmu, pc, cur, ended>>

WakeLockSkipped(t) ==
  /\ wk[t] = "lock"
  /\ WakeGo(t, "enqueue")
  /\ UNCHANGED <<readyRo_, hmu, pc, cur, arg, ended>>

WakeLock(t) ==
  /\ wk[t] = "lock"
  /\ hmu = Nobody
  /\ hmu' = t
  /\ WakeGo(t, "enqueue")
  /\ UNCHANGED <<readyRo_, pc, cur, arg, ended>>

WakeEnqueue(t) ==
  /\ wk[t] = "enqueue"
  /\ readyRo_' = Append(readyRo_, arg[t])
  /\ arg' = [arg EXCEPT ![t] = Nothing]
  /\ WakeGo(t, "unlock")
  /\ UNCHANGED <<hmu, pc, cur, ended>>

WakeUnlock(t) ==
  /\ wk[t] = "unlock"
  /\ hmu' = Nobody
  /\ WakeGo(t, "notify")
  /\ UNCHANGED <<readyRo_, pc, cur, arg, ended>>

\* notify_one: some waiting CPU, if there is one, competes for hmu again.
WakeNotifyNobody(t) ==
  /\ wk[t] = "notify"
  /\ WakeGo(t, "none")
  /\ UNCHANGED <<readyRo_, hmu, pc, cur, arg, ended>>

WakeNotify(t) ==
  /\ wk[t] = "notify"
  /\ IF hcv = {} THEN UNCHANGED pc ELSE \E c \in hcv : Go(c, "lock")
  /\ WakeGo(t, "none")
  /\ UNCHANGED <<readyRo_, hmu, cur, arg, ended>>
-----------------------------------------------------------------------------
(* schedule(), which CPU::loop calls again whenever it returns.            *)

ScheLock(c) ==
  /\ pc[c] = "lock"
  /\ hmu = Nobody
  /\ hmu' = c
  /\ Go(c, "pred")
  /\ UNCHANGED <<readyRo_, cur, wk, arg, ended>>

\* The predicate of hcv.wait: a dequeue, under hmu.
ScheDequeue(c) ==
  /\ pc[c] = "pred"
  /\ readyRo_ # <<>>
  /\ cur' = [cur EXCEPT ![c] = Head(readyRo_)]
  /\ readyRo_' = Tail(readyRo_)
  /\ Go(c, "unlock")
  /\ UNCHANGED <<hmu, wk, arg, ended>>

ScheEmpty(c) ==
  /\ pc[c] = "pred"
  /\ readyRo_ = <<>>
  /\ Go(c, "sleep")
  /\ UNCHANGED <<readyRo_, hmu, cur, wk, arg, ended>>

\* hcv.wait releases hmu and joins the wait set in one step.
ScheWait(c) ==
  /\ pc[c] = "sleep"
  /\ hmu' = Nobody
  /\ Go(c, "waiting")
  /\ UNCHANGED <<readyRo_, cur, wk, arg, ended>>

\* A condition variable may also return without being notified.
ScheSpurious(c) ==
  /\ pc[c] = "waiting"
  /\ Go(c, "lock")
  /\ UNCHANGED <<readyRo_, hmu, cur, wk, arg, ended>>

ScheUnlock(c) ==
  /\ pc[c] = "unlock"
  /\ hmu' = Nobody
  /\ Go(c, "resume")
  /\ UNCHANGED <<readyRo_, cur, wk, arg, ended>>

\* The coroutine enters an await_suspend; h.resume() returns.
Suspend(c) ==
  /\ pc[c] = "resume"
  /\ wk[c] = "none"
  /\ Go(c, "drain")
  /\ UNCHANGED <<readyRo_, hmu, cur, wk, arg, ended>>

\* The coroutine runs to its end and its frame is destroyed.
Finish(c) ==
  /\ pc[c] = "resume"
  /\ wk[c] = "none"
  /\ ended' = ended \cup {cur[c]}
  /\ Go(c, "drain")
  /\ UNCHANGED <<readyRo_, hmu, cur, wk, arg>>

\* `while (readyRo_.dequeue(h))', without hmu.
DrainDequeue(c) ==
  /\ pc[c] = "drain"
  /\ readyRo_ # <<>>
  /\ cur' = [cur EXCEPT ![c] = Head(readyRo_)]
  /\ readyRo_' = Tail(readyRo_)
  /\ Go(c, "resume")
  /\ UNCHANGED <<hmu, wk, arg, ended>>

DrainResumesStale(c) ==
  /\ pc[c] = "drain"
  /\ readyRo_ = <<>>
  /\ Go(c, "resume")
  /\ UNCHANGED <<readyRo_, hmu, cur, wk, arg, ended>>

DrainEmpty(c) ==
  /\ pc[c] = "drain"
  /\ readyRo_ = <<>>
  /\ Go(c, "lock")
  /\ UNCHANGED <<readyRo_, hmu, cur, wk, arg, ended>>
-----------------------------------------------------------------------------
Wake(t) == WakeLock(t) \/ WakeEnqueue(t) \/ WakeUnlock(t) \/ WakeNotify(t)

Sche(c) == \/ ScheLock(c) \/ ScheDequeue(c) \/ ScheEmpty(c) \/ ScheWait(c)
           \/ ScheUnlock(c) \/ Suspend(c) \/ Finish(c)
           \/ DrainDequeue(c) \/ DrainEmpty(c)

Next == \/ \E t \in Threads, h \in Handles : WakeCall(t, h)
        \/ \E t \in Threads : Wake(t)
        \/ \E c \in CPUs : Sche(c) \/ ScheSpurious(c)

\* Threads keep running and a coroutine does not run for ever; nobody has to
\* wake anything, and no spurious wake-up is owed.
Fairness == /\ \A t \in Threads : WF_vars(Wake(t))
            /\ \A c \in CPUs : WF_vars(Sche(c))

Spec == Init /\ [][Next]_vars
FairSpec == Spec /\ Fairness
-----------------------------------------------------------------------------
TypeOK ==
  /\ readyRo_ \in Seq(Handles)
  /\ hmu \in Threads \cup {Nobody}
  /\ pc \in [CPUs -> Control]
  /\ cur \in [CPUs -> Handles \cup {Nothing}]
  /\ wk \in [Threads -> WakeControl]
  /\ arg \in [Threads -> Handles \cup {Nothing}]
  /\ ended \subseteq Handles

\* No wake-up is lost between enqueue, notify_one and hcv.wait: while handles
\* are queued, not all CPUs sleep unless a notify_one is still to come.
NoLostWakeup ==
  readyRo_ # <<>> => \/ hcv # CPUs
                     \/ \E t \in Threads : wk[t] \in {"unlock", "notify"}

\* The frame of a coroutine is never executed by two CPUs at once, nor after
\* its end, although it can be resumed while resume() has not returned yet.
FrameExclusive ==
  \A c \in CPUs : pc[c] = "resume" =>
    /\ cur[c] \notin ended
    /\ \A d \in CPUs : pc[d] = "resume" /\ cur[d] = cur[c] => d = c

\* Every coroutine that wakeUpReady has queued is eventually resumed.
QueuedIsResumed == \A h \in Handles : IsQueued(h) ~> IsRunning(h)
=============================================================================
