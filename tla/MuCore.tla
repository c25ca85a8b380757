------------------------------- MODULE MuCore -------------------------------
(***************************************************************************)
(* The coroutine mutex of coker: struct MuCore and its three awaiters      *)
(* LockAwaiter, TryLockAwaiter and UnlockAwaiter (CoKernel.h), which       *)
(* colib::AMutex and the kernel's own fMapLk_ are built from.  Every       *)
(* atomic operation of await_suspend is a step of its own, so any two      *)
(* CPU threads may interleave between them.                                *)
(*                                                                         *)
(* A coroutine is named by the tid its TCB was created with.  items_ is    *)
(* the FIFO that MpmcQueue promises.                                       *)
(***************************************************************************)
EXTENDS Naturals, Sequences, FiniteSets

CONSTANTS
  Tasks,        \* coroutines using the mutex, named by their initial tid
  BlindTasks    \* those that call unlock() after any try_to_lock(), whose
                \* Lazy<void> result hides whether the lock was taken

\* TaskPromise::cnt numbers the tasks from 1; tid_ = 0 means "no owner".
ASSUME TasksAssumption == Tasks \subseteq Nat \ {0} /\ IsFiniteSet(Tasks)
ASSUME BlindAssumption == BlindTasks \subseteq Tasks

VARIABLES
  tid_,         \* MuCore::tid_, the owner's tid or 0
  waiter_,      \* MuCore::waiter_, how many coroutines hold or want the lock
  items_,       \* MuCore::items_, the waiting coroutines
  tcb,          \* tcb[t] is the tid in t's UTCB
  newItem,      \* newItem[t] is the local of t's UnlockAwaiter
  pc            \* where t stands in its awaiter

vars == <<tid_, waiter_, items_, tcb, newItem, pc>>

NoItem == [tid_ |-> 0, h_ |-> 0]

Control == {"idle",             \* not using the mutex
            "own", "enq",       \* inside LockAwaiter::await_suspend
            "wait", "ready",    \* suspended; woken but not yet resumed
            "cs", "blind",      \* runs as the owner; runs as if it were
            "dec", "deq", "hand", "wake"}  \* inside UnlockAwaiter

Go(t, to) == pc' = [pc EXCEPT ![t] = to]

Init == /\ tid_ = 0
        /\ waiter_ = 0
        /\ items_ = <<>>
        /\ tcb = [t \in Tasks |-> t]
        /\ newItem = [t \in Tasks |-> NoItem]
        /\ pc = [t \in Tasks |-> "idle"]
-----------------------------------------------------------------------------
(* LockAwaiter: the old value of waiter_ decides who owns the mutex.       *)

UncontendedOffByOne(old) == old <= 1
Uncontended(old) == old = 0

LockIncrement(t) ==
  /\ pc[t] = "idle"
  /\ waiter_' = waiter_ + 1
  /\ Go(t, IF Uncontended(waiter_) THEN "own" ELSE "enq")
  /\ UNCHANGED <<tid_, items_, tcb, newItem>>

LockStoreTid(t) ==
  /\ pc[t] = "own"
  /\ tid_' = tcb[t]
  /\ Go(t, "cs")
  /\ UNCHANGED <<waiter_, items_, tcb, newItem>>

LockEnqueueAtFront(t) ==
  /\ pc[t] = "enq"
  /\ items_' = <<[tid_ |-> tcb[t], h_ |-> t]>> \o items_
  /\ Go(t, "wait")
  /\ UNCHANGED <<tid_, waiter_, tcb, newItem>>

LockEnqueue(t) ==
  /\ pc[t] = "enq"
  /\ items_' = Append(items_, [tid_ |-> tcb[t], h_ |-> t])
  /\ Go(t, "wait")
  /\ UNCHANGED <<tid_, waiter_, tcb, newItem>>

(* TryLockAwaiter: a compare-and-swap of waiter_ from 0 to 1.              *)
TryLock(t) ==
  /\ pc[t] = "idle"
  /\ waiter_ = 0
  /\ waiter_' = 1
  /\ Go(t, "own")
  /\ UNCHANGED <<tid_, items_, tcb, newItem>>

\* A failed try changes nothing; only a caller that unlocks regardless moves.
TryLockFails(t) ==
  /\ pc[t] = "idle"
  /\ waiter_ # 0
  /\ Go(t, IF t \in BlindTasks THEN "blind" ELSE "idle")
  /\ UNCHANGED <<tid_, waiter_, items_, tcb, newItem>>
-----------------------------------------------------------------------------
(* UnlockAwaiter.  compare_exchange_strong takes the caller's own TCB      *)
(* field by reference as `expected': when it fails it overwrites that tid. *)

UnlockCompareExchange(t) ==
  /\ pc[t] \in {"cs", "blind"}
  /\ IF tid_ = tcb[t]
     THEN /\ tid_' = 0
          /\ Go(t, "dec")
          /\ UNCHANGED tcb
     ELSE /\ tcb' = [tcb EXCEPT ![t] = tid_]
          /\ Go(t, "idle")
          /\ UNCHANGED tid_
  /\ UNCHANGED <<waiter_, items_, newItem>>

OthersWaitingOffByOne(old) == old > 2
OthersWaiting(old) == old > 1

UnlockDecrement(t) ==
  /\ pc[t] = "dec"
  /\ waiter_' = waiter_ - 1
  /\ Go(t, IF OthersWaiting(waiter_) THEN "deq" ELSE "idle")
  /\ UNCHANGED <<tid_, items_, tcb, newItem>>

\* `while (!items_.dequeue(newItem));' spins until the waiter is enqueued.
UnlockDequeue(t) ==
  /\ pc[t] = "deq"
  /\ items_ # <<>>
  /\ newItem' = [newItem EXCEPT ![t] = Head(items_)]
  /\ items_' = Tail(items_)
  /\ Go(t, "hand")
  /\ UNCHANGED <<tid_, waiter_, tcb>>

UnlockForgetsTid(t) ==
  /\ pc[t] = "hand"
  /\ Go(t, "wake")
  /\ UNCHANGED <<tid_, waiter_, items_, tcb, newItem>>

UnlockStoreTid(t) ==
  /\ pc[t] = "hand"
  /\ tid_' = newItem[t].tid_
  /\ Go(t, "wake")
  /\ UNCHANGED <<waiter_, items_, tcb, newItem>>

UnlockNeverWakes(t) ==
  /\ pc[t] = "wake"
  /\ Go(t, "idle")
  /\ UNCHANGED <<tid_, waiter_, items_, tcb, newItem>>

\* wakeUpReady puts the waiter on the ready queue; the unlocker goes on.
UnlockWake(t) ==
  /\ pc[t] = "wake"
  /\ pc' = [pc EXCEPT ![t] = "idle", ![newItem[t].h_] = "ready"]
  /\ newItem' = [newItem EXCEPT ![t] = NoItem]
  /\ UNCHANGED <<tid_, waiter_, items_, tcb>>

\* A CPU resumes the woken coroutine: LockAwaiter::await_resume.
Resume(t) ==
  /\ pc[t] = "ready"
  /\ Go(t, "cs")
  /\ UNCHANGED <<tid_, waiter_, items_, tcb, newItem>>
-----------------------------------------------------------------------------
\* What t's CPU does on its own once t has asked for the lock or holds it.
Progress(t) ==
  \/ LockStoreTid(t) \/ LockEnqueue(t)
  \/ UnlockCompareExchange(t) \/ UnlockDecrement(t) \/ UnlockDequeue(t)
  \/ UnlockStoreTid(t) \/ UnlockWake(t) \/ Resume(t)

Next == \E t \in Tasks :
          LockIncrement(t) \/ TryLock(t) \/ TryLockFails(t) \/ Progress(t)

\* Nobody has to lock; whoever started finishes, and holders do unlock.
Fairness == \A t \in Tasks : WF_vars(Progress(t))

Spec == Init /\ [][Next]_vars
FairSpec == Spec /\ Fairness
-----------------------------------------------------------------------------
TypeOK ==
  /\ tid_ \in Tasks \cup {0}
  /\ waiter_ \in Nat
  /\ items_ \in Seq([tid_ : Tasks \cup {0}, h_ : Tasks])
  /\ tcb \in [Tasks -> Tasks \cup {0}]
  /\ newItem \in [Tasks -> [tid_ : Tasks \cup {0}, h_ : Tasks \cup {0}]]
  /\ pc \in [Tasks -> Control]

\* Two coroutines are never both inside the region that lock() and unlock()
\* enclose, wherever the hand-over of a release stands.
MutualExclusion == \A t, u \in Tasks : pc[t] = "cs" /\ pc[u] = "cs" => t = u

\* The owner's tid is stored in tid_ before the owner runs, so its unlock()
\* never falls into the silent else branch of UnlockAwaiter, which would
\* leave the mutex locked for good.
OwnerCanUnlock == \A t \in Tasks : pc[t] = "cs" => tid_ = tcb[t]

\* Controls that carry the lock from one owner to the next.
Carrying == {"own", "ready", "cs", "dec", "deq", "hand", "wake"}

\* A coroutine that counted itself in waiter_ is never left with nobody that
\* could hand it the mutex: an increment racing a release is always seen by
\* one of the two.
NoStrandedWaiter ==
  (\E t \in Tasks : pc[t] \in {"enq", "wait"})
    => \E u \in Tasks : pc[u] \in Carrying

\* Every coroutine that asks for the mutex eventually runs as its owner.
LockGranted == \A t \in Tasks : pc[t] \in {"enq", "wait"} ~> pc[t] = "cs"

\* The mutex implements the FIFO lock: ownership moves at the increment of
\* waiter_ or at the dequeue of a release, and only to the head of the line.
Given == {newItem[u].h_ : u \in {t \in Tasks : pc[t] \in {"hand", "wake"}}}
Lock == INSTANCE FifoLock WITH
  taken  <- waiter_ > 0,
  holder <- {t \in Tasks : pc[t] \in {"own", "ready", "cs", "dec"}} \cup Given,
  line   <- [i \in DOMAIN items_ |-> items_[i].h_]
LockSpec == Lock!Spec
=============================================================================
