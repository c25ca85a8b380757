--------------------------- MODULE SchedulerProofs ---------------------------
(***************************************************************************)
(* Safety of the ready queue for any number of CPUs, ICUs and coroutines.  *)
(*                                                                         *)
(* No wake-up is lost because a CPU that found readyRo_ empty holds hmu    *)
(* until it is in the wait set (HmuInv, SleepInv): nobody can enqueue in   *)
(* between.  That is all hmu is good for: what keeps a coroutine on one    *)
(* CPU (PlaceInv) is that a handle is in one place only, the queue, the    *)
(* argument of a wakeUpReady or a CPU, whatever the draining CPUs do.      *)
(***************************************************************************)
EXTENDS Scheduler, TLAPS

Active(c) == pc[c] \in {"unlock", "resume"}

HmuInv ==
  /\ \A c \in CPUs : pc[c] \in {"pred", "sleep", "unlock"} => hmu = c
  /\ \A t \in Threads : wk[t] \in {"enqueue", "unlock"} => hmu = t
  /\ \A c \in CPUs : wk[c] # "none" => pc[c] = "resume"

ArgInv == \A t \in Threads : arg[t] # Nothing <=> wk[t] \in {"lock", "enqueue"}

SleepInv == \A c \in CPUs : pc[c] = "sleep" => readyRo_ = <<>>

\* NoLostWakeup, with an awake CPU instead of the wait set.
AwakeInv ==
  readyRo_ # <<>> => \/ \E c \in CPUs : pc[c] # "waiting"
                     \/ \E t \in Threads : wk[t] \in {"unlock", "notify"}

QueueInv ==
  /\ \A i, j \in 1..Len(readyRo_) : readyRo_[i] = readyRo_[j] => i = j
  /\ \A i \in 1..Len(readyRo_) :
       /\ readyRo_[i] \notin ended
       /\ \A t \in Threads : arg[t] # readyRo_[i]
       /\ \A c \in CPUs : Active(c) => cur[c] # readyRo_[i]

ActiveInv ==
  \A c \in CPUs : Active(c) =>
    /\ cur[c] \in Handles \ ended
    /\ \A d \in CPUs : Active(d) /\ cur[d] = cur[c] => d = c
    /\ \A t \in Threads : arg[t] # cur[c]

WokenInv ==
  \A t \in Threads : arg[t] # Nothing =>
    /\ arg[t] \notin ended
    /\ \A u \in Threads : arg[u] = arg[t] => u = t

PlaceInv == QueueInv /\ ActiveInv /\ WokenInv

IInv == TypeOK /\ HmuInv /\ ArgInv /\ SleepInv /\ AwakeInv /\ PlaceInv

\* The two operations on readyRo_.
LEMMA DequeueFacts ==
  ASSUME readyRo_ \in Seq(Handles), readyRo_ # <<>>
  PROVE  /\ Len(readyRo_) \in Nat /\ Len(readyRo_) >= 1
         /\ Head(readyRo_) = readyRo_[1] /\ Head(readyRo_) \in Handles
         /\ Tail(readyRo_) \in Seq(Handles)
         /\ Len(Tail(readyRo_)) = Len(readyRo_) - 1
         /\ \A i \in 1..Len(Tail(readyRo_)) :
              /\ i + 1 \in 1..Len(readyRo_)
              /\ Tail(readyRo_)[i] = readyRo_[i + 1]
  OBVIOUS

LEMMA EnqueueFacts ==
  ASSUME readyRo_ \in Seq(Handles), NEW h \in Handles
  PROVE  /\ Append(readyRo_, h) \in Seq(Handles)
         /\ Len(readyRo_) \in Nat
         /\ Len(Append(readyRo_, h)) = Len(readyRo_) + 1
         /\ \A i \in 1..Len(readyRo_) : Append(readyRo_, h)[i] = readyRo_[i]
         /\ Append(readyRo_, h)[Len(readyRo_) + 1] = h
  OBVIOUS

LEMMA InitIInv == Init => IInv
<1> SUFFICES ASSUME Init PROVE IInv
  OBVIOUS
<1> USE DEF Init
<1>1. TypeOK
  BY DEF TypeOK, Control, WakeControl
<1>2. HmuInv /\ SleepInv
  BY DEF HmuInv, SleepInv, Threads
<1>3. ArgInv /\ AwakeInv
  BY DEF ArgInv, AwakeInv
<1>4. 1..Len(readyRo_) = {}
  <2>1. Len(readyRo_) = 0
    OBVIOUS
  <2>2. QED
    BY <2>1
<1>5. PlaceInv
  BY <1>4 DEF PlaceInv, QueueInv, ActiveInv, WokenInv, Active
<1>6. QED
  BY <1>1, <1>2, <1>3, <1>5 DEF IInv

\* Every step keeps the invariant: one lemma per step of wakeUpReady() and of
\* schedule().
LEMMA WakeCallIInv ==
  ASSUME IInv, NEW t \in Threads, NEW h \in Handles, WakeCall(t, h) PROVE IInv'
<1> USE DEF WakeCall, WakeGo
<1>a. h \notin ended /\ h # Nothing /\ \A i \in 1..Len(readyRo_) : readyRo_[i] # h
  BY NamesAssumption DEF Suspended, IsQueued, IInv, TypeOK
<1>b. \A d \in CPUs : Active(d) => cur[d] # h
  BY DEF Suspended, IsRunning, Active
<1>c. \A u \in Threads : arg[u] # h
  BY DEF Suspended
<1>1. TypeOK'
  BY DEF IInv, TypeOK, Control, WakeControl
<1>2. HmuInv'
  BY DEF IInv, TypeOK, HmuInv, Threads
<1>3. ArgInv'
  BY <1>a DEF IInv, TypeOK, ArgInv
<1>4. SleepInv'
  BY DEF IInv, TypeOK, SleepInv
<1>5. AwakeInv'
  BY DEF IInv, TypeOK, AwakeInv
<1>6. QueueInv'
  BY <1>a, <1>b DEF IInv, TypeOK, PlaceInv, QueueInv, Active
<1>7. ActiveInv'
  BY <1>b DEF IInv, TypeOK, PlaceInv, ActiveInv, Active
<1>8. WokenInv'
  BY <1>a, <1>c DEF IInv, TypeOK, PlaceInv, WokenInv
<1>9. QED
  BY <1>1, <1>2, <1>3, <1>4, <1>5, <1>6, <1>7, <1>8 DEF IInv, PlaceInv

LEMMA WakeLockIInv ==
  ASSUME IInv, NEW t \in Threads, WakeLock(t) PROVE IInv'
<1> USE DEF WakeLock, WakeGo
<1>1. TypeOK'
  BY DEF IInv, TypeOK, Control, WakeControl
<1>2. HmuInv'
  BY NamesAssumption DEF IInv, TypeOK, HmuInv, Threads
<1>3. ArgInv'
  BY DEF IInv, TypeOK, ArgInv
<1>4. SleepInv'
  BY DEF IInv, TypeOK, SleepInv
<1>5. AwakeInv'
  BY DEF IInv, TypeOK, AwakeInv
<1>6. QueueInv'
  BY DEF IInv, TypeOK, PlaceInv, QueueInv, Active
<1>7. ActiveInv'
  BY DEF IInv, TypeOK, PlaceInv, ActiveInv, Active
<1>8. WokenInv'
  BY DEF IInv, TypeOK, PlaceInv, WokenInv
<1>9. QED
  BY <1>1, <1>2, <1>3, <1>4, <1>5, <1>6, <1>7, <1>8 DEF IInv, PlaceInv

LEMMA WakeEnqueueIInv ==
  ASSUME IInv, NEW t \in Threads, WakeEnqueue(t) PROVE IInv'
<1> USE DEF WakeEnqueue, WakeGo
<1>a. arg[t] \in Handles /\ arg[t] # Nothing /\ readyRo_ \in Seq(Handles)
  BY DEF IInv, TypeOK, ArgInv
<1>b. /\ Len(readyRo_) \in Nat /\ readyRo_' \in Seq(Handles)
      /\ Len(readyRo_') = Len(readyRo_) + 1
      /\ \A i \in 1..Len(readyRo_) : readyRo_'[i] = readyRo_[i]
      /\ readyRo_'[Len(readyRo_) + 1] = arg[t]
  BY <1>a, EnqueueFacts
<1>c. /\ arg' \in [Threads -> Handles \cup {Nothing}]
      /\ arg'[t] = Nothing /\ \A u \in Threads \ {t} : arg'[u] = arg[u]
  BY DEF IInv, TypeOK
<1>1. TypeOK'
  BY <1>b, <1>c DEF IInv, TypeOK, WakeControl
<1>2. HmuInv'
  BY DEF IInv, TypeOK, HmuInv, Threads
<1>3. ArgInv'
  BY <1>c DEF IInv, TypeOK, ArgInv
<1>4. SleepInv'
  BY DEF IInv, TypeOK, SleepInv, HmuInv, Threads
<1>5. AwakeInv'
  BY DEF IInv, TypeOK, AwakeInv
<1>6. QueueInv'
  <2>1. \A i \in 1..Len(readyRo_') :
          i \in 1..Len(readyRo_) \/ (i = Len(readyRo_) + 1 /\ readyRo_'[i] = arg[t])
    BY <1>b
  <2>2. \A i, j \in 1..Len(readyRo_') : readyRo_'[i] = readyRo_'[j] => i = j
    BY <1>b, <2>1 DEF IInv, PlaceInv, QueueInv
  <2>3. \A i \in 1..Len(readyRo_') :
          /\ readyRo_'[i] \notin ended
          /\ \A u \in Threads : arg'[u] # readyRo_'[i]
          /\ \A d \in CPUs : Active(d) => cur[d] # readyRo_'[i]
    <3>1. ASSUME NEW i \in 1..Len(readyRo_)
          PROVE  /\ readyRo_[i] \notin ended /\ readyRo_[i] # Nothing
                 /\ \A u \in Threads : arg'[u] # readyRo_[i]
                 /\ \A d \in CPUs : Active(d) => cur[d] # readyRo_[i]
      BY <1>a, <1>c, NamesAssumption DEF IInv, PlaceInv, QueueInv
    <3>2. /\ arg[t] \notin ended
          /\ \A u \in Threads : arg'[u] # arg[t]
          /\ \A d \in CPUs : Active(d) => cur[d] # arg[t]
      BY <1>a, <1>c DEF IInv, PlaceInv, ActiveInv, WokenInv
    <3>3. QED
      BY <1>b, <2>1, <3>1, <3>2
  <2>4. QED
    BY <2>2, <2>3 DEF QueueInv, Active
<1>7. ActiveInv'
  <2>1. \A d \in CPUs : Active(d) => cur[d] # Nothing
    BY NamesAssumption DEF IInv, PlaceInv, ActiveInv
  <2>2. QED
    BY <1>c, <2>1 DEF IInv, PlaceInv, ActiveInv, Active
<1>8. WokenInv'
  BY <1>c DEF IInv, PlaceInv, WokenInv
<1>9. QED
  BY <1>1, <1>2, <1>3, <1>4, <1>5, <1>6, <1>7, <1>8 DEF IInv, PlaceInv

LEMMA WakeUnlockIInv ==
  ASSUME IInv, NEW t \in Threads, WakeUnlock(t) PROVE IInv'
<1> USE DEF WakeUnlock, WakeGo
<1>1. TypeOK'
  BY DEF IInv, TypeOK, Control, WakeControl
<1>2. HmuInv'
  BY DEF IInv, TypeOK, HmuInv, Threads, ArgInv
<1>3. ArgInv'
  BY DEF IInv, TypeOK, ArgInv
<1>4. SleepInv'
  BY DEF IInv, TypeOK, SleepInv
<1>5. AwakeInv'
  BY DEF IInv, TypeOK, AwakeInv
<1>6. QueueInv'
  BY DEF IInv, TypeOK, PlaceInv, QueueInv, Active
<1>7. ActiveInv'
  BY DEF IInv, TypeOK, PlaceInv, ActiveInv, Active
<1>8. WokenInv'
  BY DEF IInv, TypeOK, PlaceInv, WokenInv
<1>9. QED
  BY <1>1, <1>2, <1>3, <1>4, <1>5, <1>6, <1>7, <1>8 DEF IInv, PlaceInv

LEMMA WakeNotifyIInv ==
  ASSUME IInv, NEW t \in Threads, WakeNotify(t) PROVE IInv'
<1> USE DEF WakeNotify, WakeGo, Go, hcv
<1>a. /\ UNCHANGED pc /\ \A d \in CPUs : pc[d] # "waiting"
      \/ \E d \in CPUs : pc[d] = "waiting" /\ pc' = [pc EXCEPT ![d] = "lock"]
  OBVIOUS
<1>b. /\ pc' \in [CPUs -> Control]
      /\ \A d \in CPUs : pc'[d] = pc[d] \/ (pc[d] = "waiting" /\ pc'[d] = "lock")
      /\ \E d \in CPUs : pc'[d] # "waiting"
  BY <1>a, ThreadsAssumption DEF IInv, TypeOK, Control
<1>1. TypeOK'
  BY <1>b DEF IInv, TypeOK, WakeControl
<1>2. HmuInv'
  BY <1>b DEF IInv, TypeOK, HmuInv, Threads
<1>3. ArgInv'
  BY DEF IInv, TypeOK, ArgInv
<1>4. SleepInv'
  BY <1>b DEF IInv, SleepInv
<1>5. AwakeInv'
  BY <1>b DEF AwakeInv
<1>6. QueueInv'
  BY <1>b DEF IInv, PlaceInv, QueueInv, Active
<1>7. ActiveInv'
  BY <1>b DEF IInv, PlaceInv, ActiveInv, Active
<1>8. WokenInv'
  BY DEF IInv, TypeOK, PlaceInv, WokenInv
<1>9. QED
  BY <1>1, <1>2, <1>3, <1>4, <1>5, <1>6, <1>7, <1>8 DEF IInv, PlaceInv

LEMMA ScheLockIInv ==
  ASSUME IInv, NEW c \in CPUs, ScheLock(c) PROVE IInv'
<1> USE DEF ScheLock, Go
<1>1. TypeOK'
  BY DEF IInv, TypeOK, Control, WakeControl, Threads
<1>2. HmuInv'
  BY NamesAssumption DEF IInv, TypeOK, HmuInv, Threads
<1>3. ArgInv'
  BY DEF IInv, TypeOK, ArgInv
<1>4. SleepInv'
  BY DEF IInv, TypeOK, SleepInv
<1>5. AwakeInv'
  BY DEF IInv, TypeOK, AwakeInv
<1>6. QueueInv'
  BY DEF IInv, TypeOK, PlaceInv, QueueInv, Active
<1>7. ActiveInv'
  BY DEF IInv, TypeOK, PlaceInv, ActiveInv, Active
<1>8. WokenInv'
  BY DEF IInv, TypeOK, PlaceInv, WokenInv
<1>9. QED
  BY <1>1, <1>2, <1>3, <1>4, <1>5, <1>6, <1>7, <1>8 DEF IInv, PlaceInv

LEMMA ScheDequeueIInv ==
  ASSUME IInv, NEW c \in CPUs, ScheDequeue(c) PROVE IInv'
<1> USE DEF ScheDequeue, Go
<1>a. readyRo_ \in Seq(Handles)
  BY DEF IInv, TypeOK
<1>b. /\ Len(readyRo_) \in Nat /\ Len(readyRo_) >= 1
      /\ Head(readyRo_) = readyRo_[1] /\ readyRo_[1] \in Handles
      /\ readyRo_' \in Seq(Handles)
      /\ \A i \in 1..Len(readyRo_') :
           i + 1 \in 1..Len(readyRo_) /\ readyRo_'[i] = readyRo_[i + 1]
  BY <1>a, DequeueFacts
<1>c. /\ cur'[c] = readyRo_[1] /\ \A d \in CPUs \ {c} : cur'[d] = cur[d]
      /\ \A d \in CPUs \ {c} : pc'[d] = pc[d]
  BY <1>b DEF IInv, TypeOK
<1>d. /\ readyRo_[1] \notin ended
      /\ \A u \in Threads : arg[u] # readyRo_[1]
      /\ \A d \in CPUs : Active(d) => cur[d] # readyRo_[1]
      /\ \A i \in 1..Len(readyRo_') : readyRo_'[i] # readyRo_[1]
  BY <1>b DEF IInv, PlaceInv, QueueInv
<1>1. TypeOK'
  BY <1>b DEF IInv, TypeOK, Control
<1>2. HmuInv'
  BY DEF IInv, TypeOK, HmuInv, Threads
<1>3. ArgInv'
  BY DEF IInv, TypeOK, ArgInv
<1>4. SleepInv'
  BY DEF IInv, TypeOK, SleepInv
<1>5. AwakeInv'
  BY DEF IInv, TypeOK, AwakeInv
<1>6. QueueInv'
  <2>1. \A i, j \in 1..Len(readyRo_') : readyRo_'[i] = readyRo_'[j] => i = j
    <3>1. SUFFICES ASSUME NEW i \in 1..Len(readyRo_'), NEW j \in 1..Len(readyRo_'),
                          readyRo_'[i] = readyRo_'[j]
                   PROVE  i = j
      OBVIOUS
    <3>2. readyRo_[i + 1] = readyRo_[j + 1] /\ i + 1 \in 1..Len(readyRo_)
            /\ j + 1 \in 1..Len(readyRo_)
      BY <1>b, <3>1
    <3>3. i + 1 = j + 1
      BY <3>2 DEF IInv, PlaceInv, QueueInv
    <3>4. QED
      BY <3>3, <1>b
  <2>2. ASSUME NEW i \in 1..Len(readyRo_')
        PROVE  /\ readyRo_'[i] \notin ended
               /\ \A t \in Threads : arg[t] # readyRo_'[i]
               /\ \A d \in CPUs : Active(d)' => cur'[d] # readyRo_'[i]
    BY <1>b, <1>c, <1>d DEF IInv, PlaceInv, QueueInv, Active
  <2>3. QED
    BY <2>1, <2>2 DEF QueueInv
<1>7. ActiveInv'
  BY <1>b, <1>c, <1>d DEF IInv, PlaceInv, ActiveInv, Active
<1>8. WokenInv'
  BY DEF IInv, TypeOK, PlaceInv, WokenInv
<1>9. QED
  BY <1>1, <1>2, <1>3, <1>4, <1>5, <1>6, <1>7, <1>8 DEF IInv, PlaceInv

LEMMA ScheEmptyIInv ==
  ASSUME IInv, NEW c \in CPUs, ScheEmpty(c) PROVE IInv'
<1> USE DEF ScheEmpty, Go
<1>1. TypeOK'
  BY DEF IInv, TypeOK, Control, WakeControl
<1>2. HmuInv'
  BY DEF IInv, TypeOK, HmuInv, Threads
<1>3. ArgInv'
  BY DEF IInv, TypeOK, ArgInv
<1>4. SleepInv'
  BY DEF IInv, TypeOK, SleepInv
<1>5. AwakeInv'
  BY DEF IInv, TypeOK, AwakeInv
<1>6. QueueInv'
  BY DEF IInv, TypeOK, PlaceInv, QueueInv, Active
<1>7. ActiveInv'
  BY DEF IInv, TypeOK, PlaceInv, ActiveInv, Active
<1>8. WokenInv'
  BY DEF IInv, TypeOK, PlaceInv, WokenInv
<1>9. QED
  BY <1>1, <1>2, <1>3, <1>4, <1>5, <1>6, <1>7, <1>8 DEF IInv, PlaceInv

LEMMA ScheWaitIInv ==
  ASSUME IInv, NEW c \in CPUs, ScheWait(c) PROVE IInv'
<1> USE DEF ScheWait, Go
<1>1. TypeOK'
  BY DEF IInv, TypeOK, Control, WakeControl
<1>2. HmuInv'
  BY DEF IInv, TypeOK, HmuInv, Threads
<1>3. ArgInv'
  BY DEF IInv, TypeOK, ArgInv
<1>4. SleepInv'
  BY DEF IInv, TypeOK, SleepInv
<1>5. AwakeInv'
  BY DEF IInv, SleepInv, AwakeInv
<1>6. QueueInv'
  BY DEF IInv, TypeOK, PlaceInv, QueueInv, Active
<1>7. ActiveInv'
  BY DEF IInv, TypeOK, PlaceInv, ActiveInv, Active
<1>8. WokenInv'
  BY DEF IInv, TypeOK, PlaceInv, WokenInv
<1>9. QED
  BY <1>1, <1>2, <1>3, <1>4, <1>5, <1>6, <1>7, <1>8 DEF IInv, PlaceInv

LEMMA ScheSpuriousIInv ==
  ASSUME IInv, NEW c \in CPUs, ScheSpurious(c) PROVE IInv'
<1> USE DEF ScheSpurious, Go
<1>1. TypeOK'
  BY DEF IInv, TypeOK, Control, WakeControl
<1>2. HmuInv'
  BY DEF IInv, TypeOK, HmuInv, Threads
<1>3. ArgInv'
  BY DEF IInv, TypeOK, ArgInv
<1>4. SleepInv'
  BY DEF IInv, TypeOK, SleepInv
<1>5. AwakeInv'
  BY DEF IInv, TypeOK, AwakeInv
<1>6. QueueInv'
  BY DEF IInv, TypeOK, PlaceInv, QueueInv, Active
<1>7. ActiveInv'
  BY DEF IInv, TypeOK, PlaceInv, ActiveInv, Active
<1>8. WokenInv'
  BY DEF IInv, TypeOK, PlaceInv, WokenInv
<1>9. QED
  BY <1>1, <1>2, <1>3, <1>4, <1>5, <1>6, <1>7, <1>8 DEF IInv, PlaceInv

LEMMA ScheUnlockIInv ==
  ASSUME IInv, NEW c \in CPUs, ScheUnlock(c) PROVE IInv'
<1> USE DEF ScheUnlock, Go
<1>1. TypeOK'
  BY DEF IInv, TypeOK, Control, WakeControl
<1>2. HmuInv'
  BY DEF IInv, TypeOK, HmuInv, Threads
<1>3. ArgInv'
  BY DEF IInv, TypeOK, ArgInv
<1>4. SleepInv'
  BY DEF IInv, TypeOK, SleepInv
<1>5. AwakeInv'
  BY DEF IInv, TypeOK, AwakeInv
<1>6. QueueInv'
  BY DEF IInv, TypeOK, PlaceInv, QueueInv, Active
<1>7. ActiveInv'
  BY DEF IInv, TypeOK, PlaceInv, ActiveInv, Active
<1>8. WokenInv'
  BY DEF IInv, TypeOK, PlaceInv, WokenInv
<1>9. QED
  BY <1>1, <1>2, <1>3, <1>4, <1>5, <1>6, <1>7, <1>8 DEF IInv, PlaceInv

LEMMA SuspendIInv ==
  ASSUME IInv, NEW c \in CPUs, Suspend(c) PROVE IInv'
<1> USE DEF Suspend, Go
<1>1. TypeOK'
  BY DEF IInv, TypeOK, Control, WakeControl
<1>2. HmuInv'
  BY DEF IInv, TypeOK, HmuInv, Threads
<1>3. ArgInv'
  BY DEF IInv, TypeOK, ArgInv
<1>4. SleepInv'
  BY DEF IInv, TypeOK, SleepInv
<1>5. AwakeInv'
  BY DEF IInv, TypeOK, AwakeInv
<1>6. QueueInv'
  BY DEF IInv, TypeOK, PlaceInv, QueueInv, Active
<1>7. ActiveInv'
  BY DEF IInv, TypeOK, PlaceInv, ActiveInv, Active
<1>8. WokenInv'
  BY DEF IInv, TypeOK, PlaceInv, WokenInv
<1>9. QED
  BY <1>1, <1>2, <1>3, <1>4, <1>5, <1>6, <1>7, <1>8 DEF IInv, PlaceInv

LEMMA FinishIInv ==
  ASSUME IInv, NEW c \in CPUs, Finish(c) PROVE IInv'
<1> USE DEF Finish, Go
<1>a. /\ cur[c] \in Handles /\ Active(c)
      /\ \A t \in Threads : arg[t] # cur[c]
      /\ \A d \in CPUs \ {c} : Active(d) => cur[d] # cur[c]
      /\ \A i \in 1..Len(readyRo_) : readyRo_[i] # cur[c]
  BY DEF IInv, PlaceInv, ActiveInv, QueueInv, Active
<1>1. TypeOK'
  BY <1>a DEF IInv, TypeOK, Control
<1>2. HmuInv'
  BY DEF IInv, TypeOK, HmuInv, Threads
<1>3. ArgInv'
  BY DEF IInv, TypeOK, ArgInv
<1>4. SleepInv'
  BY DEF IInv, TypeOK, SleepInv
<1>5. AwakeInv'
  BY DEF IInv, TypeOK, AwakeInv
<1>6. QueueInv'
  BY <1>a DEF IInv, TypeOK, PlaceInv, QueueInv, Active
<1>7. ActiveInv'
  BY <1>a DEF IInv, TypeOK, PlaceInv, ActiveInv, Active
<1>8. WokenInv'
  BY <1>a DEF IInv, TypeOK, PlaceInv, WokenInv
<1>9. QED
  BY <1>1, <1>2, <1>3, <1>4, <1>5, <1>6, <1>7, <1>8 DEF IInv, PlaceInv

LEMMA DrainDequeueIInv ==
  ASSUME IInv, NEW c \in CPUs, DrainDequeue(c) PROVE IInv'
<1> USE DEF DrainDequeue, Go
<1>a. readyRo_ \in Seq(Handles)
  BY DEF IInv, TypeOK
<1>b. /\ Len(readyRo_) \in Nat /\ Len(readyRo_) >= 1
      /\ Head(readyRo_) = readyRo_[1] /\ readyRo_[1] \in Handles
      /\ readyRo_' \in Seq(Handles)
      /\ \A i \in 1..Len(readyRo_') :
           i + 1 \in 1..Len(readyRo_) /\ readyRo_'[i] = readyRo_[i + 1]
  BY <1>a, DequeueFacts
<1>c. /\ cur'[c] = readyRo_[1] /\ \A d \in CPUs \ {c} : cur'[d] = cur[d]
      /\ \A d \in CPUs \ {c} : pc'[d] = pc[d]
  BY <1>b DEF IInv, TypeOK
<1>d. /\ readyRo_[1] \notin ended
      /\ \A u \in Threads : arg[u] # readyRo_[1]
      /\ \A d \in CPUs : Active(d) => cur[d] # readyRo_[1]
      /\ \A i \in 1..Len(readyRo_') : readyRo_'[i] # readyRo_[1]
  BY <1>b DEF IInv, PlaceInv, QueueInv
<1>1. TypeOK'
  BY <1>b DEF IInv, TypeOK, Control
<1>2. HmuInv'
  BY DEF IInv, TypeOK, HmuInv, Threads
<1>3. ArgInv'
  BY DEF IInv, TypeOK, ArgInv
<1>4. SleepInv'
  BY DEF IInv, TypeOK, SleepInv
<1>5. AwakeInv'
  BY DEF IInv, TypeOK, AwakeInv
<1>6. QueueInv'
  <2>1. \A i, j \in 1..Len(readyRo_') : readyRo_'[i] = readyRo_'[j] => i = j
    <3>1. SUFFICES ASSUME NEW i \in 1..Len(readyRo_'), NEW j \in 1..Len(readyRo_'),
                          readyRo_'[i] = readyRo_'[j]
                   PROVE  i = j
      OBVIOUS
    <3>2. readyRo_[i + 1] = readyRo_[j + 1] /\ i + 1 \in 1..Len(readyRo_)
            /\ j + 1 \in 1..Len(readyRo_)
      BY <1>b, <3>1
    <3>3. i + 1 = j + 1
      BY <3>2 DEF IInv, PlaceInv, QueueInv
    <3>4. QED
      BY <3>3, <1>b
  <2>2. ASSUME NEW i \in 1..Len(readyRo_')
        PROVE  /\ readyRo_'[i] \notin ended
               /\ \A t \in Threads : arg[t] # readyRo_'[i]
               /\ \A d \in CPUs : Active(d)' => cur'[d] # readyRo_'[i]
    BY <1>b, <1>c, <1>d DEF IInv, PlaceInv, QueueInv, Active
  <2>3. QED
    BY <2>1, <2>2 DEF QueueInv
<1>7. ActiveInv'
  BY <1>b, <1>c, <1>d DEF IInv, PlaceInv, ActiveInv, Active
<1>8. WokenInv'
  BY DEF IInv, TypeOK, PlaceInv, WokenInv
<1>9. QED
  BY <1>1, <1>2, <1>3, <1>4, <1>5, <1>6, <1>7, <1>8 DEF IInv, PlaceInv

LEMMA DrainEmptyIInv ==
  ASSUME IInv, NEW c \in CPUs, DrainEmpty(c) PROVE IInv'
<1> USE DEF DrainEmpty, Go
<1>1. TypeOK'
  BY DEF IInv, TypeOK, Control, WakeControl
<1>2. HmuInv'
  BY DEF IInv, TypeOK, HmuInv, Threads
<1>3. ArgInv'
  BY DEF IInv, TypeOK, ArgInv
<1>4. SleepInv'
  BY DEF IInv, TypeOK, SleepInv
<1>5. AwakeInv'
  BY DEF IInv, TypeOK, AwakeInv
<1>6. QueueInv'
  BY DEF IInv, TypeOK, PlaceInv, QueueInv, Active
<1>7. ActiveInv'
  BY DEF IInv, TypeOK, PlaceInv, ActiveInv, Active
<1>8. WokenInv'
  BY DEF IInv, TypeOK, PlaceInv, WokenInv
<1>9. QED
  BY <1>1, <1>2, <1>3, <1>4, <1>5, <1>6, <1>7, <1>8 DEF IInv, PlaceInv

LEMMA NextIInv == IInv /\ [Next]_vars => IInv'
<1> SUFFICES ASSUME IInv, [Next]_vars PROVE IInv'
  OBVIOUS
<1>1. CASE UNCHANGED vars
  BY <1>1 DEF vars, IInv, TypeOK, HmuInv, ArgInv, SleepInv, AwakeInv, PlaceInv,
              QueueInv, ActiveInv, WokenInv, Active
<1>2. ASSUME NEW t \in Threads, NEW h \in Handles, WakeCall(t, h) PROVE IInv'
  BY <1>2, WakeCallIInv
<1>3. ASSUME NEW t \in Threads, Wake(t) PROVE IInv'
  BY <1>3, WakeLockIInv, WakeEnqueueIInv, WakeUnlockIInv, WakeNotifyIInv DEF Wake
<1>4. ASSUME NEW c \in CPUs, Sche(c) \/ ScheSpurious(c) PROVE IInv'
  BY <1>4, ScheLockIInv, ScheDequeueIInv, ScheEmptyIInv, ScheWaitIInv,
     ScheSpuriousIInv, ScheUnlockIInv, SuspendIInv, FinishIInv, DrainDequeueIInv,
     DrainEmptyIInv DEF Sche
<1>5. QED
  BY <1>1, <1>2, <1>3, <1>4 DEF Next

\* IInv holds throughout.
THEOREM Invariance == Spec => []IInv
BY InitIInv, NextIInv, PTL DEF Spec
-----------------------------------------------------------------------------
\* TypeOK of the scheduler, for any number of threads and coroutines.
THEOREM TypeCorrect == Spec => []TypeOK
<1>1. IInv => TypeOK
  BY DEF IInv
<1>2. QED
  BY <1>1, Invariance, PTL

\* The dequeue in hcv.wait's predicate under hmu and the enqueue in wakeUpReady
\* under hmu never leave work queued with every CPU asleep and none notified.
THEOREM WakeupsAreKept == Spec => []NoLostWakeup
<1>1. IInv => NoLostWakeup
  BY DEF IInv, AwakeInv, NoLostWakeup, hcv
<1>2. QED
  BY <1>1, Invariance, PTL

\* schedule() never resumes a coroutine that another CPU is executing or that
\* has ended, although its loop drains readyRo_ without hmu.
THEOREM FramesAreExclusive == Spec => []FrameExclusive
<1>1. IInv => FrameExclusive
  BY DEF IInv, PlaceInv, ActiveInv, Active, FrameExclusive
<1>2. QED
  BY <1>1, Invariance, PTL
=============================================================================
