---------------------------- MODULE MuCoreProofs ----------------------------
(***************************************************************************)
(* Safety of the coroutine mutex for any finite set of coroutines, as long *)
(* as nobody unlocks a mutex it did not get (BlindTasks = {}).             *)
(*                                                                         *)
(* The induction rests on three facts besides the types: waiter_ counts    *)
(* exactly the coroutines that hold or want the lock (so that "the old     *)
(* value was 0" means "nobody is there"), exactly one coroutine carries    *)
(* the lock while that count is positive, and every item still in items_   *)
(* or being handed over names a distinct suspended coroutine.              *)
(***************************************************************************)
EXTENDS MuCore, FiniteSetTheorems, TLAPS

\* The coroutines that have incremented waiter_ and not yet decremented it.
Counted == {t \in Tasks : pc[t] \in {"own", "enq", "wait", "ready", "cs", "dec"}}

CountInv == waiter_ = Cardinality(Counted)

CarryInv ==
  /\ \A t, u \in Tasks : pc[t] \in Carrying /\ pc[u] \in Carrying => t = u
  /\ Counted # {} => \E u \in Tasks : pc[u] \in Carrying

TidInv ==
  /\ \A t \in Tasks : pc[t] # "blind" /\ tcb[t] = t
  /\ \A t \in Tasks : pc[t] \in {"cs", "ready"} => tid_ = t
  /\ \A t \in Tasks : pc[t] = "wake" => tid_ = newItem[t].tid_

HandOverInv ==
  /\ \A u \in Tasks : pc[u] = "deq" => \E t \in Tasks : pc[t] \in {"enq", "wait"}
  /\ \A u \in Tasks : pc[u] \in {"hand", "wake"} =>
       /\ newItem[u].h_ \in Tasks
       /\ pc[newItem[u].h_] = "wait"
       /\ newItem[u].tid_ = newItem[u].h_
       /\ \A i \in 1..Len(items_) : items_[i].h_ # newItem[u].h_

ItemsInv ==
  /\ \A i \in 1..Len(items_) : /\ pc[items_[i].h_] = "wait"
                               /\ items_[i].tid_ = items_[i].h_
  /\ \A i, j \in 1..Len(items_) : items_[i].h_ = items_[j].h_ => i = j

IInv == TypeOK /\ CountInv /\ CarryInv /\ TidInv /\ HandOverInv /\ ItemsInv

\* Counting: what one coroutine entering or leaving Counted does to waiter_.
LEMMA CountedFinite == IsFiniteSet(Counted) /\ Cardinality(Counted) \in Nat
  BY TasksAssumption, FS_Subset, FS_CardinalityType DEF Counted

LEMMA CountedEnter ==
  ASSUME NEW t \in Tasks, t \notin Counted, Counted' = Counted \cup {t}, CountInv
  PROVE  Cardinality(Counted') = waiter_ + 1
  BY CountedFinite, FS_AddElement DEF CountInv

LEMMA CountedLeave ==
  ASSUME NEW t \in Tasks, t \in Counted, Counted' = Counted \ {t}, CountInv
  PROVE  Cardinality(Counted') = waiter_ - 1
  BY CountedFinite, FS_RemoveElement DEF CountInv

\* The old value of waiter_ is 0 exactly when nobody carries the lock.
LEMMA NobodyThere ==
  ASSUME IInv, waiter_ = 0
  PROVE  Counted = {} /\ \A t \in Tasks : pc[t] \notin Carrying
<1>1. Counted = {}
  BY CountedFinite, FS_EmptySet DEF IInv, CountInv
<1>2. ASSUME NEW t \in Tasks, pc[t] \in Carrying PROVE FALSE
  BY <1>1, <1>2 DEF Counted, Carrying, IInv, HandOverInv
<1>3. QED
  BY <1>1, <1>2

\* Every entry of items_ names a coroutine.
LEMMA ItemsAreTasks ==
  ASSUME TypeOK PROVE \A i \in 1..Len(items_) : items_[i].h_ \in Tasks
<1> DEFINE Item == [tid_ : Tasks \cup {0}, h_ : Tasks]
<1>1. items_ \in Seq(Item) /\ \A x \in Item : x.h_ \in Tasks
  BY DEF TypeOK
<1> HIDE DEF Item
<1>2. \A i \in 1..Len(items_) : items_[i] \in Item
  BY <1>1
<1>3. QED
  BY <1>1, <1>2

LEMMA InitIInv == BlindTasks = {} /\ Init => IInv
<1> SUFFICES ASSUME Init PROVE IInv
  OBVIOUS
<1> USE DEF Init
<1>1. TypeOK
  BY TasksAssumption DEF TypeOK, NoItem, Control
<1>2. Counted = {}
  BY DEF Counted
<1>3. CountInv
  BY <1>2, FS_EmptySet DEF CountInv
<1>4. QED
  BY <1>1, <1>2, <1>3
     DEF IInv, CarryInv, TidInv, HandOverInv, ItemsInv, Carrying, NoItem

\* Every step keeps the invariant: one lemma per operation of the mutex.
LEMMA LockIncrementIInv ==
  ASSUME IInv, NEW t \in Tasks, LockIncrement(t) PROVE IInv'
<1> USE DEF LockIncrement, Go, Uncontended
<1>1. TypeOK'
  BY DEF IInv, TypeOK, Control
<1>2. CountInv'
  <2>1. t \notin Counted /\ Counted' = Counted \cup {t}
    BY DEF IInv, TypeOK, Counted
  <2>2. QED
    BY <2>1, CountedEnter DEF IInv, CountInv
<1>3. CarryInv'
  <2>1. CASE waiter_ = 0
    BY <2>1, NobodyThere DEF IInv, TypeOK, CarryInv, Carrying, Counted
  <2>2. CASE waiter_ # 0
    <3>1. Counted # {}
      BY <2>2, FS_EmptySet DEF IInv, CountInv
    <3>2. QED
      BY <2>2, <3>1 DEF IInv, TypeOK, CarryInv, Carrying, Counted
  <2>3. QED
    BY <2>1, <2>2
<1>4. TidInv'
  BY DEF IInv, TypeOK, TidInv
<1>5. HandOverInv'
  BY DEF IInv, TypeOK, HandOverInv
<1>6. ItemsInv'
  BY DEF IInv, TypeOK, ItemsInv
<1>7. QED
  BY <1>1, <1>2, <1>3, <1>4, <1>5, <1>6 DEF IInv

LEMMA TryLockIInv ==
  ASSUME IInv, NEW t \in Tasks, TryLock(t) PROVE IInv'
<1>1. LockIncrement(t)
  BY DEF TryLock, LockIncrement, Uncontended
<1>2. QED
  BY <1>1, LockIncrementIInv

LEMMA LockStoreTidIInv ==
  ASSUME IInv, NEW t \in Tasks, LockStoreTid(t) PROVE IInv'
<1> USE DEF LockStoreTid, Go
<1>1. TypeOK'
  BY DEF IInv, TypeOK, Control
<1>2. CountInv'
  <2>1. Counted' = Counted
    BY DEF IInv, TypeOK, Counted
  <2>2. QED
    BY <2>1 DEF IInv, CountInv
<1>3. CarryInv'
  BY DEF IInv, TypeOK, CarryInv, Carrying, Counted
<1>4. TidInv'
  BY DEF IInv, TypeOK, TidInv, CarryInv, Carrying
<1>5. HandOverInv'
  BY DEF IInv, TypeOK, HandOverInv
<1>6. ItemsInv'
  BY DEF IInv, TypeOK, ItemsInv
<1>7. QED
  BY <1>1, <1>2, <1>3, <1>4, <1>5, <1>6 DEF IInv

LEMMA LockEnqueueIInv ==
  ASSUME IInv, NEW t \in Tasks, LockEnqueue(t) PROVE IInv'
<1> USE DEF LockEnqueue, Go
<1>1. TypeOK'
  BY DEF IInv, TypeOK, Control
<1>2. CountInv'
  <2>1. Counted' = Counted
    BY DEF IInv, TypeOK, Counted
  <2>2. QED
    BY <2>1 DEF IInv, CountInv
<1>3. CarryInv'
  BY DEF IInv, TypeOK, CarryInv, Carrying, Counted
<1>4. TidInv'
  BY DEF IInv, TypeOK, TidInv
<1>5. \A i \in 1..Len(items_) : items_[i].h_ # t
  BY DEF IInv, TypeOK, ItemsInv
<1>6. HandOverInv'
  BY <1>5 DEF IInv, TypeOK, HandOverInv
<1>7. ItemsInv'
  BY <1>5 DEF IInv, TypeOK, ItemsInv, TidInv
<1>8. QED
  BY <1>1, <1>2, <1>3, <1>4, <1>6, <1>7 DEF IInv

LEMMA UnlockCompareExchangeIInv ==
  ASSUME IInv, NEW t \in Tasks, UnlockCompareExchange(t) PROVE IInv'
<1> USE DEF UnlockCompareExchange, Go
<1>1. /\ pc[t] = "cs" /\ tid_ = tcb[t] /\ tid_' = 0
      /\ pc' = [pc EXCEPT ![t] = "dec"]
      /\ UNCHANGED <<tcb, waiter_, items_, newItem>>
  BY DEF IInv, TidInv
<1>2. TypeOK'
  BY <1>1 DEF IInv, TypeOK, Control
<1>3. CountInv'
  <2>1. Counted' = Counted
    BY <1>1 DEF IInv, TypeOK, Counted
  <2>2. QED
    BY <1>1, <2>1 DEF IInv, CountInv
<1>4. CarryInv'
  BY <1>1 DEF IInv, TypeOK, CarryInv, Carrying, Counted
<1>5. TidInv'
  BY <1>1 DEF IInv, TypeOK, TidInv, CarryInv, Carrying
<1>6. HandOverInv'
  BY <1>1 DEF IInv, TypeOK, HandOverInv
<1>7. ItemsInv'
  BY <1>1 DEF IInv, TypeOK, ItemsInv
<1>8. QED
  BY <1>2, <1>3, <1>4, <1>5, <1>6, <1>7 DEF IInv

LEMMA UnlockDecrementIInv ==
  ASSUME IInv, NEW t \in Tasks, UnlockDecrement(t) PROVE IInv'
<1> USE DEF UnlockDecrement, Go, OthersWaiting
<1>1. t \in Counted /\ Counted' = Counted \ {t}
  BY DEF IInv, TypeOK, Counted
<1>2. CountInv'
  BY <1>1, CountedLeave DEF IInv, CountInv
<1>3. waiter_ \in Nat /\ waiter_ # 0
  BY <1>1, CountedFinite, FS_EmptySet DEF IInv, CountInv, TypeOK
<1>4. TypeOK'
  BY <1>3 DEF IInv, TypeOK, Control
<1>5. waiter_ > 1 => Counted' # {}
  BY <1>2, <1>3, FS_EmptySet DEF CountInv
<1>6. waiter_ <= 1 => Counted' = {}
  <2>1. IsFiniteSet(Counted')
    BY <1>1, CountedFinite, FS_RemoveElement
  <2>2. QED
    BY <1>2, <1>3, <2>1, FS_EmptySet DEF CountInv
<1>7. CarryInv'
  BY <1>3, <1>6 DEF IInv, TypeOK, CarryInv, Carrying
<1>8. TidInv'
  BY DEF IInv, TypeOK, TidInv
<1>9. HandOverInv'
  <2>1. \A u \in Counted' : pc'[u] \in {"enq", "wait"}
    BY <1>1 DEF IInv, TypeOK, CarryInv, Carrying, Counted
  <2>2. waiter_ > 1 => \E u \in Tasks : pc'[u] \in {"enq", "wait"}
    BY <1>5, <2>1 DEF Counted
  <2>3. QED
    BY <1>3, <2>2 DEF IInv, TypeOK, HandOverInv, CarryInv, Carrying
<1>10. ItemsInv'
  BY DEF IInv, TypeOK, ItemsInv
<1>11. QED
  BY <1>2, <1>4, <1>7, <1>8, <1>9, <1>10 DEF IInv

LEMMA UnlockDequeueIInv ==
  ASSUME IInv, NEW t \in Tasks, UnlockDequeue(t) PROVE IInv'
<1> USE DEF UnlockDequeue, Go
<1> DEFINE Item == [tid_ : Tasks \cup {0}, h_ : Tasks]
<1>a. items_ \in Seq(Item) /\ items_ # <<>>
  BY DEF IInv, TypeOK
<1>b. \A x \in Item : x.h_ \in Tasks /\ x \in [tid_ : Tasks \cup {0}, h_ : Tasks \cup {0}]
  OBVIOUS
<1> HIDE DEF Item
<1>c. /\ Head(items_) = items_[1] /\ Head(items_) \in Item
      /\ Len(items_) \in Nat /\ Len(items_) >= 1
      /\ Tail(items_) \in Seq(Item)
      /\ Len(Tail(items_)) = Len(items_) - 1
      /\ \A i \in 1..Len(Tail(items_)) : Tail(items_)[i] = items_[i + 1]
      /\ \A i \in 1..Len(items_) : items_[i] \in Item
  BY <1>a
<1>1. /\ Head(items_) = items_[1]
      /\ Len(items_) \in Nat /\ Len(items_) >= 1
      /\ Len(Tail(items_)) = Len(items_) - 1
      /\ \A i \in 1..Len(Tail(items_)) : Tail(items_)[i] = items_[i + 1]
      /\ \A i \in 1..Len(items_) : items_[i].h_ \in Tasks
  BY <1>b, <1>c
<1>2. TypeOK'
  <2>1. items_' \in Seq([tid_ : Tasks \cup {0}, h_ : Tasks])
    BY <1>c DEF Item
  <2>2. newItem' \in [Tasks -> [tid_ : Tasks \cup {0}, h_ : Tasks \cup {0}]]
    <3>1. Head(items_) \in [tid_ : Tasks \cup {0}, h_ : Tasks \cup {0}]
      BY <1>b, <1>c
    <3>2. QED
      BY <3>1 DEF IInv, TypeOK
  <2>3. QED
    BY <2>1, <2>2 DEF IInv, TypeOK, Control
<1>3. CountInv'
  <2>1. Counted' = Counted
    BY DEF IInv, TypeOK, Counted
  <2>2. QED
    BY <2>1 DEF IInv, CountInv
<1>4. CarryInv'
  BY DEF IInv, TypeOK, CarryInv, Carrying, Counted
<1>5. TidInv'
  BY DEF IInv, TypeOK, TidInv
<1>6. HandOverInv'
  <2>1. pc[items_[1].h_] = "wait" /\ items_[1].tid_ = items_[1].h_
    BY <1>1 DEF IInv, ItemsInv
  <2>2. \A i \in 1..Len(Tail(items_)) : Tail(items_)[i].h_ # items_[1].h_
    BY <1>1 DEF IInv, ItemsInv
  <2>3. newItem'[t] = items_[1] /\ items_[1].h_ \in Tasks
    BY <1>1 DEF IInv, TypeOK
  <2>4. \A u \in Tasks : u # t => pc'[u] \notin {"deq", "hand", "wake"}
    BY DEF IInv, TypeOK, CarryInv, Carrying
  <2>5. pc'[t] = "hand" /\ pc'[items_[1].h_] = "wait"
    BY <2>1, <2>3 DEF IInv, TypeOK
  <2>6. QED
    BY <2>1, <2>2, <2>3, <2>4, <2>5 DEF HandOverInv
<1>7. ItemsInv'
  <2>1. \A i \in 1..Len(items_) : pc'[items_[i].h_] = "wait"
    BY <1>1 DEF IInv, TypeOK, ItemsInv
  <2>2. QED
    BY <1>1, <2>1 DEF IInv, ItemsInv
<1>8. QED
  BY <1>2, <1>3, <1>4, <1>5, <1>6, <1>7 DEF IInv

LEMMA UnlockStoreTidIInv ==
  ASSUME IInv, NEW t \in Tasks, UnlockStoreTid(t) PROVE IInv'
<1> USE DEF UnlockStoreTid, Go
<1>1. TypeOK'
  BY DEF IInv, TypeOK, Control
<1>2. CountInv'
  <2>1. Counted' = Counted
    BY DEF IInv, TypeOK, Counted
  <2>2. QED
    BY <2>1 DEF IInv, CountInv
<1>3. CarryInv'
  BY DEF IInv, TypeOK, CarryInv, Carrying, Counted
<1>4. TidInv'
  BY DEF IInv, TypeOK, TidInv, CarryInv, Carrying
<1>5. HandOverInv'
  BY DEF IInv, TypeOK, HandOverInv
<1>6. ItemsInv'
  BY DEF IInv, TypeOK, ItemsInv
<1>7. QED
  BY <1>1, <1>2, <1>3, <1>4, <1>5, <1>6 DEF IInv

LEMMA UnlockWakeIInv ==
  ASSUME IInv, NEW t \in Tasks, UnlockWake(t) PROVE IInv'
<1> DEFINE h == newItem[t].h_
<1>1. /\ pc[t] = "wake" /\ h \in Tasks /\ pc[h] = "wait" /\ h # t
      /\ tid_ = h
      /\ \A i \in 1..Len(items_) : items_[i].h_ # h
  BY DEF UnlockWake, IInv, HandOverInv, TidInv
<1>2. /\ pc' = [pc EXCEPT ![t] = "idle", ![h] = "ready"]
      /\ newItem' = [newItem EXCEPT ![t] = NoItem]
      /\ UNCHANGED <<tid_, waiter_, items_, tcb>>
  BY DEF UnlockWake
<1> HIDE DEF h
<1>3. TypeOK'
  BY <1>1, <1>2 DEF IInv, TypeOK, Control, NoItem
<1>4. CountInv'
  <2>1. Counted' = Counted
    BY <1>1, <1>2 DEF IInv, TypeOK, Counted
  <2>2. QED
    BY <1>2, <2>1 DEF IInv, CountInv
<1>5. /\ pc'[t] = "idle" /\ pc'[h] = "ready"
      /\ \A u \in Tasks : u # t /\ u # h => pc'[u] = pc[u] /\ newItem'[u] = newItem[u]
      /\ \A u \in Tasks : u # t => pc[u] \notin Carrying
  BY <1>1, <1>2 DEF IInv, TypeOK, CarryInv, Carrying
<1>6. CarryInv'
  BY <1>1, <1>5 DEF CarryInv, Carrying
<1>7. TidInv'
  BY <1>1, <1>2, <1>5 DEF IInv, TidInv, Carrying
<1>8. HandOverInv'
  BY <1>1, <1>5 DEF HandOverInv, Carrying
<1>9. ItemsInv'
  <2>1. \A i \in 1..Len(items_) : items_[i].h_ \in Tasks
    BY ItemsAreTasks DEF IInv
  <2>2. \A i \in 1..Len(items_) : pc[items_[i].h_] = "wait"
    BY DEF IInv, ItemsInv
  <2>3. \A i \in 1..Len(items_) : items_[i].h_ # t /\ items_[i].h_ # h
    BY <1>1, <2>2
  <2>4. \A i \in 1..Len(items_) : pc'[items_[i].h_] = "wait"
    BY <1>5, <2>1, <2>2, <2>3
  <2>5. QED
    BY <1>2, <2>4 DEF IInv, ItemsInv
<1>10. QED
  BY <1>3, <1>4, <1>6, <1>7, <1>8, <1>9 DEF IInv

LEMMA ResumeIInv ==
  ASSUME IInv, NEW t \in Tasks, Resume(t) PROVE IInv'
<1> USE DEF Resume, Go
<1>1. TypeOK'
  BY DEF IInv, TypeOK, Control
<1>2. CountInv'
  <2>1. Counted' = Counted
    BY DEF IInv, TypeOK, Counted
  <2>2. QED
    BY <2>1 DEF IInv, CountInv
<1>3. CarryInv'
  BY DEF IInv, TypeOK, CarryInv, Carrying, Counted
<1>4. TidInv'
  BY DEF IInv, TypeOK, TidInv
<1>5. HandOverInv'
  BY DEF IInv, TypeOK, HandOverInv
<1>6. ItemsInv'
  BY DEF IInv, TypeOK, ItemsInv
<1>7. QED
  BY <1>1, <1>2, <1>3, <1>4, <1>5, <1>6 DEF IInv

LEMMA NextIInv == BlindTasks = {} /\ IInv /\ [Next]_vars => IInv'
<1> SUFFICES ASSUME BlindTasks = {}, IInv, [Next]_vars PROVE IInv'
  OBVIOUS
<1>1. ASSUME UNCHANGED vars PROVE IInv'
  BY <1>1 DEF vars, IInv, TypeOK, CountInv, Counted, CarryInv, TidInv,
              HandOverInv, ItemsInv
<1>2. ASSUME NEW t \in Tasks,
             LockIncrement(t) \/ TryLock(t) \/ TryLockFails(t)
      PROVE  IInv'
  <2>1. CASE TryLockFails(t)
    <3>1. UNCHANGED vars
      BY <2>1 DEF TryLockFails, Go, vars, IInv, TypeOK
    <3>2. QED
      BY <1>1, <3>1
  <2>2. QED
    BY <1>2, <2>1, LockIncrementIInv, TryLockIInv
<1>3. ASSUME NEW t \in Tasks, Progress(t) PROVE IInv'
  BY <1>3, LockStoreTidIInv, LockEnqueueIInv, UnlockCompareExchangeIInv,
     UnlockDecrementIInv, UnlockDequeueIInv, UnlockStoreTidIInv,
     UnlockWakeIInv, ResumeIInv DEF Progress
<1>4. QED
  BY <1>1, <1>2, <1>3 DEF Next

\* IInv holds throughout.
THEOREM Invariance ==
  ASSUME BlindTasks = {} PROVE Spec => []IInv
<1>1. Init => IInv
  BY InitIInv
<1>2. IInv /\ [Next]_vars => IInv'
  BY NextIInv
<1>3. QED
  BY <1>1, <1>2, PTL DEF Spec
-----------------------------------------------------------------------------
\* TypeOK of the mutex, for any number of coroutines.
THEOREM TypeCorrect ==
  ASSUME BlindTasks = {} PROVE Spec => []TypeOK
<1>1. IInv => TypeOK
  BY DEF IInv
<1>2. QED
  BY <1>1, Invariance, PTL

\* lock() and unlock() enclose a critical section: no two coroutines are ever
\* inside together, whatever the interleaving of LockAwaiter's, TryLockAwaiter's
\* and UnlockAwaiter's atomic operations.
THEOREM Mutex ==
  ASSUME BlindTasks = {} PROVE Spec => []MutualExclusion
<1>1. IInv => MutualExclusion
  BY DEF IInv, CarryInv, Carrying, MutualExclusion
<1>2. QED
  BY <1>1, Invariance, PTL

\* The owner's unlock() always passes the compare_exchange of UnlockAwaiter.
THEOREM UnlockSucceeds ==
  ASSUME BlindTasks = {} PROVE Spec => []OwnerCanUnlock
<1>1. IInv => OwnerCanUnlock
  BY DEF IInv, TidInv, OwnerCanUnlock
<1>2. QED
  BY <1>1, Invariance, PTL

\* No increment of waiter_ is lost between LockAwaiter and UnlockAwaiter.
THEOREM NobodyStranded ==
  ASSUME BlindTasks = {} PROVE Spec => []NoStrandedWaiter
<1>1. IInv => NoStrandedWaiter
  BY DEF IInv, CarryInv, Counted, NoStrandedWaiter
<1>2. QED
  BY <1>1, Invariance, PTL
-----------------------------------------------------------------------------
(* The mutex implements FifoLock.  Holder and Line are what LockSpec puts  *)
(* for holder and line.                                                    *)
Holder == {t \in Tasks : pc[t] \in {"own", "ready", "cs", "dec"}} \cup Given
Line == [i \in DOMAIN items_ |-> items_[i].h_]

\* Where the holder is while a coroutine carries the lock.
HolderIs ==
  /\ \A t \in Tasks :
       /\ pc[t] \in {"own", "ready", "cs", "dec"} => Holder = {t}
       /\ pc[t] \in {"hand", "wake"} => Holder = {newItem[t].h_}
       /\ pc[t] = "deq" => Holder = {}
  /\ (\A t \in Tasks : pc[t] \notin Carrying) => Holder = {}

LEMMA HolderFacts == IInv => HolderIs
  BY DEF IInv, CarryInv, Carrying, HolderIs, Holder, Given

\* What waiter_ says of the coroutines that it counts.
CountIs ==
  /\ waiter_ \in Nat
  /\ \A t \in Counted : waiter_ >= 1
  /\ \A t, u \in Counted : t # u => waiter_ > 1

LEMMA CountFacts == IInv => CountIs
<1> SUFFICES ASSUME IInv PROVE CountIs
  OBVIOUS
<1>1. waiter_ \in Nat /\ waiter_ = Cardinality(Counted) /\ IsFiniteSet(Counted)
  BY CountedFinite DEF IInv, TypeOK, CountInv
<1>2. ASSUME NEW t \in Counted PROVE waiter_ >= 1
  BY <1>1, FS_EmptySet
<1>3. ASSUME NEW t \in Counted, NEW u \in Counted, t # u PROVE waiter_ > 1
  <2>1. Cardinality(Counted \ {t}) = waiter_ - 1 /\ IsFiniteSet(Counted \ {t})
    BY <1>1, FS_RemoveElement
  <2>2. Cardinality(Counted \ {t}) # 0
    BY <1>3, <2>1, FS_EmptySet
  <2>3. QED
    BY <1>1, <1>2, <2>1, <2>2
<1>4. QED
  BY <1>1, <1>2, <1>3 DEF CountIs

\* Nobody is in line that is not suspended and counted.
LEMMA LineFacts ==
  ASSUME IInv
  PROVE  \A i \in DOMAIN items_ :
           items_[i].h_ \in Counted /\ pc[items_[i].h_] = "wait"
<1> SUFFICES \A i \in 1..Len(items_) :
               items_[i].h_ \in Counted /\ pc[items_[i].h_] = "wait"
  BY DEF IInv, TypeOK
<1>1. QED
  BY ItemsAreTasks DEF IInv, ItemsInv, Counted

\* The steps inside a hand-over or between two operations are not seen.
LEMMA Unseen ==
  ASSUME UNCHANGED <<waiter_, items_>>, Holder' = Holder
  PROVE  [Lock!Next]_(Lock!vars)
  BY DEF Lock!vars, Holder, Line

\* An old value of 0 in LockAwaiter, or a try that succeeds, acquires the lock.
LEMMA IncrementRefines ==
  ASSUME IInv, IInv', NEW t \in Tasks, LockIncrement(t)
  PROVE  [Lock!Next]_(Lock!vars)
<1>1. /\ waiter_ \in Nat /\ waiter_' = waiter_ + 1 /\ UNCHANGED <<items_, newItem>>
      /\ pc' = [pc EXCEPT ![t] = IF waiter_ = 0 THEN "own" ELSE "enq"]
      /\ pc \in [Tasks -> Control] /\ pc[t] = "idle"
  BY DEF LockIncrement, Uncontended, Go, IInv, TypeOK
<1>2. CASE waiter_ = 0
  <2>1. HolderIs'
    BY HolderFacts, PTL
  <2>2. pc'[t] = "own"
    BY <1>1, <1>2
  <2>3. Holder' = {t}
    BY <2>1, <2>2 DEF HolderIs
  <2>4. Lock!Acquire(t)
    BY <1>1, <1>2, <2>3 DEF Lock!Acquire, Holder
  <2>5. QED
    BY <2>4 DEF Lock!Next
<1>3. CASE waiter_ # 0
  <2>1. Holder' = Holder
    BY <1>1, <1>3 DEF Holder, Given
  <2>2. QED
    BY <1>1, <1>3, <2>1 DEF Lock!vars, Holder
<1>4. QED
  BY <1>2, <1>3

\* The enqueue of LockAwaiter joins the line.
LEMMA EnqueueRefines ==
  ASSUME IInv, NEW t \in Tasks, LockEnqueue(t)
  PROVE  Lock!Join(t)
<1> DEFINE item == [tid_ |-> tcb[t], h_ |-> t]
<1>1. /\ pc \in [Tasks -> Control] /\ pc[t] = "enq"
      /\ pc' = [pc EXCEPT ![t] = "wait"]
      /\ items_' = Append(items_, item)
      /\ UNCHANGED <<waiter_, newItem>>
      /\ items_ \in Seq([tid_ : Tasks \cup {0}, h_ : Tasks])
  BY DEF LockEnqueue, Go, IInv, TypeOK
<1>2. waiter_ > 0
  BY <1>1, CountFacts DEF CountIs, Counted
<1>3. t \notin Holder
  BY <1>1 DEF Holder, Given, IInv, HandOverInv
<1>4. \A i \in DOMAIN items_ : items_[i].h_ # t
  BY <1>1, LineFacts
<1>5. Line' = Append(Line, t)
  <2>1. /\ DOMAIN items_ = 1..Len(items_) /\ Len(items_) \in Nat
        /\ DOMAIN items_' = 1..Len(items_) + 1
        /\ \A i \in 1..Len(items_) : items_'[i] = items_[i]
        /\ items_'[Len(items_) + 1] = item
    BY <1>1
  <2>2. item.h_ = t
    OBVIOUS
  <2> HIDE DEF item
  <2>3. QED
    BY <2>1, <2>2 DEF Line
<1>6. Holder' = Holder
  BY <1>1 DEF Holder, Given
<1>7. QED
  BY <1>1, <1>2, <1>3, <1>4, <1>5, <1>6 DEF Lock!Join, Lock!InLine, Holder, Line

\* The decrement of UnlockAwaiter frees the lock, or starts to hand it over.
LEMMA DecrementRefines ==
  ASSUME IInv, IInv', NEW t \in Tasks, UnlockDecrement(t)
  PROVE  Lock!Free \/ Lock!HandOver
<1>1. /\ pc \in [Tasks -> Control] /\ pc[t] = "dec"
      /\ pc' = [pc EXCEPT ![t] = IF waiter_ > 1 THEN "deq" ELSE "idle"]
      /\ waiter_' = waiter_ - 1
      /\ UNCHANGED <<items_, newItem>>
  BY DEF UnlockDecrement, OthersWaiting, Go, IInv, TypeOK
<1>2. HolderIs /\ HolderIs'
  BY HolderFacts, PTL
<1>3. Holder = {t}
  BY <1>1, <1>2 DEF HolderIs
<1>4. t \in Counted /\ CountIs
  BY <1>1, CountFacts DEF Counted
<1>5. \A u \in Tasks : u # t => pc[u] \notin Carrying
  BY <1>1 DEF IInv, CarryInv, Carrying
<1>6. CASE waiter_ > 1
  <2>1. pc'[t] = "deq"
    BY <1>1, <1>6
  <2>2. Holder' = {}
    BY <1>2, <2>1 DEF HolderIs
  <2>3. (waiter_ > 0) = (waiter_ > 0)'
    BY <1>1, <1>4, <1>6 DEF CountIs
  <2>4. QED
    BY <1>1, <1>3, <2>2, <2>3 DEF Lock!HandOver, Holder
<1>7. CASE ~(waiter_ > 1)
  <2>1. waiter_ = 1 /\ waiter_' = 0
    BY <1>1, <1>4, <1>7 DEF CountIs
  <2>2. \A u \in Tasks : pc'[u] \notin Carrying
    BY <1>1, <1>5, <1>7 DEF Carrying
  <2>3. Holder' = {}
    BY <1>2, <2>2 DEF HolderIs
  <2>4. DOMAIN items_ = {}
    BY <1>1, <1>4, <1>7, LineFacts DEF CountIs
  <2>5. Line = <<>>
    BY <2>4 DEF Line
  <2>6. QED
    BY <1>1, <1>3, <2>1, <2>3, <2>5 DEF Lock!Free, Holder, Line
<1>8. QED
  BY <1>6, <1>7

\* The dequeue of UnlockAwaiter grants the lock to the head of the line.
LEMMA DequeueRefines ==
  ASSUME IInv, IInv', NEW t \in Tasks, UnlockDequeue(t)
  PROVE  Lock!Grant
<1> DEFINE Item == [tid_ : Tasks \cup {0}, h_ : Tasks]
<1>1. /\ pc \in [Tasks -> Control] /\ pc[t] = "deq"
      /\ pc' = [pc EXCEPT ![t] = "hand"]
      /\ newItem \in [Tasks -> [tid_ : Tasks \cup {0}, h_ : Tasks \cup {0}]]
      /\ newItem' = [newItem EXCEPT ![t] = Head(items_)]
      /\ items_' = Tail(items_) /\ items_ \in Seq(Item) /\ items_ # <<>>
      /\ UNCHANGED waiter_
  BY DEF UnlockDequeue, Go, IInv, TypeOK
<1>2. HolderIs /\ HolderIs'
  BY HolderFacts, PTL
<1> HIDE DEF Item
<1>3. /\ Head(items_) = items_[1]
      /\ DOMAIN items_ = 1..Len(items_) /\ Len(items_) \in Nat /\ Len(items_) >= 1
      /\ DOMAIN items_' = 1..Len(items_) - 1
      /\ \A i \in 1..Len(items_) - 1 : items_'[i] = items_[i + 1]
  BY <1>1
<1>4. Holder = {}
  BY <1>1, <1>2 DEF HolderIs
<1>5. pc'[t] = "hand" /\ newItem'[t].h_ = items_[1].h_
  BY <1>1, <1>3
<1>6. Holder' = {items_[1].h_}
  BY <1>2, <1>5 DEF HolderIs
<1>7. waiter_ > 0
  BY <1>3, LineFacts, CountFacts DEF CountIs
<1>8. /\ Line \in Seq({items_[i].h_ : i \in DOMAIN items_}) /\ Line # <<>>
      /\ Head(Line) = items_[1].h_
      /\ Line' = Tail(Line)
  BY <1>3 DEF Line
<1>9. QED
  BY <1>1, <1>4, <1>6, <1>7, <1>8 DEF Lock!Grant, Holder, Line

\* Whoever is woken has been the holder since the dequeue.
LEMMA WakeRefines ==
  ASSUME IInv, IInv', NEW t \in Tasks, UnlockWake(t)
  PROVE  [Lock!Next]_(Lock!vars)
<1> DEFINE h == newItem[t].h_
<1>1. pc[t] = "wake" /\ h \in Tasks /\ pc'[h] = "ready"
  BY DEF UnlockWake, IInv, TypeOK, HandOverInv
<1>2. HolderIs /\ HolderIs'
  BY HolderFacts, PTL
<1>3. Holder = {h} /\ Holder' = {h}
  BY <1>1, <1>2 DEF HolderIs
<1>4. QED
  BY <1>3, Unseen DEF UnlockWake

\* Every step of the mutex is a step of FifoLock or is not seen.
LEMMA StepRefines ==
  ASSUME IInv, IInv', [Next]_vars, BlindTasks = {}
  PROVE  [Lock!Next]_(Lock!vars)
<1>1. CASE UNCHANGED vars
  BY <1>1, Unseen DEF vars, Holder, Given
<1>2. ASSUME NEW t \in Tasks,
             LockIncrement(t) \/ TryLock(t) \/ TryLockFails(t)
      PROVE  [Lock!Next]_(Lock!vars)
  <2>1. CASE LockIncrement(t) \/ TryLock(t)
    <3>1. LockIncrement(t)
      BY <2>1 DEF TryLock, LockIncrement, Uncontended
    <3>2. QED
      BY <3>1, IncrementRefines
  <2>2. CASE TryLockFails(t)
    BY <2>2, Unseen DEF TryLockFails, Go, IInv, TypeOK, Holder, Given
  <2>3. QED
    BY <1>2, <2>1, <2>2
<1>3. ASSUME NEW t \in Tasks, Progress(t) PROVE [Lock!Next]_(Lock!vars)
  <2> USE DEF IInv, TypeOK, Holder, Given, Go
  <2>1. CASE LockStoreTid(t)
    BY <2>1, Unseen DEF LockStoreTid
  <2>2. CASE LockEnqueue(t)
    BY <2>2, EnqueueRefines DEF Lock!Next
  <2>3. CASE UnlockCompareExchange(t)
    BY <2>3, Unseen DEF UnlockCompareExchange, TidInv
  <2>4. CASE UnlockDecrement(t)
    BY <2>4, DecrementRefines DEF Lock!Next
  <2>5. CASE UnlockDequeue(t)
    BY <2>5, DequeueRefines DEF Lock!Next
  <2>6. CASE UnlockStoreTid(t)
    BY <2>6, Unseen DEF UnlockStoreTid
  <2>7. CASE UnlockWake(t)
    BY <2>7, WakeRefines
  <2>8. CASE Resume(t)
    BY <2>8, Unseen DEF Resume
  <2>9. QED
    BY <1>3, <2>1, <2>2, <2>3, <2>4, <2>5, <2>6, <2>7, <2>8 DEF Progress
<1>4. QED
  BY <1>1, <1>2, <1>3 DEF Next

\* The mutex implements the FIFO lock: in every behaviour the increments and
\* decrements of waiter_ and the queue act as one lock with a line, which is
\* handed over in the order of the line.  (That a grant which can be made is
\* made, the fairness of LockSpec, is left to the model checker.)
THEOREM ImplementsFifoLock ==
  ASSUME BlindTasks = {} PROVE Spec => Lock!Init /\ [][Lock!Next]_(Lock!vars)
<1>1. Init => Lock!Init
  BY DEF Init, Lock!Init, Given
<1>2. IInv /\ IInv' /\ [Next]_vars => [Lock!Next]_(Lock!vars)
  BY StepRefines
<1>3. QED
  BY <1>1, <1>2, Invariance, PTL DEF Spec
=============================================================================
