--------------------------- MODULE IRQTableProofs ---------------------------
(***************************************************************************)
(* Safety of the descriptor table for any number of coroutines and         *)
(* descriptors.  The table and the epoll sets agree for any number of ICUs *)
(* (TableInv is inductive by itself); the order of the ICUs (IInv) needs   *)
(* two or more: with one ICU no swap ever sets pos, and LoadOrder is false.*)
(*                                                                         *)
(* The data are touched only by the holder of fMapLk_ (LockInv), which     *)
(* knows whether its descriptor is registered (FdInv) and whose descriptor *)
(* is nobody else's (OwnInv).  What makes pos right is FirstPos: once a    *)
(* descriptor has been registered, the first ICU knows that it is first,   *)
(* so it has a valid pos even when it gets a descriptor without a swap.    *)
(***************************************************************************)
EXTENDS IRQTable, FiniteSetTheorems, TLAPS

\* Where a coroutine works on the table as the holder of fMapLk_.
Critical == {"mod", "add", "added", "failed", "del", "deleted"}

\* The types of all variables but the loads and positions of the ICUs.
TableTypes ==
  /\ taken \in BOOLEAN
  /\ holder \subseteq Coros
  /\ line \in Seq(Coros)
  /\ icus_ \in [ICUs -> ICUs]
  /\ Registered \subseteq Fds
  /\ fileWQPtrs_ \in [Registered -> ICUs]
  /\ epoll \in [ICUs -> SUBSET Fds]
  /\ open \subseteq Fds /\ live \subseteq open
  /\ pc \in [Coros -> Control]
  /\ fd \in [Coros -> Fds \cup {NoFd}]

LockInv ==
  /\ holder # {} => taken
  /\ \A c \in Coros : pc[c] \in Critical => holder = {c}

FdInv ==
  \A c \in Coros :
    /\ pc[c] # "idle" => fd[c] \in Fds
    /\ pc[c] \in {"add", "added", "failed", "close"} => fd[c] \notin Registered
    /\ pc[c] \in {"mod", "del", "deleted"} => fd[c] \in Registered

OwnInv ==
  /\ \A c \in Coros : fd[c] # NoFd => fd[c] \in open \ live
  /\ \A c, d \in Coros : fd[c] # NoFd /\ fd[c] = fd[d] => c = d
  /\ Registered \subseteq open

\* The epoll sets, between the call of epoll_ctl and the change of the table.
EpollInv ==
  /\ \A f \in Fds, i \in ICUs :
       (\A c \in Coros : pc[c] \in {"added", "deleted"} => fd[c] # f)
         => (f \in epoll[i] <=> f \in Registered /\ fileWQPtrs_[f] = i)
  /\ \A c \in Coros, i \in ICUs :
       /\ pc[c] = "added" => (fd[c] \in epoll[i] <=> i = icus_[0])
       /\ pc[c] = "deleted" => fd[c] \notin epoll[i]

TableInv == TableTypes /\ LockInv /\ FdInv /\ OwnInv /\ EpollInv
-----------------------------------------------------------------------------
(* The mutex fMapLk_ and the data that a step leaves alone.                *)

\* unlock() leaves the mutex without a holder.
LEMMA UnlockFacts ==
  ASSUME TableTypes, Unlock
  PROVE  holder' = {} /\ taken' \in BOOLEAN /\ UNCHANGED line
<1>1. CASE fMapLk_!Free
  BY <1>1, Zenon DEF fMapLk_!Free
<1>2. CASE fMapLk_!HandOver
  BY <1>2, Zenon DEF fMapLk_!HandOver, TableTypes
<1>3. QED
  BY <1>1, <1>2 DEF Unlock

\* The holder is the only one that works on the table.
LEMMA HolderAlone ==
  ASSUME LockInv, NEW c \in Coros, pc[c] \in Critical
  PROVE  holder = {c} /\ \A d \in Coros : d # c => pc[d] \notin Critical
BY DEF LockInv

LEMMA EpollKept ==
  ASSUME TableInv, UNCHANGED <<order, fileWQPtrs_, epoll>>,
         \A d \in Coros : /\ pc'[d] = "added" <=> pc[d] = "added"
                          /\ pc'[d] = "deleted" <=> pc[d] = "deleted"
                          /\ pc[d] \in {"added", "deleted"} => fd'[d] = fd[d]
  PROVE  EpollInv'
BY DEF order, TableInv, EpollInv, Registered

LEMMA InitTableInv == Init => TableInv
<1> SUFFICES ASSUME Init PROVE TableInv
  OBVIOUS
<1> USE DEF Init
<1>1. Registered = {} /\ 0 \in ICUs
  BY IcuNumAssumption DEF Registered, ICUs
<1>2. TableTypes
  <2>1. taken \in BOOLEAN /\ holder \subseteq Coros
    BY Zenon DEF fMapLk_!Init
  <2>2. line \in Seq(Coros)
    BY DEF fMapLk_!Init
  <2>3. fileWQPtrs_ \in [Registered -> ICUs]
    BY <1>1
  <2>4. QED
    BY <1>1, <2>1, <2>2, <2>3 DEF TableTypes, Control
<1>3. LockInv
  BY DEF LockInv, Critical, fMapLk_!Init
<1>4. FdInv /\ OwnInv /\ EpollInv
  BY <1>1 DEF FdInv, OwnInv, EpollInv
<1>5. QED
  BY <1>2, <1>3, <1>4 DEF TableInv
-----------------------------------------------------------------------------
(* One lemma per action.                                                   *)

LEMMA OpenCallTableInv ==
  ASSUME TableInv, NEW c \in Coros, NEW f \in Fds, OpenCall(c, f) PROVE TableInv'
<1>1. /\ pc[c] = "idle" /\ pc' = [pc EXCEPT ![c] = "update"] /\ fd' = [fd EXCEPT ![c] = f]
      /\ f \notin open
      /\ open' = open \cup {f} /\ UNCHANGED live
      /\ UNCHANGED <<taken, holder, line, icus_, irqn, pos, fileWQPtrs_, epoll>>
      /\ f # NoFd
  BY NoFdAssumption DEF OpenCall, Go, lock, order, table
<1>2. pc'[c] = "update" /\ fd'[c] = f /\ \A d \in Coros : d # c => pc'[d] = pc[d] /\ fd'[d] = fd[d]
  BY <1>1 DEF TableInv, TableTypes
<1>3. Registered' = Registered /\ live \subseteq open
  BY <1>1 DEF Registered, TableInv, TableTypes
<1>4. TableTypes'
  <2>1. pc' \in [Coros -> Control]
    BY <1>1 DEF TableInv, TableTypes, Control
  <2>2. fd' \in [Coros -> Fds \cup {NoFd}]
    BY <1>1 DEF TableInv, TableTypes
  <2>3. open' \subseteq Fds /\ live' \subseteq open'
    BY <1>1 DEF TableInv, TableTypes
  <2>4. QED
    BY <1>1, <1>3, <2>1, <2>2, <2>3 DEF TableInv, TableTypes
<1>5. LockInv'
  BY <1>1, <1>2 DEF TableInv, LockInv, Critical
<1>6. FdInv'
  BY <1>1, <1>2, <1>3 DEF TableInv, FdInv
<1>7. OwnInv'
  BY <1>1, <1>2, <1>3 DEF TableInv, OwnInv
<1>8. EpollInv'
  BY <1>1, <1>2, EpollKept DEF order
<1>9. QED
  BY <1>4, <1>5, <1>6, <1>7, <1>8 DEF TableInv

LEMMA ModifyCallTableInv ==
  ASSUME TableInv, NEW c \in Coros, NEW f \in Fds, ModifyCall(c, f) PROVE TableInv'
<1>1. /\ pc[c] = "idle" /\ pc' = [pc EXCEPT ![c] = "update"] /\ fd' = [fd EXCEPT ![c] = f]
      /\ f \in live
      /\ UNCHANGED open /\ live' = live \ {f}
      /\ UNCHANGED <<taken, holder, line, icus_, irqn, pos, fileWQPtrs_, epoll>>
      /\ f # NoFd
  BY NoFdAssumption DEF ModifyCall, Go, lock, order, table
<1>2. pc'[c] = "update" /\ fd'[c] = f /\ \A d \in Coros : d # c => pc'[d] = pc[d] /\ fd'[d] = fd[d]
  BY <1>1 DEF TableInv, TableTypes
<1>3. Registered' = Registered /\ live \subseteq open
  BY <1>1 DEF Registered, TableInv, TableTypes
<1>4. TableTypes'
  <2>1. pc' \in [Coros -> Control]
    BY <1>1 DEF TableInv, TableTypes, Control
  <2>2. fd' \in [Coros -> Fds \cup {NoFd}]
    BY <1>1 DEF TableInv, TableTypes
  <2>3. open' \subseteq Fds /\ live' \subseteq open'
    BY <1>1 DEF TableInv, TableTypes
  <2>4. QED
    BY <1>1, <1>3, <2>1, <2>2, <2>3 DEF TableInv, TableTypes
<1>5. LockInv'
  BY <1>1, <1>2 DEF TableInv, LockInv, Critical
<1>6. FdInv'
  BY <1>1, <1>2, <1>3 DEF TableInv, FdInv
<1>7. OwnInv'
  BY <1>1, <1>2, <1>3 DEF TableInv, OwnInv
<1>8. EpollInv'
  BY <1>1, <1>2, EpollKept DEF order
<1>9. QED
  BY <1>4, <1>5, <1>6, <1>7, <1>8 DEF TableInv

LEMMA CloseCallTableInv ==
  ASSUME TableInv, NEW c \in Coros, NEW f \in Fds, CloseCall(c, f) PROVE TableInv'
<1>1. /\ pc[c] = "idle" /\ pc' = [pc EXCEPT ![c] = "remove"] /\ fd' = [fd EXCEPT ![c] = f]
      /\ f \in live
      /\ UNCHANGED open /\ live' = live \ {f}
      /\ UNCHANGED <<taken, holder, line, icus_, irqn, pos, fileWQPtrs_, epoll>>
      /\ f # NoFd
  BY NoFdAssumption DEF CloseCall, Go, lock, order, table
<1>2. pc'[c] = "remove" /\ fd'[c] = f /\ \A d \in Coros : d # c => pc'[d] = pc[d] /\ fd'[d] = fd[d]
  BY <1>1 DEF TableInv, TableTypes
<1>3. Registered' = Registered /\ live \subseteq open
  BY <1>1 DEF Registered, TableInv, TableTypes
<1>4. TableTypes'
  <2>1. pc' \in [Coros -> Control]
    BY <1>1 DEF TableInv, TableTypes, Control
  <2>2. fd' \in [Coros -> Fds \cup {NoFd}]
    BY <1>1 DEF TableInv, TableTypes
  <2>3. open' \subseteq Fds /\ live' \subseteq open'
    BY <1>1 DEF TableInv, TableTypes
  <2>4. QED
    BY <1>1, <1>3, <2>1, <2>2, <2>3 DEF TableInv, TableTypes
<1>5. LockInv'
  BY <1>1, <1>2 DEF TableInv, LockInv, Critical
<1>6. FdInv'
  BY <1>1, <1>2, <1>3 DEF TableInv, FdInv
<1>7. OwnInv'
  BY <1>1, <1>2, <1>3 DEF TableInv, OwnInv
<1>8. EpollInv'
  BY <1>1, <1>2, EpollKept DEF order
<1>9. QED
  BY <1>4, <1>5, <1>6, <1>7, <1>8 DEF TableInv

\* Who asks for fMapLk_ gets it or joins the line; nothing else changes.
LEMMA LockTableInv ==
  ASSUME TableInv, NEW c \in Coros, Lock(c) PROVE TableInv'
<1>1. /\ \/ pc[c] = "update" /\ pc' = [pc EXCEPT ![c] = "updating"]
         \/ pc[c] = "remove" /\ pc' = [pc EXCEPT ![c] = "removing"]
      /\ UNCHANGED <<icus_, irqn, pos, fileWQPtrs_, epoll, open, live, fd>>
  BY DEF Lock, Go, order, table
<1>2. /\ pc'[c] \in {"updating", "removing"}
      /\ \A d \in Coros : d # c => pc'[d] = pc[d]
  BY <1>1 DEF TableInv, TableTypes
<1>3. /\ taken' \in BOOLEAN /\ line' \in Seq(Coros)
      /\ holder' # {} => taken'
      /\ holder' = holder \/ (holder = {} /\ holder' = {c})
  <2>1. CASE fMapLk_!Acquire(c)
    BY <2>1, Zenon DEF fMapLk_!Acquire, TableInv, TableTypes, LockInv
  <2>2. CASE fMapLk_!Join(c)
    BY <2>2 DEF fMapLk_!Join, TableInv, TableTypes, LockInv
  <2>3. QED
    BY <2>1, <2>2 DEF Lock
<1>4. Registered' = Registered
  BY <1>1 DEF Registered
<1>5. TableTypes'
  <2>1. pc' \in [Coros -> Control]
    BY <1>1 DEF TableInv, TableTypes, Control
  <2>2. holder' \subseteq Coros
    BY <1>3 DEF TableInv, TableTypes
  <2>3. QED
    BY <1>1, <1>3, <1>4, <2>1, <2>2 DEF TableInv, TableTypes
<1>6. LockInv'
  BY <1>2, <1>3 DEF TableInv, LockInv, Critical
<1>7. FdInv'
  BY <1>1, <1>2, <1>4 DEF TableInv, FdInv
<1>8. OwnInv'
  BY <1>1, <1>4 DEF TableInv, OwnInv
<1>9. EpollInv'
  BY <1>1, <1>2, EpollKept DEF order
<1>10. QED
  BY <1>5, <1>6, <1>7, <1>8, <1>9 DEF TableInv

\* A grant finds nobody at work on the table.
LEMMA GrantTableInv ==
  ASSUME TableInv, Grant PROVE TableInv'
<1>1. /\ holder = {} /\ taken /\ UNCHANGED taken
      /\ holder' = {Head(line)} /\ line # <<>> /\ line' = Tail(line)
      /\ UNCHANGED <<icus_, irqn, pos, fileWQPtrs_, epoll, open, live, pc, fd>>
  BY DEF Grant, fMapLk_!Grant, order, table
<1>2. Head(line) \in Coros /\ line' \in Seq(Coros)
  BY <1>1 DEF TableInv, TableTypes
<1>3. Registered' = Registered
  BY <1>1 DEF Registered
<1>4. TableTypes'
  BY <1>1, <1>2, <1>3 DEF TableInv, TableTypes
<1>5. LockInv'
  BY <1>1 DEF TableInv, LockInv
<1>6. FdInv'
  BY <1>1, <1>3 DEF TableInv, FdInv
<1>7. OwnInv'
  BY <1>1, <1>3 DEF TableInv, OwnInv
<1>8. EpollInv'
  BY <1>1, EpollKept DEF order
<1>9. QED
  BY <1>4, <1>5, <1>6, <1>7, <1>8 DEF TableInv

\* updateIRQ looks its descriptor up as the holder.
LEMMA UpdateFindTableInv ==
  ASSUME TableInv, NEW c \in Coros, UpdateFind(c) PROVE TableInv'
<1>1. /\ pc[c] = "updating" /\ pc' = [pc EXCEPT ![c] = pc'[c]] /\ pc'[c] \in {"mod", "add"}
      /\ UNCHANGED <<taken, holder, line, icus_, irqn, pos, fileWQPtrs_, epoll, open, live, fd>>
      /\ holder = {c}
      /\ pc'[c] = IF fd[c] \in Registered THEN "mod" ELSE "add"
  BY DEF UpdateFind, Go, lock, order, table, TableInv, TableTypes, Holds
<1>2. \A d \in Coros : d # c => pc'[d] = pc[d]
  BY <1>1 DEF TableInv, TableTypes
<1>3. Registered' = Registered
  BY <1>1 DEF Registered
<1>4. TableTypes'
  <2>1. pc' \in [Coros -> Control]
    BY <1>1 DEF TableInv, TableTypes, Control
  <2>2. QED
    BY <1>1, <1>3, <2>1 DEF TableInv, TableTypes
<1>5. LockInv'
  BY <1>1, <1>2 DEF TableInv, LockInv, Critical
<1>6. FdInv'
  BY <1>1, <1>2, <1>3 DEF TableInv, FdInv
<1>7. OwnInv'
  BY <1>1, <1>3 DEF TableInv, OwnInv
<1>8. EpollInv'
  BY <1>1, <1>2, EpollKept DEF order
<1>9. QED
  BY <1>4, <1>5, <1>6, <1>7, <1>8 DEF TableInv

LEMMA ModIRQTableInv ==
  ASSUME TableInv, NEW c \in Coros, ModIRQ(c) PROVE TableInv'
<1>1. /\ pc[c] = "mod" /\ pc' = [pc EXCEPT ![c] = "idle"]
      /\ live' = live \cup {fd[c]} /\ fd' = [fd EXCEPT ![c] = NoFd] /\ UNCHANGED open
      /\ UNCHANGED <<icus_, irqn, pos, fileWQPtrs_, epoll>>
  BY DEF ModIRQ, Go, order, table
<1>2. pc'[c] = "idle" /\ \A d \in Coros : d # c => pc'[d] = pc[d] /\ fd'[d] = fd[d]
  BY <1>1 DEF TableInv, TableTypes
<1>3. /\ Registered' = Registered /\ live \subseteq open
      /\ fd[c] \in Fds /\ fd[c] # NoFd /\ fd[c] \in open
  BY <1>1, NoFdAssumption DEF Registered, TableInv, TableTypes, FdInv, OwnInv
<1>4. \A d \in Coros : d # c => pc[d] \notin Critical
  BY <1>1, HolderAlone DEF TableInv, Critical
<1>5. holder' = {} /\ taken' \in BOOLEAN /\ UNCHANGED line
  BY UnlockFacts DEF ModIRQ, TableInv
<1>6. TableTypes'
  <2>1. pc' \in [Coros -> Control]
    BY <1>1, <1>2, <1>3, <1>5 DEF TableInv, TableTypes, Control
  <2>2. fd' \in [Coros -> Fds \cup {NoFd}]
    BY <1>1, <1>2, <1>3, <1>5 DEF TableInv, TableTypes
  <2>3. taken' \in BOOLEAN /\ holder' \subseteq Coros /\ line' \in Seq(Coros)
    BY <1>1, <1>2, <1>3, <1>5 DEF TableInv, TableTypes
  <2>4. open' \subseteq Fds /\ live' \subseteq open'
    BY <1>1, <1>2, <1>3, <1>5 DEF TableInv, OwnInv, TableTypes
  <2>9. QED
    BY <1>1, <1>2, <1>3, <1>5, <2>1, <2>2, <2>3, <2>4 DEF TableInv, TableTypes
<1>7. LockInv'
  BY <1>2, <1>4, <1>5 DEF LockInv, Critical
<1>8. FdInv'
  BY <1>1, <1>2, <1>3 DEF TableInv, FdInv
<1>9. OwnInv'
  <2>1. fd'[c] = NoFd
    BY <1>1 DEF TableInv, TableTypes
  <2>2. QED
    BY <1>1, <1>2, <1>3, <2>1 DEF TableInv, OwnInv
<1>10. EpollInv'
  BY <1>1, <1>2, EpollKept DEF order
<1>11. QED
  BY <1>6, <1>7, <1>8, <1>9, <1>10 DEF TableInv

\* A refused descriptor is not in the table and will be closed.
LEMMA UpdateFailsTableInv ==
  ASSUME TableInv, NEW c \in Coros, UpdateFails(c) PROVE TableInv'
<1>1. /\ pc[c] = "failed" /\ pc' = [pc EXCEPT ![c] = "close"] /\ UNCHANGED <<live, fd, open>>
      /\ UNCHANGED <<icus_, irqn, pos, fileWQPtrs_, epoll>>
  BY DEF UpdateFails, Go, order, table
<1>2. pc'[c] = "close" /\ \A d \in Coros : d # c => pc'[d] = pc[d] /\ fd'[d] = fd[d]
  BY <1>1 DEF TableInv, TableTypes
<1>3. /\ Registered' = Registered /\ live \subseteq open
      /\ fd[c] \in Fds /\ fd[c] # NoFd /\ fd[c] \in open
  BY <1>1, NoFdAssumption DEF Registered, TableInv, TableTypes, FdInv, OwnInv
<1>4. \A d \in Coros : d # c => pc[d] \notin Critical
  BY <1>1, HolderAlone DEF TableInv, Critical
<1>5. holder' = {} /\ taken' \in BOOLEAN /\ UNCHANGED line
  BY UnlockFacts DEF UpdateFails, TableInv
<1>6. TableTypes'
  <2>1. pc' \in [Coros -> Control]
    BY <1>1, <1>2, <1>3, <1>5 DEF TableInv, TableTypes, Control
  <2>2. fd' \in [Coros -> Fds \cup {NoFd}]
    BY <1>1, <1>2, <1>3, <1>5 DEF TableInv, TableTypes
  <2>3. taken' \in BOOLEAN /\ holder' \subseteq Coros /\ line' \in Seq(Coros)
    BY <1>1, <1>2, <1>3, <1>5 DEF TableInv, TableTypes
  <2>4. open' \subseteq Fds /\ live' \subseteq open'
    BY <1>1, <1>2, <1>3, <1>5 DEF TableInv, OwnInv, TableTypes
  <2>9. QED
    BY <1>1, <1>2, <1>3, <1>5, <2>1, <2>2, <2>3, <2>4 DEF TableInv, TableTypes
<1>7. LockInv'
  BY <1>2, <1>4, <1>5 DEF LockInv, Critical
<1>8. FdInv'
  BY <1>1, <1>2, <1>3 DEF TableInv, FdInv
<1>9. OwnInv'
  <2>1. fd'[c] = fd[c]
    BY <1>1 DEF TableInv, TableTypes
  <2>2. QED
    BY <1>1, <1>2, <1>3, <2>1 DEF TableInv, OwnInv
<1>10. EpollInv'
  BY <1>1, <1>2, EpollKept DEF order
<1>11. QED
  BY <1>6, <1>7, <1>8, <1>9, <1>10 DEF TableInv

LEMMA CloseTableInv ==
  ASSUME TableInv, NEW c \in Coros, Close(c) PROVE TableInv'
<1>1. /\ pc[c] = "close" /\ pc' = [pc EXCEPT ![c] = "idle"]
      /\ open' = open \ {fd[c]} /\ fd' = [fd EXCEPT ![c] = NoFd]
      /\ UNCHANGED <<taken, holder, line, icus_, irqn, pos, fileWQPtrs_, epoll, live>>
  BY DEF Close, Go, lock, order, table
<1>2. /\ pc'[c] = "idle" /\ fd'[c] = NoFd
      /\ \A d \in Coros : d # c => pc'[d] = pc[d] /\ fd'[d] = fd[d]
  BY <1>1 DEF TableInv, TableTypes
<1>3. /\ Registered' = Registered /\ live \subseteq open
      /\ fd[c] # NoFd /\ fd[c] \notin live /\ fd[c] \notin Registered
  BY <1>1, NoFdAssumption DEF Registered, TableInv, TableTypes, FdInv, OwnInv
<1>4. TableTypes'
  <2>1. pc' \in [Coros -> Control]
    BY <1>1, <1>3 DEF TableInv, TableTypes, Control
  <2>2. fd' \in [Coros -> Fds \cup {NoFd}]
    BY <1>1, <1>3 DEF TableInv, TableTypes
  <2>3. taken' \in BOOLEAN /\ holder' \subseteq Coros /\ line' \in Seq(Coros)
    BY <1>1, <1>3 DEF TableInv, TableTypes
  <2>4. open' \subseteq Fds /\ live' \subseteq open'
    BY <1>1, <1>3 DEF TableInv, OwnInv, TableTypes
  <2>9. QED
    BY <1>1, <1>3, <2>1, <2>2, <2>3, <2>4 DEF TableInv, TableTypes
<1>5. LockInv'
  BY <1>1, <1>2 DEF TableInv, LockInv, Critical
<1>6. FdInv'
  BY <1>2, <1>3 DEF TableInv, FdInv
<1>7. OwnInv'
  BY <1>1, <1>2, <1>3 DEF TableInv, OwnInv
<1>8. EpollInv'
  BY <1>1, <1>2, EpollKept DEF order
<1>9. QED
  BY <1>4, <1>5, <1>6, <1>7, <1>8 DEF TableInv

\* removeIRQ looks its descriptor up; one that is not there needs no more.
LEMMA RemoveFindTableInv ==
  ASSUME TableInv, NEW c \in Coros, RemoveFind(c) PROVE TableInv'
<1>1. /\ pc[c] = "removing" /\ holder = {c} /\ pc' = [pc EXCEPT ![c] = pc'[c]]
      /\ pc'[c] = IF fd[c] \in Registered THEN "del" ELSE "close"
      /\ UNCHANGED <<icus_, irqn, pos, fileWQPtrs_, epoll, open, live, fd>>
  BY DEF RemoveFind, Go, Holds, order, table, TableInv, TableTypes
<1>2. \A d \in Coros : d # c => pc'[d] = pc[d]
  BY <1>1 DEF TableInv, TableTypes
<1>3. Registered' = Registered
  BY <1>1 DEF Registered
<1>4. /\ taken' \in BOOLEAN /\ line' \in Seq(Coros)
      /\ holder' # {} => taken'
      /\ holder' = {} \/ holder' = {c}
      /\ fd[c] \in Registered => holder' = {c}
  <2>1. CASE fd[c] \in Registered
    <3>1. UNCHANGED <<taken, holder, line>>
      BY <2>1 DEF RemoveFind, lock
    <3>2. taken \in BOOLEAN
      BY Zenon DEF TableInv, TableTypes
    <3>3. QED
      BY <1>1, <3>1, <3>2 DEF TableInv, TableTypes, LockInv
  <2>2. CASE fd[c] \notin Registered
    <3>1. Unlock
      BY <2>2 DEF RemoveFind
    <3>2. QED
      BY <2>2, <3>1, UnlockFacts DEF TableInv, TableTypes
  <2>3. QED
    BY <2>1, <2>2
<1>5. \A d \in Coros : d # c => pc[d] \notin Critical
  BY <1>1 DEF TableInv, LockInv
<1>6. TableTypes'
  <2>1. pc' \in [Coros -> Control]
    BY <1>1 DEF TableInv, TableTypes, Control
  <2>2. holder' \subseteq Coros
    BY <1>4
  <2>3. QED
    BY <1>1, <1>3, <1>4, <2>1, <2>2 DEF TableInv, TableTypes
<1>7. LockInv'
  BY <1>1, <1>2, <1>4, <1>5 DEF LockInv, Critical
<1>8. FdInv'
  BY <1>1, <1>2, <1>3 DEF TableInv, FdInv
<1>9. OwnInv'
  BY <1>1, <1>3 DEF TableInv, OwnInv
<1>10. EpollInv'
  BY <1>1, <1>2, EpollKept DEF order
<1>11. QED
  BY <1>6, <1>7, <1>8, <1>9, <1>10 DEF TableInv

\* The ICU puts the descriptor into its epoll set, or fails to.
LEMMA AddIRQTableInv ==
  ASSUME TableInv, NEW c \in Coros, AddIRQ(c) PROVE TableInv'
<1>1. /\ pc[c] = "add" /\ pc' = [pc EXCEPT ![c] = pc'[c]]
      /\ \/ pc'[c] = "added" /\ epoll' = [epoll EXCEPT ![icus_[0]] = @ \cup {fd[c]}]
         \/ pc'[c] = "failed" /\ UNCHANGED epoll
      /\ UNCHANGED <<taken, holder, line, icus_, irqn, pos, fileWQPtrs_, open, live, fd>>
  BY DEF AddIRQ, Go, lock, order, TableInv, TableTypes
<1>2. \A d \in Coros : d # c => pc'[d] = pc[d]
  BY <1>1 DEF TableInv, TableTypes
<1>3. Registered' = Registered
  BY <1>1 DEF Registered
<1>4. \A d \in Coros : d # c => pc[d] \notin Critical
  BY <1>1, HolderAlone DEF TableInv, Critical
<1>5. fd[c] \in Fds /\ fd[c] \notin Registered /\ icus_[0] \in ICUs
  <2>1. 0 \in ICUs
    BY IcuNumAssumption DEF ICUs
  <2>2. QED
    BY <1>1, <2>1 DEF TableInv, TableTypes, FdInv
<1>6. epoll \in [ICUs -> SUBSET Fds]
  BY DEF TableInv, TableTypes
<1>7. TableTypes'
  <2>1. pc' \in [Coros -> Control]
    BY <1>1 DEF TableInv, TableTypes, Control
  <2>2. epoll' \in [ICUs -> SUBSET Fds]
    BY <1>1, <1>5, <1>6
  <2>3. QED
    BY <1>1, <1>3, <2>1, <2>2 DEF TableInv, TableTypes
<1>8. LockInv'
  BY <1>1, <1>2 DEF TableInv, LockInv, Critical
<1>9. FdInv'
  BY <1>1, <1>2, <1>3 DEF TableInv, FdInv
<1>10. OwnInv'
  BY <1>1, <1>3 DEF TableInv, OwnInv
<1>11. EpollInv'
  <2>1. \A i \in ICUs : fd[c] \notin epoll[i]
    BY <1>1, <1>4, <1>5 DEF TableInv, EpollInv, Critical
  <2>2. CASE pc'[c] = "failed"
    BY <1>1, <1>2, <1>3, <2>2 DEF TableInv, EpollInv
  <2>3. CASE pc'[c] = "added"
    <3>1. \A f \in Fds, i \in ICUs :
            f \in epoll'[i] <=> f \in epoll[i] \/ (f = fd[c] /\ i = icus_[0])
      BY <1>1, <1>5, <1>6, <2>3
    <3>2. \A d \in Coros : d # c => pc'[d] \notin {"added", "deleted"}
      BY <1>2, <1>4 DEF Critical
    <3>3. QED
      BY <1>1, <1>3, <1>4, <1>5, <2>1, <2>3, <3>1, <3>2 DEF TableInv, EpollInv, Critical
  <2>4. QED
    BY <1>1, <2>2, <2>3
<1>12. QED
  BY <1>7, <1>8, <1>9, <1>10, <1>11 DEF TableInv

\* The ICU takes the descriptor out of its epoll set.
LEMMA DelIRQTableInv ==
  ASSUME TableInv, NEW c \in Coros, DelIRQ(c) PROVE TableInv'
<1>1. /\ pc[c] = "del" /\ pc' = [pc EXCEPT ![c] = pc'[c]]
      /\ pc'[c] = "deleted"
      /\ epoll' = [epoll EXCEPT ![fileWQPtrs_[fd[c]]] = @ \ {fd[c]}]
      /\ UNCHANGED <<taken, holder, line, icus_, irqn, pos, fileWQPtrs_, open, live, fd>>
  BY DEF DelIRQ, Go, lock, order, TableInv, TableTypes
<1>2. \A d \in Coros : d # c => pc'[d] = pc[d]
  BY <1>1 DEF TableInv, TableTypes
<1>3. Registered' = Registered
  BY <1>1 DEF Registered
<1>4. \A d \in Coros : d # c => pc[d] \notin Critical
  BY <1>1, HolderAlone DEF TableInv, Critical
<1>5. fd[c] \in Fds /\ fd[c] \in Registered /\ fileWQPtrs_[fd[c]] \in ICUs
  BY <1>1 DEF TableInv, TableTypes, FdInv
<1>6. epoll \in [ICUs -> SUBSET Fds]
  BY DEF TableInv, TableTypes
<1>7. TableTypes'
  <2>1. pc' \in [Coros -> Control]
    BY <1>1 DEF TableInv, TableTypes, Control
  <2>2. epoll' \in [ICUs -> SUBSET Fds]
    BY <1>1, <1>5, <1>6
  <2>3. QED
    BY <1>1, <1>3, <2>1, <2>2 DEF TableInv, TableTypes
<1>8. LockInv'
  BY <1>1, <1>2 DEF TableInv, LockInv, Critical
<1>9. FdInv'
  BY <1>1, <1>2, <1>3 DEF TableInv, FdInv
<1>10. OwnInv'
  BY <1>1, <1>3 DEF TableInv, OwnInv
<1>11. EpollInv'
  <2>1. \A f \in Fds, i \in ICUs :
          f \in epoll'[i] <=> f \in epoll[i] /\ ~(f = fd[c] /\ i = fileWQPtrs_[fd[c]])
    BY <1>1, <1>5, <1>6
  <2>2. \A d \in Coros : d # c => pc'[d] \notin {"added", "deleted"}
    BY <1>2, <1>4 DEF Critical
  <2>3. \A i \in ICUs : fd[c] \notin epoll'[i]
    BY <1>1, <1>4, <1>5, <2>1 DEF TableInv, EpollInv, Critical
  <2>4. QED
    BY <1>1, <1>3, <1>4, <1>5, <2>1, <2>2, <2>3 DEF TableInv, EpollInv, Critical
<1>12. QED
  BY <1>7, <1>8, <1>9, <1>10, <1>11 DEF TableInv

\* The new descriptor enters the table as it is in the epoll set of icus_[0].
LEMMA UpdateInsertTableInv ==
  ASSUME TableInv, NEW c \in Coros, UpdateInsert(c) PROVE TableInv'
<1>1. /\ pc[c] = "added" /\ pc' = [pc EXCEPT ![c] = "idle"]
      /\ fileWQPtrs_' = [f \in Registered \cup {fd[c]} |->
                            IF f = fd[c] THEN icus_[0] ELSE fileWQPtrs_[f]]
      /\ live' = live \cup {fd[c]} /\ fd' = [fd EXCEPT ![c] = NoFd]
      /\ UNCHANGED <<epoll, open>>
  BY DEF UpdateInsert, Go, Without
<1>2. pc'[c] = "idle" /\ \A d \in Coros : d # c => pc'[d] = pc[d] /\ fd'[d] = fd[d]
  BY <1>1 DEF TableInv, TableTypes
<1>3. /\ live \subseteq open /\ fd[c] \in Fds /\ fd[c] # NoFd /\ fd[c] \in open
      /\ fd[c] \notin Registered
  BY <1>1, NoFdAssumption DEF TableInv, TableTypes, FdInv, OwnInv
<1>4. \A d \in Coros : d # c => pc[d] \notin Critical
  BY <1>1, HolderAlone DEF TableInv, Critical
<1>5. holder' = {} /\ taken' \in BOOLEAN /\ UNCHANGED line
  BY UnlockFacts DEF UpdateInsert, TableInv
<1>6. /\ Registered' = Registered \cup {fd[c]}
      /\ fileWQPtrs_'[fd[c]] = icus_[0]
      /\ \A f \in Registered : fileWQPtrs_'[f] = fileWQPtrs_[f]
  BY <1>1, <1>3 DEF Registered
<1>7. icus_[0] \in ICUs
  <2>1. 0 \in ICUs
    BY IcuNumAssumption DEF ICUs
  <2>2. QED
    BY <2>1 DEF TableInv, TableTypes
<1>8. icus_' \in [ICUs -> ICUs]
  <2>1. PICK i \in 1..icuNum_ : icus_' = Swap(0, i - 1)
    BY DEF UpdateInsert
  <2>2. i - 1 \in ICUs /\ 0 \in ICUs
    BY <2>1, IcuNumAssumption DEF ICUs
  <2>3. QED
    BY <2>1, <2>2 DEF Swap, TableInv, TableTypes
<1>9. TableTypes'
  <2>1. pc' \in [Coros -> Control]
    BY <1>1, <1>3, <1>5 DEF TableInv, TableTypes, Control
  <2>2. fd' \in [Coros -> Fds \cup {NoFd}]
    BY <1>1, <1>3, <1>5 DEF TableInv, TableTypes
  <2>3. taken' \in BOOLEAN /\ holder' \subseteq Coros /\ line' \in Seq(Coros)
    BY <1>1, <1>3, <1>5 DEF TableInv, TableTypes
  <2>4. open' \subseteq Fds /\ live' \subseteq open'
    BY <1>1, <1>3, <1>5 DEF TableInv, OwnInv, TableTypes
  <2>8. fileWQPtrs_' \in [Registered' -> ICUs] /\ Registered' \subseteq Fds
    <3>1. fileWQPtrs_ \in [Registered -> ICUs] /\ Registered \subseteq Fds
      BY DEF TableInv, TableTypes
    <3>2. QED
      BY <1>1, <1>3, <1>6, <1>7, <3>1
  <2>9. QED
    BY <1>1, <1>3, <1>5, <2>1, <2>2, <2>3, <2>4, <2>8, <1>8 DEF TableInv, TableTypes
<1>10. LockInv'
  BY <1>2, <1>4, <1>5 DEF LockInv, Critical
<1>11. FdInv'
  BY <1>1, <1>2, <1>3, <1>4, <1>6 DEF TableInv, FdInv, OwnInv, Critical
<1>12. OwnInv'
  BY <1>1, <1>2, <1>3, <1>6 DEF TableInv, TableTypes, OwnInv
<1>13. EpollInv'
  <2>1. \A d \in Coros : pc'[d] \notin {"added", "deleted"}
    BY <1>2, <1>4 DEF Critical
  <2>2. \A i \in ICUs : fd[c] \in epoll[i] <=> i = icus_[0]
    BY <1>1 DEF TableInv, EpollInv
  <2>3. \A f \in Fds, i \in ICUs :
          f # fd[c] => (f \in epoll[i] <=> f \in Registered /\ fileWQPtrs_[f] = i)
    BY <1>4 DEF TableInv, EpollInv, Critical
  <2>4. QED
    BY <1>1, <1>6, <2>1, <2>2, <2>3 DEF EpollInv
<1>14. QED
  BY <1>9, <1>10, <1>11, <1>12, <1>13 DEF TableInv

\* The descriptor leaves the table; no epoll set has it any more.
LEMMA RemoveEraseTableInv ==
  ASSUME TableInv, NEW c \in Coros, RemoveErase(c) PROVE TableInv'
<1>1. /\ pc[c] = "deleted" /\ pc' = [pc EXCEPT ![c] = "close"]
      /\ fileWQPtrs_' = [f \in Registered \ {fd[c]} |-> fileWQPtrs_[f]]
      /\ UNCHANGED <<live, fd>>
      /\ UNCHANGED <<epoll, open>>
  BY DEF RemoveErase, Go, Without
<1>2. pc'[c] = "close" /\ \A d \in Coros : d # c => pc'[d] = pc[d] /\ fd'[d] = fd[d]
  BY <1>1 DEF TableInv, TableTypes
<1>3. /\ live \subseteq open /\ fd[c] \in Fds /\ fd[c] # NoFd /\ fd[c] \in open
      /\ fd[c] \in Registered
  BY <1>1, NoFdAssumption DEF TableInv, TableTypes, FdInv, OwnInv
<1>4. \A d \in Coros : d # c => pc[d] \notin Critical
  BY <1>1, HolderAlone DEF TableInv, Critical
<1>5. holder' = {} /\ taken' \in BOOLEAN /\ UNCHANGED line
  BY UnlockFacts DEF RemoveErase, TableInv
<1>6. /\ Registered' = Registered \ {fd[c]}
      /\ \A f \in Registered' : fileWQPtrs_'[f] = fileWQPtrs_[f]
  BY <1>1 DEF Registered
<1>7. icus_' \in [ICUs -> ICUs]
  <2> DEFINE icu == fileWQPtrs_[fd[c]]
             p == pos[icu]
  <2>1. PICK i \in -1..(p - 1) : MoveDown(icu, p, i + 1)
    BY DEF RemoveErase
  <2>2. p \in ICUs /\ icu \in ICUs
    BY <1>3 DEF RemoveErase, TableInv, TableTypes
  <2>3. i + 1 \in ICUs
    BY <2>1, <2>2, IcuNumAssumption DEF ICUs
  <2> HIDE DEF icu, p
  <2>4. QED
    BY <2>1, <2>2, <2>3 DEF MoveDown, TableInv, TableTypes
<1>8. TableTypes'
  <2>1. pc' \in [Coros -> Control]
    BY <1>1, <1>3, <1>5 DEF TableInv, TableTypes, Control
  <2>2. fd' \in [Coros -> Fds \cup {NoFd}]
    BY <1>1, <1>3, <1>5 DEF TableInv, TableTypes
  <2>3. taken' \in BOOLEAN /\ holder' \subseteq Coros /\ line' \in Seq(Coros)
    BY <1>1, <1>3, <1>5 DEF TableInv, TableTypes
  <2>4. open' \subseteq Fds /\ live' \subseteq open'
    BY <1>1, <1>3, <1>5 DEF TableInv, OwnInv, TableTypes
  <2>8. fileWQPtrs_' \in [Registered' -> ICUs] /\ Registered' \subseteq Fds
    <3>1. fileWQPtrs_ \in [Registered -> ICUs] /\ Registered \subseteq Fds
      BY DEF TableInv, TableTypes
    <3>2. QED
      BY <1>1, <1>3, <1>6, <3>1
  <2>9. QED
    BY <1>1, <1>3, <1>5, <2>1, <2>2, <2>3, <2>4, <2>8, <1>7 DEF TableInv, TableTypes
<1>9. LockInv'
  BY <1>2, <1>4, <1>5 DEF LockInv, Critical
<1>10. FdInv'
  BY <1>1, <1>2, <1>3, <1>4, <1>6 DEF TableInv, FdInv, OwnInv, Critical
<1>11. OwnInv'
  BY <1>1, <1>2, <1>3, <1>6 DEF TableInv, TableTypes, OwnInv
<1>12. EpollInv'
  <2>1. \A d \in Coros : pc'[d] \notin {"added", "deleted"}
    BY <1>2, <1>4 DEF Critical
  <2>2. \A i \in ICUs : fd[c] \notin epoll[i]
    BY <1>1 DEF TableInv, EpollInv
  <2>3. \A f \in Fds, i \in ICUs :
          f # fd[c] => (f \in epoll[i] <=> f \in Registered /\ fileWQPtrs_[f] = i)
    BY <1>4 DEF TableInv, EpollInv, Critical
  <2>4. QED
    BY <1>1, <1>6, <2>1, <2>2, <2>3 DEF EpollInv
<1>13. QED
  BY <1>8, <1>9, <1>10, <1>11, <1>12 DEF TableInv
-----------------------------------------------------------------------------
LEMMA NextTableInv == TableInv /\ [Next]_vars => TableInv'
<1> SUFFICES ASSUME TableInv, [Next]_vars PROVE TableInv'
  OBVIOUS
<1>1. CASE UNCHANGED vars
  <2>1. UNCHANGED <<taken, holder, line, icus_, irqn, pos, fileWQPtrs_, epoll, open, live, pc, fd>>
    BY <1>1 DEF vars, lock, order, table
  <2>2. Registered' = Registered
    BY <2>1 DEF Registered
  <2>3. TableTypes' /\ LockInv' /\ FdInv' /\ OwnInv'
    BY <2>1, <2>2 DEF TableInv, TableTypes, LockInv, FdInv, OwnInv
  <2>4. EpollInv'
    BY <2>1, EpollKept DEF order
  <2>5. QED
    BY <2>3, <2>4 DEF TableInv
<1>2. ASSUME NEW c \in Coros, NEW f \in Fds, Call(c, f) PROVE TableInv'
  BY <1>2, OpenCallTableInv, ModifyCallTableInv, CloseCallTableInv DEF Call
<1>3. ASSUME NEW c \in Coros, Step(c) PROVE TableInv'
  BY <1>3, LockTableInv, UpdateFindTableInv, AddIRQTableInv, ModIRQTableInv,
     UpdateInsertTableInv, UpdateFailsTableInv, RemoveFindTableInv, DelIRQTableInv,
     RemoveEraseTableInv, CloseTableInv DEF Step
<1>4. CASE Grant
  BY <1>4, GrantTableInv
<1>5. QED
  BY <1>1, <1>2, <1>3, <1>4 DEF Next

\* TableInv holds throughout, also with one ICU.
THEOREM TableInvariance == Spec => []TableInv
<1>1. Init => TableInv
  BY InitTableInv
<1>2. TableInv /\ [Next]_vars => TableInv'
  BY NextTableInv
<1>3. QED
  BY <1>1, <1>2, PTL DEF Spec

\* The table and the epoll sets agree whatever epoll_ctl refuses, and no
\* descriptor is closed while it is registered: with one ICU as with many,
\* since it does not matter here which ICU a descriptor was given to.
THEOREM TableKept == Spec => []TableMatchesEpoll
<1>1. TableInv => TableMatchesEpoll
  BY DEF TableInv, EpollInv, OwnInv, TableMatchesEpoll
<1>2. QED
  BY <1>1, TableInvariance, PTL
-----------------------------------------------------------------------------
(* The order of the ICUs, for two or more of them.                         *)

Inj == \A i, j \in ICUs : icus_[i] = icus_[j] => i = j
FirstPos == (\E i \in ICUs : irqn[i] > 0) => pos[icus_[0]] = 0
OrderTypes == /\ icus_ \in [ICUs -> ICUs] /\ irqn \in [ICUs -> Nat]
              /\ pos \in [ICUs -> 0..icuNum_]
OrderInv == OrderTypes /\ Inj /\ SortedByLoad /\ PosIsIndex /\ FirstPos

IInv == TableInv /\ LoadIsCounted /\ OrderInv

\* icus_[0] has one descriptor more and moves behind its equals.
LEMMA InsertKeepsOrder ==
  ASSUME icuNum_ >= 2, OrderInv, NEW i \in 1..icuNum_, FirstBusier(i),
         irqn' = [irqn EXCEPT ![icus_[0]] = @ + 1],
         icus_' = Swap(0, i - 1),
         pos' = IF i = 1 THEN pos
                ELSE [pos EXCEPT ![icus_[i - 1]] = 0, ![icus_[0]] = i - 1]
  PROVE  OrderInv'
<1> DEFINE first == icus_[0]
           last == icus_[i - 1]
<1>1. /\ 0 \in ICUs /\ i - 1 \in ICUs /\ i - 1 \in Int /\ i - 1 >= 0
      /\ \A j \in ICUs : j \in Int /\ j >= 0 /\ j < icuNum_
      /\ first \in ICUs /\ last \in ICUs
  BY IcuNumAssumption DEF ICUs, OrderInv, OrderTypes
<1>2. /\ icus_'[0] = last /\ icus_'[i - 1] = first
      /\ \A j \in ICUs : j # 0 /\ j # i - 1 => icus_'[j] = icus_[j]
  BY <1>1 DEF Swap, OrderInv, OrderTypes
<1>3. /\ irqn'[first] = irqn[first] + 1
      /\ \A k \in ICUs : k # first => irqn'[k] = irqn[k]
      /\ \A k \in ICUs : irqn[k] \in Nat
  BY <1>1 DEF OrderInv, OrderTypes
<1>4. OrderTypes'
  <2>1. icus_' \in [ICUs -> ICUs]
    BY <1>1 DEF Swap, OrderInv, OrderTypes
  <2>2. irqn' \in [ICUs -> Nat]
    BY <1>1 DEF OrderInv, OrderTypes
  <2>3. pos' \in [ICUs -> 0..icuNum_]
    BY <1>1, IcuNumAssumption DEF OrderInv, OrderTypes
  <2>4. QED
    BY <2>1, <2>2, <2>3 DEF OrderTypes
<1>5. Inj'
  BY <1>1, <1>2 DEF OrderInv, Inj
<1>a. \A j \in ICUs : icus_[j] \in ICUs /\ irqn[icus_[j]] \in Nat
  BY DEF OrderInv, OrderTypes
<1>b. \A j, k \in ICUs : j <= k => irqn[icus_[j]] <= irqn[icus_[k]]
  BY DEF OrderInv, SortedByLoad
<1>c. /\ i < icuNum_ => i \in ICUs /\ irqn[icus_[i]] > irqn[first]
      /\ \A j \in 1..i - 1 : j \in ICUs /\ irqn[icus_[j]] <= irqn[first]
      /\ \A j \in ICUs : j < i - 1 => j = 0 \/ j \in 1..i - 1
  BY IcuNumAssumption DEF FirstBusier, ICUs
<1>d. \A j \in ICUs : j # 0 => icus_[j] # first
  BY <1>1 DEF OrderInv, Inj
<1> HIDE DEF first, last
<1>6. \A j \in ICUs : j < i => irqn[icus_[j]] = irqn[first]
  <2> TAKE j \in ICUs
  <2> HAVE j < i
  <2>1. CASE j = 0
    BY <2>1 DEF first
  <2>2. CASE j # 0
    <3>1. irqn[icus_[j]] <= irqn[first]
      BY <1>1, <1>c, <2>2
    <3>2. irqn[icus_[0]] <= irqn[icus_[j]]
      BY <1>1, <1>b
    <3>3. QED
      BY <1>1, <1>a, <3>1, <3>2 DEF first
  <2>3. QED
    BY <2>1, <2>2
<1>7. \A j \in ICUs : j >= i => irqn[icus_[j]] >= irqn[first] + 1
  <2> TAKE j \in ICUs
  <2> HAVE j >= i
  <2>1. i < icuNum_ /\ i \in Int
    BY <1>1, IcuNumAssumption
  <2>2. i \in ICUs /\ irqn[icus_[i]] > irqn[first] /\ irqn[icus_[i]] <= irqn[icus_[j]]
    BY <1>b, <1>c, <2>1
  <2>3. QED
    BY <1>1, <1>3, <1>a, <2>2
<1>8. SortedByLoad'
  <2>1. \A j \in ICUs : j < i - 1 => irqn'[icus_'[j]] = irqn[first]
    <3> TAKE j \in ICUs
    <3> HAVE j < i - 1
    <3>1. CASE j = 0
      <4>1. icus_'[j] = last /\ last # first /\ irqn[last] = irqn[first]
        BY <1>1, <1>2, <1>6, <1>d, <3>1 DEF last
      <4>2. QED
        BY <1>1, <1>3, <4>1
    <3>2. CASE j # 0
      <4>1. icus_'[j] = icus_[j] /\ icus_[j] # first /\ irqn[icus_[j]] = irqn[first]
        BY <1>1, <1>2, <1>6, <1>d, <3>2
      <4>2. QED
        BY <1>3, <1>a, <4>1
    <3>3. QED
      BY <3>1, <3>2
  <2>2. irqn'[icus_'[i - 1]] = irqn[first] + 1
    BY <1>2, <1>3
  <2>3. \A j \in ICUs : j >= i => irqn'[icus_'[j]] = irqn[icus_[j]]
    <3> TAKE j \in ICUs
    <3> HAVE j >= i
    <3>1. j # 0 /\ j # i - 1
      BY <1>1
    <3>2. QED
      BY <1>2, <1>3, <1>a, <1>d, <3>1
  <2>4. \A j \in ICUs : j < i - 1 \/ j = i - 1 \/ j >= i
    BY <1>1
  <2>5. ASSUME NEW j \in ICUs, NEW k \in ICUs, j <= k
        PROVE  irqn'[icus_'[j]] <= irqn'[icus_'[k]]
    <3>1. CASE j < i - 1
      BY <1>1, <1>3, <1>7, <1>a, <2>1, <2>2, <2>3, <2>4, <3>1
    <3>2. CASE j = i - 1
      <4>1. k = i - 1 \/ k >= i
        BY <1>1, <2>5, <3>2
      <4>2. QED
        BY <1>1, <1>3, <1>7, <1>a, <2>2, <2>3, <3>2, <4>1
    <3>3. CASE j >= i
      <4>1. k >= i
        BY <1>1, <2>5, <3>3
      <4>2. QED
        BY <1>b, <2>3, <2>5, <3>3, <4>1
    <3>4. QED
      BY <2>4, <3>1, <3>2, <3>3
  <2>6. QED
    BY <2>5 DEF SortedByLoad
<1>9. (i = 1 => irqn[icus_[1]] > irqn[first] /\ pos[first] = 0)
  <2> SUFFICES ASSUME i = 1 PROVE irqn[icus_[1]] > irqn[first] /\ pos[first] = 0
    OBVIOUS
  <2>1. 1 \in ICUs /\ irqn[icus_[1]] > irqn[first]
    BY <1>c, IcuNumAssumption
  <2>2. irqn[icus_[1]] > 0 /\ icus_[1] \in ICUs
    BY <1>1, <1>3, <1>a, <2>1
  <2>3. QED
    BY <2>1, <2>2 DEF OrderInv, FirstPos, first
<1>10. /\ pos'[first] = i - 1
       /\ pos'[last] = 0
       /\ \A k \in ICUs : k # first /\ k # last => pos'[k] = pos[k]
  <2>1. CASE i = 1
    BY <1>9, <2>1 DEF first, last
  <2>2. CASE i # 1
    <3>1. first # last
      BY <1>1, <1>d, <2>2 DEF last
    <3>2. pos' = [pos EXCEPT ![last] = 0, ![first] = i - 1]
      BY <2>2 DEF first, last
    <3>3. QED
      BY <1>1, <3>1, <3>2 DEF OrderInv, OrderTypes
  <2>3. QED
    BY <2>1, <2>2
<1>11. PosIsIndex'
  <2>1. ASSUME NEW k \in ICUs, irqn'[k] > 0 PROVE pos'[k] \in ICUs /\ icus_'[pos'[k]] = k
    <3>1. CASE k = first \/ k = last
      BY <1>1, <1>2, <1>10, <3>1
    <3>2. CASE k # first /\ k # last
      <4>1. irqn[k] > 0 /\ pos'[k] = pos[k]
        BY <1>3, <1>10, <2>1, <3>2
      <4>2. pos[k] \in ICUs /\ icus_[pos[k]] = k
        BY <4>1 DEF OrderInv, PosIsIndex
      <4>3. pos[k] # 0 /\ pos[k] # i - 1
        BY <3>2, <4>2 DEF first, last
      <4>4. QED
        BY <1>2, <4>1, <4>2, <4>3
    <3>3. QED
      BY <3>1, <3>2
  <2>2. QED
    BY <2>1 DEF PosIsIndex
<1>12. FirstPos'
  BY <1>2, <1>10 DEF FirstPos
<1>13. QED
  BY <1>4, <1>5, <1>8, <1>11, <1>12 DEF OrderInv

\* An ICU at p has one descriptor less and moves before its equals, to i + 1.
LEMMA EraseKeepsOrder ==
  ASSUME OrderInv, NEW icu \in ICUs, irqn[icu] > 0, NEW p, p = pos[icu],
         NEW i \in -1..(p - 1), LastIdler(p, i),
         irqn' = [irqn EXCEPT ![icus_[p]] = @ - 1],
         MoveDown(icu, p, i + 1)
  PROVE  icus_[p] = icu /\ OrderInv'
<1> DEFINE q == i + 1
           other == icus_[q]
<1>1. /\ p \in ICUs /\ icus_[p] = icu
      /\ \A j \in ICUs : j \in Int /\ j >= 0 /\ j < icuNum_
      /\ q \in ICUs /\ q <= p /\ q \in Int /\ p \in Int /\ 0 \in ICUs
      /\ other \in ICUs
  <2>1. p \in ICUs /\ icus_[p] = icu
    BY DEF OrderInv, PosIsIndex
  <2>2. p \in Int /\ p >= 0 /\ p < icuNum_ /\ icuNum_ \in Int
    BY <2>1, IcuNumAssumption DEF ICUs
  <2>3. q \in Int /\ q >= 0 /\ q <= p
    BY <2>2
  <2>4. q \in ICUs /\ 0 \in ICUs
    BY <2>2, <2>3 DEF ICUs
  <2>5. \A j \in ICUs : j \in Int /\ j >= 0 /\ j < icuNum_
    BY <2>2 DEF ICUs
  <2>6. other \in ICUs
    BY <2>4 DEF OrderInv, OrderTypes
  <2>7. QED
    BY <2>1, <2>2, <2>3, <2>4, <2>5, <2>6
<1>2. /\ irqn'[icu] = irqn[icu] - 1
      /\ \A k \in ICUs : k # icu => irqn'[k] = irqn[k]
      /\ \A k \in ICUs : irqn[k] \in Nat
  BY <1>1 DEF OrderInv, OrderTypes
<1>3. /\ \A j \in ICUs : icus_[j] \in ICUs /\ irqn[icus_[j]] \in Nat
      /\ \A j, k \in ICUs : j <= k => irqn[icus_[j]] <= irqn[icus_[k]]
      /\ \A j, k \in ICUs : icus_[j] = icus_[k] => j = k
  BY DEF OrderInv, OrderTypes, SortedByLoad, Inj
<1>4. /\ i >= 0 => i \in ICUs /\ irqn[icus_[i]] < irqn[icu]
      /\ \A j \in ICUs : j < q /\ j # i => j < i
      /\ \A j \in ICUs : q <= j /\ j < p => irqn[icus_[j]] >= irqn[icu]
  BY <1>1, IcuNumAssumption DEF LastIdler, ICUs
<1>5. /\ icus_'[q] = icu /\ icus_'[p] = other
      /\ \A j \in ICUs : j # p /\ j # q => icus_'[j] = icus_[j]
      /\ icus_' \in [ICUs -> ICUs]
  BY <1>1 DEF MoveDown, OrderInv, OrderTypes
<1>6. /\ pos'[icu] = q
      /\ p # q => pos'[other] = p
      /\ \A k \in ICUs : k # icu /\ k # other => pos'[k] = pos[k]
      /\ pos' \in [ICUs -> 0..icuNum_]
  <2>1. CASE p = q
    BY <1>1, <2>1 DEF MoveDown, OrderInv, OrderTypes
  <2>2. CASE p # q
    <3>1. other # icu
      BY <1>1, <1>3, <2>2
    <3>2. pos' = [pos EXCEPT ![other] = p, ![icu] = q]
      BY <2>2 DEF MoveDown
    <3>3. p \in 0..icuNum_ /\ q \in 0..icuNum_
      BY <1>1, IcuNumAssumption
    <3> HIDE DEF q, other
    <3>4. QED
      BY <1>1, <3>1, <3>2, <3>3 DEF OrderInv, OrderTypes
  <2>3. QED
    BY <2>1, <2>2
<1> HIDE DEF q, other
<1>7. OrderTypes'
  <2>1. irqn' \in [ICUs -> Nat]
    BY <1>1, <1>2 DEF OrderInv, OrderTypes
  <2>2. QED
    BY <1>5, <1>6, <2>1 DEF OrderTypes
<1>8. Inj'
  BY <1>1, <1>3, <1>5 DEF Inj, other
\* The loads along icus_ are as before, but one less at q.
<1>9. \A j \in ICUs : irqn'[icus_'[j]] = IF j = q THEN irqn[icu] - 1 ELSE irqn[icus_[j]]
  <2> TAKE j \in ICUs
  <2>1. CASE j = q
    BY <1>2, <1>5, <2>1
  <2>2. CASE j # q /\ j = p
    <3>1. other # icu /\ irqn[other] = irqn[icu]
      BY <1>1, <1>3, <1>4, <2>2 DEF other
    <3>2. QED
      BY <1>1, <1>2, <1>5, <2>2, <3>1
  <2>3. CASE j # q /\ j # p
    <3>1. icus_[j] # icu
      BY <1>1, <1>3, <2>3
    <3>2. QED
      BY <1>2, <1>3, <1>5, <2>3, <3>1
  <2>4. QED
    BY <2>1, <2>2, <2>3
<1>10. irqn[icus_[q]] = irqn[icu]
  BY <1>1, <1>2, <1>3, <1>4
<1>11. SortedByLoad'
  <2>1. ASSUME NEW j \in ICUs, NEW k \in ICUs, j <= k
        PROVE  irqn'[icus_'[j]] <= irqn'[icus_'[k]]
    <3>1. CASE k = q /\ j # q
      <4>1. i \in ICUs /\ j <= i /\ irqn[icus_[i]] < irqn[icu]
        BY <1>1, <1>4, <2>1, <3>1 DEF q
      <4>2. irqn[icus_[j]] <= irqn[icus_[i]]
        BY <1>3, <4>1
      <4>3. QED
        BY <1>2, <1>3, <1>9, <3>1, <4>1, <4>2
    <3>2. CASE j = q /\ k = q
      BY <1>2, <1>9, <3>2
    <3>3. CASE j = q /\ k # q
      <4>1. irqn[icus_[q]] <= irqn[icus_[k]]
        BY <1>1, <1>3, <2>1, <3>3
      <4>2. QED
        BY <1>2, <1>3, <1>9, <1>10, <3>3, <4>1
    <3>4. CASE j # q /\ k # q
      BY <1>3, <1>9, <2>1, <3>4
    <3>5. QED
      BY <3>1, <3>2, <3>3, <3>4
  <2>2. QED
    BY <2>1 DEF SortedByLoad
<1>12. PosIsIndex'
  <2>1. ASSUME NEW k \in ICUs, irqn'[k] > 0 PROVE pos'[k] \in ICUs /\ icus_'[pos'[k]] = k
    <3>1. CASE k = icu
      BY <1>1, <1>5, <1>6, <3>1
    <3>2. CASE k # icu /\ k = other
      <4>1. p # q
        BY <1>1, <3>2 DEF other
      <4>2. QED
        BY <1>1, <1>5, <1>6, <3>2, <4>1
    <3>3. CASE k # icu /\ k # other
      <4>1. pos'[k] = pos[k] /\ irqn[k] > 0
        BY <1>2, <1>6, <2>1, <3>3
      <4>2. pos[k] \in ICUs /\ icus_[pos[k]] = k
        BY <4>1 DEF OrderInv, PosIsIndex
      <4>3. pos[k] # p /\ pos[k] # q
        BY <1>1, <3>3, <4>2 DEF other
      <4>4. QED
        BY <1>5, <4>1, <4>2, <4>3
    <3>4. QED
      BY <3>1, <3>2, <3>3
  <2>2. QED
    BY <2>1 DEF PosIsIndex
<1>13. FirstPos'
  <2>1. pos[icus_[0]] = 0
    BY DEF OrderInv, FirstPos
  <2>2. CASE q = 0
    BY <1>5, <1>6, <2>2 DEF FirstPos
  <2>3. CASE q # 0
    <3>1. icus_'[0] = icus_[0] /\ icus_[0] # icu /\ icus_[0] # other
      BY <1>1, <1>3, <1>5, <2>3 DEF other
    <3>2. QED
      BY <1>1, <1>3, <1>6, <2>1, <3>1 DEF FirstPos
  <2>4. QED
    BY <2>2, <2>3
<1>14. QED
  BY <1>1, <1>7, <1>8, <1>11, <1>12, <1>13 DEF OrderInv
-----------------------------------------------------------------------------
\* The load of an ICU is a cardinality: one more or one less descriptor.
LEMMA LoadSets ==
  ASSUME TableTypes, NEW i
  PROVE  IsFiniteSet({f \in Registered : fileWQPtrs_[f] = i})
BY FdsAssumption, FS_Subset DEF TableTypes

LEMMA InitOrder == Init => LoadIsCounted /\ OrderInv
<1> SUFFICES ASSUME Init PROVE LoadIsCounted /\ OrderInv
  OBVIOUS
<1> USE DEF Init
<1>1. Registered = {} /\ 0 \in ICUs
  BY IcuNumAssumption DEF Registered, ICUs
<1>2. OrderInv
  BY DEF OrderInv, OrderTypes, Inj, SortedByLoad, PosIsIndex, FirstPos
<1>3. LoadIsCounted
  <2>1. \A i \in ICUs : {f \in Registered : fileWQPtrs_[f] = i} = {}
    BY <1>1
  <2>2. QED
    BY <2>1, FS_EmptySet DEF LoadIsCounted
<1>4. QED
  BY <1>2, <1>3

\* Only updateIRQ's insertion and removeIRQ's erasure touch what follows.
LEMMA DataKept ==
  ASSUME LoadIsCounted, OrderInv, UNCHANGED <<order, fileWQPtrs_>>
  PROVE  LoadIsCounted' /\ OrderInv'
BY DEF order, LoadIsCounted, OrderInv, OrderTypes, Inj, SortedByLoad,
       PosIsIndex, FirstPos, Registered

LEMMA UpdateInsertOrder ==
  ASSUME icuNum_ >= 2, IInv, NEW c \in Coros, UpdateInsert(c)
  PROVE  LoadIsCounted' /\ OrderInv'
<1>1. /\ pc[c] = "added" /\ pc' = [pc EXCEPT ![c] = "idle"]
      /\ fileWQPtrs_' = [f \in Registered \cup {fd[c]} |->
                            IF f = fd[c] THEN icus_[0] ELSE fileWQPtrs_[f]]
      /\ live' = live \cup {fd[c]} /\ fd' = [fd EXCEPT ![c] = NoFd]
      /\ UNCHANGED <<epoll, open>>
  BY DEF UpdateInsert, Go, Without
<1>2. /\ live \subseteq open /\ fd[c] \in Fds /\ fd[c] # NoFd /\ fd[c] \in open
      /\ fd[c] \notin Registered
  BY <1>1, NoFdAssumption DEF IInv, TableInv, TableTypes, FdInv, OwnInv
<1>3. /\ Registered' = Registered \cup {fd[c]}
      /\ fileWQPtrs_'[fd[c]] = icus_[0]
      /\ \A f \in Registered : fileWQPtrs_'[f] = fileWQPtrs_[f]
  BY <1>1, <1>2 DEF Registered
<1>4. icus_[0] \in ICUs
  <2>1. 0 \in ICUs
    BY IcuNumAssumption DEF ICUs
  <2>2. QED
    BY <2>1 DEF IInv, TableInv, TableTypes, OrderInv, OrderTypes
<1>5. OrderInv'
  BY InsertKeepsOrder DEF UpdateInsert, IInv
<1>6. irqn' = [irqn EXCEPT ![icus_[0]] = @ + 1] /\ irqn \in [ICUs -> Nat]
  BY DEF UpdateInsert, IInv, TableInv, TableTypes, OrderInv, OrderTypes
<1>7. LoadIsCounted'
  <2> SUFFICES ASSUME NEW i \in ICUs
               PROVE  irqn'[i] = Cardinality({f \in Registered' : fileWQPtrs_'[f] = i})
    BY DEF LoadIsCounted
  <2> DEFINE old == {f \in Registered : fileWQPtrs_[f] = i}
  <2>1. IsFiniteSet(old) /\ irqn[i] = Cardinality(old) /\ fd[c] \notin old
    BY <1>2, LoadSets DEF IInv, TableInv, LoadIsCounted
  <2>2. {f \in Registered' : fileWQPtrs_'[f] = i} = IF i = icus_[0] THEN old \cup {fd[c]} ELSE old
    BY <1>2, <1>3
  <2> HIDE DEF old
  <2>3. irqn'[i] = IF i = icus_[0] THEN irqn[i] + 1 ELSE irqn[i]
    BY <1>4, <1>6
  <2>4. CASE i = icus_[0]
    BY <1>4, <2>1, <2>2, <2>3, <2>4, FS_AddElement
  <2>5. CASE i # icus_[0]
    BY <2>1, <2>2, <2>3, <2>5
  <2>6. QED
    BY <2>4, <2>5
<1>8. QED
  BY <1>5, <1>7

LEMMA RemoveEraseOrder ==
  ASSUME IInv, NEW c \in Coros, RemoveErase(c)
  PROVE  LoadIsCounted' /\ OrderInv'
<1>1. /\ pc[c] = "deleted" /\ pc' = [pc EXCEPT ![c] = "close"]
      /\ fileWQPtrs_' = [f \in Registered \ {fd[c]} |-> fileWQPtrs_[f]]
      /\ UNCHANGED <<live, fd>>
      /\ UNCHANGED <<epoll, open>>
  BY DEF RemoveErase, Go, Without
<1>2. /\ live \subseteq open /\ fd[c] \in Fds /\ fd[c] # NoFd /\ fd[c] \in open
      /\ fd[c] \in Registered
  BY <1>1, NoFdAssumption DEF IInv, TableInv, TableTypes, FdInv, OwnInv
<1>3. /\ Registered' = Registered \ {fd[c]}
      /\ \A f \in Registered' : fileWQPtrs_'[f] = fileWQPtrs_[f]
  BY <1>1 DEF Registered
<1> DEFINE icu == fileWQPtrs_[fd[c]]
<1>4. icu \in ICUs /\ irqn[icu] > 0
  <2> DEFINE mine == {f \in Registered : fileWQPtrs_[f] = icu}
  <2>1. icu \in ICUs
    BY <1>2 DEF IInv, TableInv, TableTypes, OrderInv, OrderTypes
  <2>2. IsFiniteSet(mine) /\ fd[c] \in mine /\ irqn[icu] = Cardinality(mine)
    BY <1>2, <2>1, LoadSets DEF IInv, TableInv, LoadIsCounted
  <2> HIDE DEF mine
  <2>3. Cardinality(mine) \in Nat /\ Cardinality(mine) # 0
    BY <2>2, FS_EmptySet, FS_CardinalityType
  <2>4. QED
    BY <2>1, <2>2, <2>3
<1>5. icus_[pos[icu]] = icu /\ OrderInv'
  <2>1. PICK i \in -1..(pos[icu] - 1) : LastIdler(pos[icu], i) /\ MoveDown(icu, pos[icu], i + 1)
    BY DEF RemoveErase
  <2>2. irqn' = [irqn EXCEPT ![icus_[pos[icu]]] = @ - 1]
    BY DEF RemoveErase
  <2> HIDE DEF icu
  <2>3. QED
    BY <1>4, <2>1, <2>2, EraseKeepsOrder DEF IInv
<1>6. irqn' = [irqn EXCEPT ![icu] = @ - 1] /\ irqn \in [ICUs -> Nat]
  BY <1>5 DEF RemoveErase, IInv, TableInv, TableTypes, OrderInv, OrderTypes
<1>7. LoadIsCounted'
  <2> SUFFICES ASSUME NEW i \in ICUs
               PROVE  irqn'[i] = Cardinality({f \in Registered' : fileWQPtrs_'[f] = i})
    BY DEF LoadIsCounted
  <2> DEFINE old == {f \in Registered : fileWQPtrs_[f] = i}
  <2>1. IsFiniteSet(old) /\ irqn[i] = Cardinality(old) /\ (fd[c] \in old <=> i = icu)
    BY <1>2, LoadSets DEF IInv, TableInv, LoadIsCounted
  <2>2. {f \in Registered' : fileWQPtrs_'[f] = i} = IF i = icu THEN old \ {fd[c]} ELSE old
    BY <1>3
  <2> HIDE DEF old, icu
  <2>3. irqn'[i] = IF i = icu THEN irqn[i] - 1 ELSE irqn[i]
    BY <1>4, <1>6
  <2>4. CASE i = icu
    BY <1>4, <2>1, <2>2, <2>3, <2>4, FS_RemoveElement
  <2>5. CASE i # icu
    BY <2>1, <2>2, <2>3, <2>5
  <2>6. QED
    BY <2>4, <2>5
<1>8. QED
  BY <1>5, <1>7
-----------------------------------------------------------------------------
LEMMA NextIInv == icuNum_ >= 2 /\ IInv /\ [Next]_vars => IInv'
<1> SUFFICES ASSUME icuNum_ >= 2, IInv, [Next]_vars PROVE IInv'
  OBVIOUS
<1>1. TableInv'
  BY NextTableInv DEF IInv
<1>2. CASE UNCHANGED <<order, fileWQPtrs_>>
  BY <1>1, <1>2, DataKept DEF IInv
<1>3. CASE \E c \in Coros : UpdateInsert(c)
  BY <1>1, <1>3, UpdateInsertOrder DEF IInv
<1>4. CASE \E c \in Coros : RemoveErase(c)
  BY <1>1, <1>4, RemoveEraseOrder DEF IInv
<1>5. ASSUME NEW c \in Coros, Step(c), ~UpdateInsert(c), ~RemoveErase(c)
      PROVE  UNCHANGED <<order, fileWQPtrs_>>
  BY <1>5, Zenon DEF Step, Lock, UpdateFind, AddIRQ, ModIRQ, UpdateFails, RemoveFind,
     DelIRQ, Close, table
<1>6. ASSUME NEW c \in Coros, NEW f \in Fds, Call(c, f)
      PROVE  UNCHANGED <<order, fileWQPtrs_>>
  BY <1>6, Zenon DEF Call, OpenCall, ModifyCall, CloseCall, table
<1>7. CASE Grant \/ UNCHANGED vars
  BY <1>2, <1>7 DEF Grant, table, vars
<1>8. QED
  BY <1>2, <1>3, <1>4, <1>5, <1>6, <1>7 DEF Next

\* With two or more ICUs IInv holds throughout.
THEOREM Invariance ==
  ASSUME icuNum_ >= 2 PROVE Spec => []IInv
<1>1. Init => IInv
  BY InitTableInv, InitOrder DEF IInv
<1>2. IInv /\ [Next]_vars => IInv'
  BY NextIInv
<1>3. QED
  BY <1>1, <1>2, PTL DEF Spec

\* Any history of opens and closes keeps icus_ sorted by load, the loads
\* counted, and the pos of every ICU that removeIRQ may ask right.
THEOREM OrderKept ==
  ASSUME icuNum_ >= 2 PROVE Spec => []LoadOrder
<1>1. IInv => LoadOrder
  BY DEF IInv, TableInv, TableTypes, OrderInv, OrderTypes, LoadOrder, TypeOK
<1>2. QED
  BY <1>1, Invariance, PTL
=============================================================================
