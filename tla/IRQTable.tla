------------------------------ MODULE IRQTable ------------------------------
(***************************************************************************)
(* The kernel's table of file descriptors: CoKernel::updateIRQ and         *)
(* CoKernel::removeIRQ (CoKernel.cpp) as colib::socket, colib::accept and  *)
(* colib::close (ASocket.cpp) use them.                                    *)
(*                                                                         *)
(* fileWQPtrs_ maps a descriptor to its FileWQ, of which only the ICU      *)
(* matters here; icus_ lists the ICUs by the number irqn of descriptors    *)
(* they poll, and pos is an ICU's index in that list.  All of it is        *)
(* guarded by the coroutine mutex fMapLk_, which is held across the await  *)
(* of the ICU thread that calls epoll_ctl: fMapLk_ is a FifoLock.          *)
(***************************************************************************)
EXTENDS Integers, FiniteSets, Sequences

CONSTANTS
  Coros,        \* coroutines that open and close sockets
  Fds,          \* bound: the descriptors the operating system hands out
  icuNum_       \* the first argument of CoKernel::INIT

ASSUME IcuNumAssumption == icuNum_ \in Nat \ {0}
ASSUME FdsAssumption == IsFiniteSet(Fds)

ICUs == 0..(icuNum_ - 1)        \* an ICU is named by its place at start-up
NoFd == "no fd"
ASSUME NoFdAssumption == NoFd \notin Fds

VARIABLES
  taken, holder, line,  \* fMapLk_
  icus_,                \* CoKernel::icus_, a vector of ICUs
  irqn, pos,            \* ICU::irqn and ICU::pos
  fileWQPtrs_,          \* ICU of each registered descriptor
  epoll,                \* epoll[i]: the descriptors in ICU i's epoll set
  open,                 \* descriptors that are open
  live,                 \* descriptors given to the application
  pc, fd                \* control of each coroutine; the descriptor it works on

lock == <<taken, holder, line>>
order == <<icus_, irqn, pos>>
table == <<fileWQPtrs_, epoll>>
vars == <<lock, order, table, open, live, pc, fd>>

fMapLk_ == INSTANCE FifoLock WITH Tasks <- Coros

Control == {"idle", "update", "updating", "add", "added", "mod", "failed",
            "remove", "removing", "del", "deleted", "close"}

Registered == DOMAIN fileWQPtrs_
Go(c, to) == pc' = [pc EXCEPT ![c] = to]

\* The constructor of ICU sets irqn but not pos, which may hold anything;
\* icuNum_ stands for every value that is not an index of icus_.
Init ==
  /\ fMapLk_!Init
  /\ icus_ = [i \in ICUs |-> i]
  /\ irqn = [i \in ICUs |-> 0]
  /\ pos \in [ICUs -> 0..icuNum_]
  /\ fileWQPtrs_ = [f \in {} |-> 0]
  /\ epoll = [i \in ICUs |-> {}]
  /\ open = {} /\ live = {}
  /\ pc = [c \in Coros |-> "idle"]
  /\ fd = [c \in Coros |-> NoFd]
-----------------------------------------------------------------------------
(* fMapLk_: lock() before either function's body, unlock() after it.       *)

Lock(c) ==
  /\ \/ pc[c] = "update" /\ Go(c, "updating")
     \/ pc[c] = "remove" /\ Go(c, "removing")
  /\ fMapLk_!Acquire(c) \/ fMapLk_!Join(c)
  /\ UNCHANGED <<order, table, open, live, fd>>

Unlock == fMapLk_!Free \/ (line # <<>> /\ fMapLk_!HandOver)

Grant == /\ fMapLk_!Grant
         /\ UNCHANGED <<order, table, open, live, pc, fd>>

Holds(c) == holder = {c}
-----------------------------------------------------------------------------
(* updateIRQ(fd, events)                                                   *)

\* ::socket or ::accept4 gives a new descriptor.
OpenCall(c, f) ==
  /\ pc[c] = "idle"
  /\ f \notin open
  /\ open' = open \cup {f}
  /\ fd' = [fd EXCEPT ![c] = f]
  /\ Go(c, "update")
  /\ UNCHANGED <<lock, order, table, live>>

\* updateIRQ on a descriptor that is registered already.
ModifyCall(c, f) ==
  /\ pc[c] = "idle"
  /\ f \in live
  /\ live' = live \ {f}
  /\ fd' = [fd EXCEPT ![c] = f]
  /\ Go(c, "update")
  /\ UNCHANGED <<lock, order, table, open>>

UpdateFind(c) ==
  /\ pc[c] = "updating"
  /\ Holds(c)
  /\ Go(c, IF fd[c] \in Registered THEN "mod" ELSE "add")
  /\ UNCHANGED <<lock, order, table, open, live, fd>>

\* As if the result of epoll_ctl were not tested.
AddUntested(c) ==
  /\ pc[c] = "add"
  /\ Go(c, "added")
  /\ epoll' \in {epoll, [epoll EXCEPT ![icus_[0]] = @ \cup {fd[c]}]}
  /\ UNCHANGED <<lock, order, fileWQPtrs_, open, live, fd>>

\* The ICU thread of icus_[0] calls epoll_ctl; a descriptor can be refused.
AddIRQ(c) ==
  /\ pc[c] = "add"
  /\ \/ /\ epoll' = [epoll EXCEPT ![icus_[0]] = @ \cup {fd[c]}]
        /\ Go(c, "added")
     \/ /\ UNCHANGED epoll
        /\ Go(c, "failed")
  /\ UNCHANGED <<lock, order, fileWQPtrs_, open, live, fd>>

ModIRQ(c) ==
  /\ pc[c] = "mod"
  /\ Unlock
  /\ live' = live \cup {fd[c]}
  /\ fd' = [fd EXCEPT ![c] = NoFd]
  /\ Go(c, "idle")
  /\ UNCHANGED <<order, table, open>>

FirstBusier(i) ==
  /\ i < icuNum_ => irqn[icus_[i]] > irqn[icus_[0]]
  /\ \A j \in 1..(i - 1) : irqn[icus_[j]] <= irqn[icus_[0]]

Swap(a, b) == [icus_ EXCEPT ![a] = icus_[b], ![b] = icus_[a]]

\* icus_[0] has one descriptor more: it moves behind its equals.
UpdateInsert(c) ==
  /\ pc[c] = "added"
  /\ fileWQPtrs_' = [f \in Registered \cup {fd[c]} |->
                       IF f = fd[c] THEN icus_[0] ELSE fileWQPtrs_[f]]
  /\ irqn' = [irqn EXCEPT ![icus_[0]] = @ + 1]
  /\ \E i \in 1..icuNum_ :
       /\ FirstBusier(i)
       /\ icus_' = Swap(0, i - 1)
       /\ pos' = IF i = 1 THEN pos
                 ELSE [pos EXCEPT ![icus_[i - 1]] = 0, ![icus_[0]] = i - 1]
  /\ Unlock
  /\ live' = live \cup {fd[c]}
  /\ fd' = [fd EXCEPT ![c] = NoFd]
  /\ Go(c, "idle")
  /\ UNCHANGED <<epoll, open>>

\* As if the error returned before CoRoUnlock.
UpdateFailsLocked(c) ==
  /\ pc[c] = "failed"
  /\ Go(c, "close")
  /\ UNCHANGED <<lock, order, table, open, live, fd>>

\* updateIRQ returns an error: socket() and accept() close the descriptor.
UpdateFails(c) ==
  /\ pc[c] = "failed"
  /\ Unlock
  /\ Go(c, "close")
  /\ UNCHANGED <<order, table, open, live, fd>>
-----------------------------------------------------------------------------
(* removeIRQ(fd), from colib::close                                        *)

CloseCall(c, f) ==
  /\ pc[c] = "idle"
  /\ f \in live
  /\ live' = live \ {f}
  /\ fd' = [fd EXCEPT ![c] = f]
  /\ Go(c, "remove")
  /\ UNCHANGED <<lock, order, table, open>>

RemoveFind(c) ==
  /\ pc[c] = "removing"
  /\ Holds(c)
  /\ IF fd[c] \in Registered
     THEN Go(c, "del") /\ UNCHANGED lock
     ELSE Go(c, "close") /\ Unlock
  /\ UNCHANGED <<order, table, open, live, fd>>

DelIRQ(c) ==
  /\ pc[c] = "del"
  /\ epoll' = [epoll EXCEPT ![fileWQPtrs_[fd[c]]] = @ \ {fd[c]}]
  /\ Go(c, "deleted")
  /\ UNCHANGED <<lock, order, fileWQPtrs_, open, live, fd>>

\* i is where the search from pos - 1 down for a less busy ICU ends.
LastIdler(p, i) ==
  /\ i >= 0 => irqn[icus_[i]] < irqn[icus_[p]]
  /\ \A j \in (i + 1)..(p - 1) : irqn[icus_[j]] >= irqn[icus_[p]]

Without(f) == [g \in Registered \ {f} |-> fileWQPtrs_[g]]

\* icu moves from p down to q, and the ICU that was there to p.
MoveDownForgetsDisplaced(icu, p, q) ==
  /\ icus_' = Swap(p, q)
  /\ pos' = [pos EXCEPT ![icu] = q]

MoveDown(icu, p, q) ==
  IF p = q THEN UNCHANGED <<icus_, pos>>
  ELSE /\ icus_' = [icus_ EXCEPT ![p] = icus_[q], ![q] = icu]
       /\ pos' = [pos EXCEPT ![icus_[q]] = p, ![icu] = q]

\* An index outside icus_ ends the program.
RemoveErase(c) ==
  LET icu == fileWQPtrs_[fd[c]]
      p   == pos[icu]
  IN
  /\ pc[c] = "deleted"
  /\ p \in ICUs
  /\ fileWQPtrs_' = Without(fd[c])
  /\ irqn' = [irqn EXCEPT ![icus_[p]] = @ - 1]
  /\ \E i \in -1..(p - 1) :
       /\ LastIdler(p, i)
       /\ MoveDown(icu, p, i + 1)
  /\ Unlock
  /\ Go(c, "close")
  /\ UNCHANGED <<epoll, open, live, fd>>

\* ::close(fd), after removeIRQ or a failed updateIRQ.
Close(c) ==
  /\ pc[c] = "close"
  /\ open' = open \ {fd[c]}
  /\ fd' = [fd EXCEPT ![c] = NoFd]
  /\ Go(c, "idle")
  /\ UNCHANGED <<lock, order, table, live>>
-----------------------------------------------------------------------------
Call(c, f) == OpenCall(c, f) \/ ModifyCall(c, f) \/ CloseCall(c, f)

Step(c) == \/ Lock(c)
           \/ UpdateFind(c) \/ AddIRQ(c) \/ ModIRQ(c)
           \/ UpdateInsert(c) \/ UpdateFails(c)
           \/ RemoveFind(c) \/ DelIRQ(c) \/ RemoveErase(c) \/ Close(c)

Next == \/ \E c \in Coros, f \in Fds : Call(c, f)
        \/ \E c \in Coros : Step(c)
        \/ Grant

Spec == Init /\ [][Next]_vars
FairSpec == Spec /\ WF_vars(Grant) /\ \A c \in Coros : WF_vars(Step(c))
-----------------------------------------------------------------------------
TypeOK ==
  /\ taken \in BOOLEAN
  /\ holder \subseteq Coros
  /\ line \in Seq(Coros)
  /\ icus_ \in [ICUs -> ICUs]
  /\ irqn \in [ICUs -> Nat]
  /\ pos \in [ICUs -> 0..icuNum_]
  /\ Registered \subseteq Fds
  /\ fileWQPtrs_ \in [Registered -> ICUs]
  /\ epoll \in [ICUs -> SUBSET Fds]
  /\ open \subseteq Fds /\ live \subseteq open
  /\ pc \in [Coros -> Control]
  /\ fd \in [Coros -> Fds \cup {NoFd}]

\* irqn counts the descriptors registered with the ICU; icus_ stays sorted by
\* it through the two searches, so icus_[0], which a new descriptor is given
\* to, is a least loaded ICU; and the pos of an ICU that has descriptors is its
\* index in icus_: it is set before removeIRQ first reads it, and follows every
\* swap.
LoadIsCounted ==
  \A i \in ICUs :
    irqn[i] = Cardinality({f \in Registered : fileWQPtrs_[f] = i})
SortedByLoad ==
  \A i, j \in ICUs : i <= j => irqn[icus_[i]] <= irqn[icus_[j]]
PosIsIndex == \A i \in ICUs : irqn[i] > 0 => pos[i] \in ICUs /\ icus_[pos[i]] = i
LoadOrder == TypeOK /\ LoadIsCounted /\ SortedByLoad /\ PosIsIndex

\* A descriptor is in the table exactly when it is in the epoll set of its ICU
\* and of no other one, but for the one that fMapLk_'s holder is working on; it
\* is open, so that its number cannot be handed out again.
TableMatchesEpoll ==
  /\ \A f \in Fds, i \in ICUs :
       (\A c \in Coros : pc[c] \in {"added", "deleted"} => fd[c] # f)
         => (f \in epoll[i] <=> f \in Registered /\ fileWQPtrs_[f] = i)
  /\ Registered \subseteq open

\* A coroutine that calls updateIRQ or removeIRQ gets through.
CallReturns == \A c \in Coros : pc[c] # "idle" ~> pc[c] = "idle"
=============================================================================
