------------------------------- MODULE ICULoop ------------------------------
(***************************************************************************)
(* One interrupt control unit of coker: the thread of ICU::loop (ICU.cpp), *)
(* the requests that coroutines on CPU threads put into funcs_, the eventfd*)
(* that wakes the thread, epoll (IRQPoll.cpp), and the FileWQs whose       *)
(* waiting coroutines it wakes (FileWQ.cpp, ASocket.cpp).                  *)
(*                                                                         *)
(* Only input is modelled: a socket holds some units of data, and the      *)
(* coroutines recv() or readv() from it without a time limit.  Every       *)
(* registration is edge triggered, so readiness that epoll_wait has once   *)
(* reported lives only in revents_.                                        *)
(*                                                                         *)
(* A File is one FileWQ object with its descriptor; it is created and      *)
(* destroyed once.  A woken coroutine counts as running again: that it is  *)
(* resumed is the business of module Scheduler.                            *)
(***************************************************************************)
EXTENDS Naturals, Sequences, FiniteSets

CONSTANTS
  Coros,        \* coroutines
  Files,        \* FileWQ objects
  MaxData,      \* bound: units of data that arrive at a socket
  MaxRead       \* bound: units one recv() or readv() asks for

WakeUpWQ == "wakeUpWQ_"         \* the FileWQ of the eventfd
ASSUME FilesAssumption == WakeUpWQ \notin Files
ASSUME BoundsAssumption == MaxData \in Nat /\ MaxRead \in Nat \ {0}

WQs == Files \cup {WakeUpWQ}

VARIABLES
  funcs_,       \* ICU::funcs_, requests of coroutines, a FIFO
  writes,       \* CPU threads between enqueue and write in queueInLoop
  list_,        \* ICU::list_, the WQs still to be scanned
  pc,           \* where the ICU thread stands in its loop
  registered,   \* epoll's interest set
  ready,        \* epoll's ready list
  avail,        \* avail[f]: units of data in f's socket
  arrived,      \* arrived[f]: units that ever arrived
  revents_, waked_, items_,     \* the fields of the FileWQs
  table,        \* files in fileWQPtrs_
  born,         \* files that were ever created
  co            \* what each coroutine is doing

loop == <<funcs_, writes, list_, pc>>
kernel == <<registered, ready, avail, arrived>>
wqs == <<revents_, waked_, items_>>
vars == <<loop, kernel, wqs, table, born, co>>

Item == [h_ : Coros, n : 1..MaxRead, recv : BOOLEAN]
Request == [op : {"add", "del"}, h_ : Coros, f : Files]
             \cup [op : {"wait"}, f : Files, item : Item]
Running == [op |-> "run"]
Awaiting(op, f) == [op |-> op, f |-> f]
Control == {Running} \cup [op : {"add", "added", "del", "deleted", "wait"}, f : Files]

\* The kernel's table and every FileAwaiter hold a shared_ptr to the FileWQ.
Exists(f) ==
  \/ f \in table
  \/ \E c \in Coros, op \in {"add", "added", "wait", "deleted"} :
       co[c] = Awaiting(op, f)

Init ==
  /\ funcs_ = <<>> /\ writes = 0 /\ list_ = {} /\ pc = "drain"
  /\ registered = {} /\ ready = {}
  /\ avail = [f \in Files |-> 0] /\ arrived = [f \in Files |-> 0]
  /\ revents_ = [f \in Files |-> FALSE]
  /\ waked_ \in [Files -> BOOLEAN]        \* not initialised by IRQAbs
  /\ items_ = [f \in Files |-> <<>>]
  /\ table = {} /\ born = {}
  /\ co = [c \in Coros |-> Running]
-----------------------------------------------------------------------------
(* Coroutines: queueInLoop enqueues the request, then the CPU thread that  *)
(* ran the coroutine writes the eventfd, when others may be far ahead.     *)

QueueInLoop(c, request, state) ==
  /\ co[c] = Running
  /\ funcs_' = Append(funcs_, request)
  /\ writes' = writes + 1
  /\ co' = [co EXCEPT ![c] = state]

OpenCall(c, f) ==
  /\ f \notin born
  /\ born' = born \cup {f}
  /\ QueueInLoop(c, [op |-> "add", h_ |-> c, f |-> f], Awaiting("add", f))
  /\ UNCHANGED <<list_, pc, kernel, wqs, table>>

ReadCall(c, f, item) ==
  /\ f \in table
  /\ item.h_ = c
  /\ QueueInLoop(c, [op |-> "wait", f |-> f, item |-> item], Awaiting("wait", f))
  /\ UNCHANGED <<list_, pc, kernel, wqs, table, born>>

\* A socket is closed once.
CloseCall(c, f) ==
  /\ f \in table
  /\ \A d \in Coros : co[d] # Awaiting("del", f)
  /\ QueueInLoop(c, [op |-> "del", h_ |-> c, f |-> f], Awaiting("del", f))
  /\ UNCHANGED <<list_, pc, kernel, wqs, table, born>>

\* updateIRQ goes on: fileWQPtrs_.insert(fd, fq), on a CPU thread.
Insert(c, f) ==
  /\ co[c] = Awaiting("added", f)
  /\ table' = table \cup {f}
  /\ co' = [co EXCEPT ![c] = Running]
  /\ UNCHANGED <<loop, kernel, wqs, born>>

\* removeIRQ goes on: fileWQPtrs_.erase(fd), on a CPU thread.
Erase(c, f) ==
  /\ co[c] = Awaiting("deleted", f)
  /\ table' = table \ {f}
  /\ co' = [co EXCEPT ![c] = Running]
  /\ UNCHANGED <<loop, kernel, wqs, born>>

WakeUpForgotten ==
  /\ writes > 0
  /\ writes' = writes - 1
  /\ UNCHANGED <<funcs_, list_, pc, kernel, wqs, table, born, co>>

WakeUp ==
  /\ writes > 0
  /\ writes' = writes - 1
  /\ ready' = ready \cup {WakeUpWQ}
  /\ UNCHANGED <<funcs_, list_, pc, registered, avail, arrived, wqs, table,
                 born, co>>
-----------------------------------------------------------------------------
(* The operating system: new data is a new edge.                           *)

Arrive(f) ==
  /\ f \in born
  /\ arrived[f] < MaxData
  /\ arrived' = [arrived EXCEPT ![f] = @ + 1]
  /\ avail' = [avail EXCEPT ![f] = @ + 1]
  /\ ready' = IF f \in registered THEN ready \cup {f} ELSE ready
  /\ UNCHANGED <<loop, registered, wqs, table, born, co>>
-----------------------------------------------------------------------------
(* ICU::loop: run the requests, scan list_, wait for epoll.                *)

Wake(c) == co' = [co EXCEPT ![c] = Running]

\* epoll_ctl(ADD) reports data that is there already.
RunAdd(request) ==
  /\ request.op = "add"
  /\ registered' = registered \cup {request.f}
  /\ ready' = IF avail[request.f] > 0 THEN ready \cup {request.f} ELSE ready
  /\ co' = [co EXCEPT ![request.h_] = Awaiting("added", request.f)]
  /\ UNCHANGED <<list_, avail, arrived, wqs>>

RunDel(request) ==
  /\ request.op = "del"
  /\ registered' = registered \ {request.f}
  /\ ready' = ready \ {request.f}
  /\ co' = [co EXCEPT ![request.h_] = Awaiting("deleted", request.f)]
  /\ UNCHANGED <<list_, avail, arrived, wqs>>

\* The closure of FileAwaiter: addWait, then wakeWQ.
RunWaitNoRescan(request) ==
  /\ request.op = "wait"
  /\ items_' = [items_ EXCEPT ![request.f] = Append(@, request.item)]
  /\ UNCHANGED <<list_, kernel, revents_, waked_, co>>

RunWait(request) ==
  /\ request.op = "wait"
  /\ items_' = [items_ EXCEPT ![request.f] = Append(@, request.item)]
  /\ list_' = IF waked_[request.f] THEN list_ ELSE list_ \cup {request.f}
  /\ waked_' = [waked_ EXCEPT ![request.f] = TRUE]
  /\ UNCHANGED <<kernel, revents_, co>>

RunFunc ==
  /\ pc = "drain"
  /\ funcs_ # <<>>
  /\ funcs_' = Tail(funcs_)
  /\ RunAdd(Head(funcs_)) \/ RunDel(Head(funcs_)) \/ RunWait(Head(funcs_))
  /\ UNCHANGED <<writes, pc, table, born>>

DrainDone ==
  /\ pc = "drain"
  /\ funcs_ = <<>>
  /\ pc' = "scan"
  /\ UNCHANGED <<funcs_, writes, list_, kernel, wqs, table, born, co>>

\* FileWQ::wakeup tries the first waiter while revents_ is set.
CanTry(f) == revents_[f] /\ items_[f] # <<>>

LowerOf(a, b) == IF a < b THEN a ELSE b
\* recv() that did not fill its buffer has seen the end of the data; readv()
\* does not look.
Exhausted(read, item) == item.recv /\ read < item.n

TryItem(f) ==
  LET item == Head(items_[f])
      read == LowerOf(avail[f], item.n)
  IN
  /\ pc = "scan" /\ f \in list_ /\ Exists(f)
  /\ CanTry(f)
  /\ IF avail[f] = 0
     THEN \* EWOULDBLOCK: exhausted, and the coroutine stays blocked
          /\ revents_' = [revents_ EXCEPT ![f] = FALSE]
          /\ UNCHANGED <<items_, avail, co>>
     ELSE /\ avail' = [avail EXCEPT ![f] = @ - read]
          /\ revents_' = [revents_ EXCEPT ![f] = ~Exhausted(read, item)]
          /\ items_' = [items_ EXCEPT ![f] = Tail(@)]
          /\ Wake(item.h_)
  /\ UNCHANGED <<loop, registered, ready, arrived, waked_, table, born>>

ScanNext(w) ==
  /\ pc = "scan" /\ w \in list_
  /\ w \in Files => Exists(w) /\ ~CanTry(w)
  /\ list_' = list_ \ {w}
  /\ waked_' = IF w \in Files THEN [waked_ EXCEPT ![w] = FALSE] ELSE waked_
  /\ UNCHANGED <<funcs_, writes, pc, kernel, revents_, items_, table, born, co>>

\* The pointer in list_ outlived its FileWQ; whatever the thread makes of the
\* freed memory, it is done with that entry if it survives.
ScanDangling(f) ==
  /\ pc = "scan" /\ f \in list_
  /\ ~Exists(f)
  /\ list_' = list_ \ {f}
  /\ UNCHANGED <<funcs_, writes, pc, kernel, wqs, table, born, co>>

ScanDone ==
  /\ pc = "scan"
  /\ list_ = {}
  /\ pc' = "poll"
  /\ UNCHANGED <<funcs_, writes, list_, kernel, wqs, table, born, co>>

\* epoll_wait hands out the ready list; each edge is reported once.
WaitIRQ ==
  /\ pc = "poll"
  /\ ready # {}
  /\ list_' = ready
  /\ ready' = {}
  /\ revents_' = [f \in Files |-> revents_[f] \/ f \in ready]
  /\ waked_' = [f \in Files |-> waked_[f] \/ f \in ready]
  /\ pc' = "drain"
  /\ UNCHANGED <<funcs_, writes, registered, avail, arrived, items_, table,
                 born, co>>

\* kPollTimeMs have passed.
WaitTimeout ==
  /\ pc = "poll"
  /\ ready = {}
  /\ pc' = "drain"
  /\ UNCHANGED <<funcs_, writes, list_, kernel, wqs, table, born, co>>
-----------------------------------------------------------------------------
Call == \E c \in Coros, f \in Files :
          \/ OpenCall(c, f) \/ CloseCall(c, f)
          \/ \E item \in Item : ReadCall(c, f, item)

Thread == \/ RunFunc \/ DrainDone \/ ScanDone \/ WaitIRQ
          \/ \E f \in Files : TryItem(f) \/ ScanDangling(f)
          \/ \E w \in WQs : ScanNext(w)

Next == \/ Call
        \/ \E c \in Coros, f \in Files : Insert(c, f) \/ Erase(c, f)
        \/ WakeUp \/ Thread \/ WaitTimeout
        \/ \E f \in Files : Arrive(f)

\* The ICU thread and the CPU threads run; the 1000 s time-out is not relied on.
Fairness == WF_vars(WakeUp) /\ WF_vars(Thread)

Spec == Init /\ [][Next]_vars
FairSpec == Spec /\ Fairness
-----------------------------------------------------------------------------
TypeOK ==
  /\ funcs_ \in Seq(Request)
  /\ writes \in Nat
  /\ list_ \subseteq WQs
  /\ pc \in {"drain", "scan", "poll"}
  /\ registered \subseteq Files
  /\ ready \subseteq registered \cup {WakeUpWQ}
  /\ avail \in [Files -> 0..MaxData] /\ arrived \in [Files -> 0..MaxData]
  /\ {revents_, waked_} \subseteq [Files -> BOOLEAN]
  /\ items_ \in [Files -> Seq(Item)]
  /\ table \subseteq born /\ born \subseteq Files
  /\ co \in [Coros -> Control]

\* Values have their types.  While the thread sleeps in epoll_wait no request
\* lies in funcs_ unless the write that will wake the thread is under way or has
\* been made.
NoLostRequest ==
  /\ TypeOK
  /\ pc = "poll" /\ funcs_ # <<>> => WakeUpWQ \in ready \/ writes > 0

\* While the thread sleeps, a file with a waiting coroutine has no readiness
\* left in revents_, which nobody would look at, and no unread data without a
\* fresh edge: an edge is never swallowed.
NoForgottenReadiness ==
  pc = "poll" => \A f \in registered : items_[f] # <<>> =>
    ~revents_[f] /\ (avail[f] > 0 => f \in ready)

\* Data wakes the coroutine that has waited longest on the socket, unless the
\* socket is closed under it.
Waits(c, f) == items_[f] # <<>> /\ Head(items_[f]).h_ = c
DataIsDelivered ==
  \A c \in Coros, f \in Files :
    Waits(c, f) /\ avail[f] > 0 ~> ~Waits(c, f) \/ f \notin registered

\* The thread scans only FileWQs that exist.
ScanExists == pc = "scan" => \A f \in list_ \ {WakeUpWQ} : Exists(f)
=============================================================================
