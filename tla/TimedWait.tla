----------------------------- MODULE TimedWait -----------------------------
(***************************************************************************)
(* Waiting on one socket, with or without a time limit, and sleeping: the  *)
(* FileWQ of the socket (FileWQ.cpp), the TimeWQ of its ICU (TimeWQ.cpp),  *)
(* the closures of FileAwaiter and TimeAwaiter that pair an entry of one   *)
(* with an entry of the other (CoKernel.cpp), and the transfer callbacks   *)
(* of connect(), recv(), readv() and writev() (ASocket.cpp).               *)
(*                                                                         *)
(* Data is counted, not carried.  Time is relative: what is kept of a      *)
(* deadline is the number of ticks that are left.  An entry of a list is   *)
(* named by its coroutine, which has at most one.  That a request reaches  *)
(* the ICU thread through the eventfd is the business of module ICULoop.   *)
(***************************************************************************)
EXTENDS Integers, Sequences, SequencesExt

CONSTANTS
  Coros,        \* coroutines
  Programs,     \* the programs to consider: records of the fields below
  Watched       \* coroutines that the liveness properties are stated for; no
                \* action tells the users of a program apart

VARIABLE
  program       \* the one that runs

Users == program.users          \* the coroutines that call something
Ops == program.ops              \* the operations they use
TimedOps == program.timed       \* those of the socket that are given a time limit
MaxData == program.data         \* bound: units in one of the socket's two buffers
MaxTicks == program.ticks       \* bound: length of a sleep or a time limit

AllOps == {"connect", "recv", "readv", "writev", "sleep"}
ASSUME ProgramsAssumption == \A p \in Programs :
  /\ p.users \subseteq Coros
  /\ p.timed \subseteq p.ops /\ p.ops \subseteq AllOps
  /\ {p.data, p.ticks} \subseteq Nat \ {0}

VARIABLES
  link,         \* state of the socket's connection
  avail, eof,   \* units that can be received, the peer has shut down
  space,        \* units that fit into the send buffer
  starved,      \* a write found the send buffer full
  edge,         \* epoll's ready list
  armed,        \* ticks until the timerfd expires
  funcs_,       \* ICU::funcs_, the coroutines whose closures are queued
  pc, list_,    \* the ICU thread: its place in the loop, the WQs to scan
  revents_, waked_, items_,     \* the FileWQ
  timers,       \* TimeWQ::items_
  call,         \* the call each coroutine made last
  co,           \* what each coroutine is doing
  erasedTwice   \* an iterator was passed to erase() a second time

socket == <<link, avail, eof, space, starved>>
fileWQ == <<revents_, waked_, items_>>
timeWQ == <<armed, timers>>
coros == <<call, co>>
vars == <<socket, edge, funcs_, pc, list_, fileWQ, timeWQ, coros, erasedTwice>>

\* A list whose entries for the coroutines in `gone' were erased.
Without(seq, gone) ==
  LET kept[i \in 0..Len(seq)] ==
        IF i = 0 THEN <<>>
        ELSE IF seq[i] \in gone THEN kept[i - 1] ELSE Append(kept[i - 1], seq[i])
  IN  kept[Len(seq)]

Disarmed == MaxTicks + 1
Failed == -1

Call == [op : Ops \cup {"none"}, n : 0..MaxData, limit : 0..MaxTicks, left : 0..MaxTicks,
         done : 0..MaxData, pushed : 0..MaxData, ret : Failed..MaxData]
NewCall(op, n, limit, left) ==
  [op |-> op, n |-> n, limit |-> limit, left |-> left,
   done |-> 0, pushed |-> 0, ret |-> 0]
NoCall == NewCall("none", 0, 0, 0)

\* Events that FileAwaiter waits for, and those epoll sees on the socket.  A
\* socket that was never connected is reported writable.
EventsOf(c) == IF call[c].op \in {"recv", "readv"} THEN {"IN"} ELSE {"OUT"}
Mask ==
  CASE link = "new" -> {"OUT"}
    [] link = "connecting" -> {}
    [] link = "refused" -> {"IN", "OUT", "RDHUP"}
    [] link = "up" -> {e \in {"IN", "OUT", "RDHUP"} :
                         \/ e = "IN" /\ (avail > 0 \/ eof)
                         \/ e = "OUT" /\ space > 0
                         \/ e = "RDHUP" /\ eof}

\* The ADD of the registration has just been carried out.
Init ==
  /\ program \in Programs
  /\ link = IF "connect" \in Ops THEN "new" ELSE "up"
  /\ avail = 0 /\ eof = FALSE /\ space = MaxData /\ starved = FALSE
  /\ edge = {"file"} /\ armed = Disarmed
  /\ funcs_ = <<>> /\ pc = "drain" /\ list_ = <<>>
  /\ revents_ = {} /\ waked_ \in BOOLEAN /\ items_ = <<>>
  /\ timers = <<>>
  /\ call = [c \in Coros |-> NoCall]
  /\ co = [c \in Coros |-> "run"]
  /\ erasedTwice = FALSE
-----------------------------------------------------------------------------
(* Coroutines on CPU threads.                                              *)

QueueInLoop(c, request) ==
  /\ co[c] = "run"
  /\ co' = [co EXCEPT ![c] = "asked"]
  /\ call' = [call EXCEPT ![c] = request]
  /\ funcs_' = Append(funcs_, c)
  /\ UNCHANGED <<avail, eof, space, starved, edge, pc, list_, fileWQ, timeWQ,
                 erasedTwice>>

\* TimeAwaiter: the deadline is fixed before the request is queued.
SleepCall(c, ticks) ==
  /\ "sleep" \in Ops
  /\ QueueInLoop(c, NewCall("sleep", 0, 0, ticks))
  /\ UNCHANGED link

LimitsOf(op) == IF op \in TimedOps THEN 1..MaxTicks ELSE {0}

\* ::connect answered EINPROGRESS; a connect() that fails at once waits for
\* nothing.
ConnectCall(c, limit) ==
  /\ "connect" \in Ops
  /\ link = "new"
  /\ link' = "connecting"
  /\ QueueInLoop(c, NewCall("connect", 0, limit, 0))

TransferCall(c, op, n, limit) ==
  /\ op \in Ops \cap {"recv", "readv", "writev"}
  /\ link # "new"
  /\ QueueInLoop(c, NewCall(op, n, limit, 0))
  /\ UNCHANGED link
-----------------------------------------------------------------------------
(* The operating system.  Every registration is edge triggered.            *)

SocketChanges ==
  /\ edge' = edge \cup {"file"}
  /\ UNCHANGED <<funcs_, pc, list_, fileWQ, timeWQ, coros, erasedTwice>>

Established ==
  /\ link = "connecting"
  /\ link' = "up"
  /\ SocketChanges /\ UNCHANGED <<avail, eof, space, starved>>

Refused ==
  /\ link = "connecting"
  /\ link' = "refused" /\ eof' = TRUE
  /\ SocketChanges /\ UNCHANGED <<avail, space, starved>>

\* Bound: without an operation that transfers data the peer stays silent.
Transfers == Ops \cap {"recv", "readv", "writev"} # {}

Arrive ==
  /\ Transfers
  /\ link = "up" /\ ~eof /\ avail < MaxData
  /\ avail' = avail + 1
  /\ SocketChanges /\ UNCHANGED <<link, eof, space, starved>>

PeerShutsDown ==
  /\ Transfers
  /\ link = "up" /\ ~eof
  /\ eof' = TRUE
  /\ SocketChanges /\ UNCHANGED <<link, avail, space, starved>>

\* Room in the send buffer is an edge only after a write went without.
PeerReads ==
  /\ link = "up" /\ space < MaxData
  /\ space' = space + 1
  /\ starved' = FALSE
  /\ edge' = IF starved THEN edge \cup {"file"} ELSE edge
  /\ UNCHANGED <<link, avail, eof, funcs_, pc, list_, fileWQ, timeWQ, coros,
                 erasedTwice>>

Less(ticks) == IF ticks = 0 THEN 0 ELSE ticks - 1

Tick ==
  /\ armed # Disarmed \/ \E c \in Coros : call[c].left > 0
  /\ call' = [c \in Coros |-> [call[c] EXCEPT !.left = Less(@)]]
  /\ armed' = IF armed = Disarmed THEN Disarmed ELSE Less(armed)
  /\ UNCHANGED <<socket, edge, funcs_, pc, list_, fileWQ, timers, co, erasedTwice>>

TimerExpires ==
  /\ armed = 0
  /\ armed' = Disarmed
  /\ edge' = edge \cup {"timer"}
  /\ UNCHANGED <<socket, funcs_, pc, list_, fileWQ, timers, coros, erasedTwice>>
-----------------------------------------------------------------------------
(* The ICU thread runs a request: the closures of the two awaiters.        *)

\* TimeWQ::addWait arms the timerfd for an entry at the front, which also
\* clears an expiration nobody has read.
AtFrontWhenAlone(ticks) == timers = <<>>
AtFront(ticks) == timers = <<>> \/ call[Head(timers)].left > ticks

AddTimer(c, ticks) ==
  LET later == SelectInSeq(timers, LAMBDA d : call[d].left > ticks)
      place == IF later = 0 THEN Len(timers) + 1 ELSE later
  IN
  /\ timers' = InsertAt(timers, place, c)
  /\ IF AtFront(ticks)
     THEN armed' = ticks /\ edge' = edge \ {"timer"}
     ELSE UNCHANGED <<armed, edge>>
  /\ call' = [call EXCEPT ![c].left = ticks]

RunSleep(c) ==
  /\ call[c].op = "sleep"
  /\ AddTimer(c, call[c].left)
  /\ UNCHANGED <<fileWQ, list_>>

\* addWait to the FileWQ, paired with a timer when there is a limit, and wakeWQ.
RunWait(c) ==
  /\ call[c].op # "sleep"
  /\ IF call[c].limit > 0 THEN AddTimer(c, call[c].limit)
                          ELSE UNCHANGED <<timeWQ, edge, call>>
  /\ items_' = Append(items_, c)
  /\ list_' = IF waked_ THEN list_ ELSE Append(list_, "file")
  /\ waked_' = TRUE
  /\ UNCHANGED revents_

RunFunc ==
  /\ pc = "drain"
  /\ funcs_ # <<>>
  /\ funcs_' = Tail(funcs_)
  /\ co' = [co EXCEPT ![Head(funcs_)] = "wait"]
  /\ RunSleep(Head(funcs_)) \/ RunWait(Head(funcs_))
  /\ UNCHANGED <<socket, pc, erasedTwice>>

DrainDone ==
  /\ pc = "drain"
  /\ funcs_ = <<>>
  /\ pc' = "scan"
  /\ UNCHANGED <<socket, edge, funcs_, list_, fileWQ, timeWQ, coros, erasedTwice>>
-----------------------------------------------------------------------------
(* FileWQ::wakeup: the callbacks of the entries that revents_ concerns.    *)

Concerned(c) == revents_ \cap (EventsOf(c) \cup {"RDHUP"}) # {}
Scanning(wq) == pc = "scan" /\ list_ # <<>> /\ Head(list_) = wq
\* The iterator has passed the entries that revents_ does not concern, and
\* stays on one that blocked.
Current(c) ==
  /\ Scanning("file")
  /\ LET i == SelectInSeq(items_, Concerned) IN i > 0 /\ items_[i] = c

TimerKept(c) == UNCHANGED <<timers, erasedTwice>>
\* The callback of an entry with a limit erases the timer, blocked or not.
TimerErased(c) ==
  IF call[c].limit > 0
  THEN /\ timers' = Without(timers, {c})
       /\ erasedTwice' = (erasedTwice \/ ~Contains(timers, c))
  ELSE UNCHANGED <<timers, erasedTwice>>

Callback(c, exhausted) ==
  /\ revents_' = IF exhausted THEN revents_ \ EventsOf(c) ELSE revents_
  /\ TimerErased(c)
  /\ UNCHANGED <<link, eof, edge, funcs_, pc, list_, waked_, armed>>

Blocked(c) ==
  /\ Callback(c, TRUE)
  /\ UNCHANGED <<items_, co>>

\* A call that is over has no deadline any more.
Over(outcome) == [outcome EXCEPT !.limit = 0, !.left = 0]

Finished(c, outcome, exhausted) ==
  /\ Callback(c, exhausted)
  /\ items_' = Without(items_, {c})
  /\ call' = [call EXCEPT ![c] = Over(outcome)]
  /\ co' = [co EXCEPT ![c] = "run"]

\* The value of getsockopt() is returned, not the error it fetched.
TryConnect(c) ==
  /\ Current(c) /\ call[c].op = "connect"
  /\ Finished(c, [call[c] EXCEPT !.ret = 0], FALSE)
  /\ UNCHANGED <<avail, space, starved>>

\* recv() that did not fill its buffer has seen the end of the data; readv()
\* does not look.
ShortRead(c, size) == call[c].op = "recv" /\ size < call[c].n

TryRead(c) ==
  LET size == Min({avail, call[c].n}) IN
  /\ Current(c) /\ call[c].op \in {"recv", "readv"}
  /\ avail' = avail - size
  /\ IF avail = 0 /\ ~eof
     THEN Blocked(c) /\ UNCHANGED call
     ELSE Finished(c, [call[c] EXCEPT !.ret = size], ShortRead(c, size))
  /\ UNCHANGED <<space, starved>>

PeerIgnored == link = "refused"
\* A socket whose peer has shut down is not written to.
PeerGone == "RDHUP" \in revents_ \/ link = "refused"

WrittenAnew(c, size) ==
  [call[c] EXCEPT !.done = size, !.pushed = @ + size, !.ret = size]
\* sendBytes, and what has really gone into the socket.
Written(c, size) ==
  [call[c] EXCEPT !.done = @ + size, !.pushed = @ + size, !.ret = call[c].done + size]

DrainedWhenDone(c) == TRUE
OutputDrained(c) == FALSE

TryWrite(c) ==
  LET size == Min({space, call[c].n - call[c].done})
      complete == call[c].done + size = call[c].n
  IN
  /\ Current(c) /\ call[c].op = "writev"
  /\ \/ /\ PeerGone
        /\ Finished(c, [call[c] EXCEPT !.ret = Failed], FALSE)
        /\ UNCHANGED <<space, starved>>
     \/ /\ ~PeerGone /\ (link = "connecting" \/ space = 0)     \* EWOULDBLOCK
        /\ Blocked(c)
        /\ starved' = TRUE
        /\ UNCHANGED <<call, space>>
     \/ /\ ~PeerGone /\ link = "up" /\ space > 0
        /\ space' = space - size
        /\ IF complete
           THEN Finished(c, Written(c, size), OutputDrained(c)) /\ UNCHANGED starved
           ELSE /\ Blocked(c)
                /\ call' = [call EXCEPT ![c] = Written(c, size)]
                /\ starved' = TRUE
  /\ UNCHANGED avail

FileScanned ==
  /\ Scanning("file")
  /\ \A c \in ToSet(items_) : ~Concerned(c)
  /\ list_' = Tail(list_)
  /\ waked_' = FALSE
  /\ UNCHANGED <<socket, edge, funcs_, pc, revents_, items_, timeWQ, coros,
                 erasedTwice>>
-----------------------------------------------------------------------------
(* TimeWQ::wakeup, then the next round.                                    *)

\* The timerfd is set for the first deadline that has not passed.
Rearmed(rest) == IF rest = <<>> THEN armed ELSE call[Head(rest)].left

TimersScanned ==
  LET due == {c \in ToSet(timers) : call[c].left = 0}
      rest == Without(timers, due)
      limited == {c \in due : call[c].limit > 0}
  IN
  /\ Scanning("timer")
  /\ timers' = rest
  /\ items_' = Without(items_, limited)                             \* their cb_
  /\ erasedTwice' = (erasedTwice \/ ~(limited \subseteq ToSet(items_)))
  /\ call' = [c \in Coros |->
                CASE c \in limited -> Over([call[c] EXCEPT !.ret = Failed])
                  [] c \in due \ limited -> NoCall        \* a sleep returns nothing
                  [] OTHER -> call[c]]
  /\ co' = [c \in Coros |-> IF c \in due THEN "run" ELSE co[c]]
  /\ edge' = edge \ {"timer"}                                    \* readTimerfd
  /\ armed' = Rearmed(rest)
  /\ list_' = Tail(list_)
  /\ UNCHANGED <<socket, funcs_, pc, revents_, waked_>>

ScanDone ==
  /\ pc = "scan"
  /\ list_ = <<>>
  /\ pc' = "poll"
  /\ UNCHANGED <<socket, edge, funcs_, list_, fileWQ, timeWQ, coros, erasedTwice>>

Reports == {<<>>, <<"file">>, <<"timer">>, <<"file", "timer">>, <<"timer", "file">>}

\* epoll_wait reports an edge with what holds of the socket now, if anything.
WaitIRQ ==
  LET reported == {w \in edge : w = "file" => Mask # {}} IN
  /\ pc = "poll"
  /\ reported # {} \/ funcs_ # <<>>
  /\ list_' \in {order \in Reports : ToSet(order) = reported}
  /\ edge' = {}
  /\ revents_' = IF "file" \in reported THEN revents_ \cup Mask ELSE revents_
  /\ waked_' = (waked_ \/ "file" \in reported)
  /\ pc' = "drain"
  /\ UNCHANGED <<socket, funcs_, items_, timeWQ, coros, erasedTwice>>
-----------------------------------------------------------------------------
Request == \E c \in Users :
  \/ \E ticks \in 1..MaxTicks : SleepCall(c, ticks)
  \/ \E limit \in LimitsOf("connect") : ConnectCall(c, limit)
  \/ \E op \in Ops, n \in 1..MaxData : \E limit \in LimitsOf(op) :
       TransferCall(c, op, n, limit)

Thread ==
  \/ RunFunc \/ DrainDone \/ FileScanned \/ TimersScanned \/ ScanDone \/ WaitIRQ
  \/ \E c \in Coros : TryConnect(c) \/ TryRead(c) \/ TryWrite(c)

Network == Established \/ Refused \/ Arrive \/ PeerShutsDown \/ PeerReads

Next == /\ Request \/ Thread \/ Network \/ Tick \/ TimerExpires
        /\ UNCHANGED program

\* The ICU thread runs, time passes and the timerfd expires; of the network
\* nothing is expected.
Fairness == WF_vars(Thread) /\ WF_vars(Tick) /\ WF_vars(TimerExpires)

Spec == Init /\ [][Next]_<<program, vars>>
FairSpec == Spec /\ Fairness
-----------------------------------------------------------------------------
TypeOK ==
  /\ link \in {"new", "connecting", "up", "refused"}
  /\ avail \in 0..MaxData /\ space \in 0..MaxData
  /\ {eof, starved, waked_, erasedTwice} \subseteq BOOLEAN
  /\ edge \subseteq {"file", "timer"}
  /\ armed \in 0..Disarmed
  /\ {funcs_, items_, timers} \subseteq Seq(Coros)
  /\ pc \in {"drain", "scan", "poll"}
  /\ list_ \in Seq({"file", "timer"})
  /\ revents_ \subseteq {"IN", "OUT", "RDHUP"}
  /\ call \in [Coros -> Call]
  /\ co \in [Coros -> {"run", "asked", "wait"}]

\* A coroutine that waits has exactly the entries it needs, one for the event
\* and one for the limit, and one that runs has none: whichever of the two
\* callbacks of FileAwaiter comes first takes the other entry away, also when
\* both the event and the deadline lie in the same list_.
Entries(c, seq) == Cardinality({i \in DOMAIN seq : seq[i] = c})
EntryPerWaiter ==
  /\ TypeOK
  /\ ~erasedTwice
  /\ \A c \in Coros :
       LET waits == co[c] = "wait"
           sleeps == call[c].op = "sleep"
       IN
       /\ Entries(c, items_) = IF waits /\ ~sleeps THEN 1 ELSE 0
       /\ Entries(c, timers) = IF waits /\ (sleeps \/ call[c].limit > 0) THEN 1 ELSE 0

\* While the ICU thread sleeps nothing that should wake it is forgotten: the
\* timerfd is armed for the earliest deadline or earlier, or its expiration is
\* still to be reported, whatever timers were added at the front or erased by
\* an event; nobody waits for an event that revents_ holds, and what holds of
\* the socket now is a fresh edge.
TimerArmed ==
  timers # <<>> => "timer" \in edge \/ \A c \in ToSet(timers) : armed <= call[c].left
EdgesKept ==
  \A c \in ToSet(items_) :
    /\ ~Concerned(c)
    /\ Mask \cap (EventsOf(c) \cup {"RDHUP"}) # {} => "file" \in edge
NothingForgotten == pc = "poll" => TimerArmed /\ EdgesKept

\* When writev() returns a count, exactly the units it was asked to write have
\* gone out, over any number of partial writes and of writers in turn.
WriteExact ==
  \A c \in Coros : co[c] = "run" /\ call[c].op = "writev" /\ call[c].ret # Failed =>
    call[c].ret = call[c].n /\ call[c].pushed = call[c].n

\* The scan of the waiters ends: no callback blocks for ever on an event that
\* stays set.
ScanEnds == pc = "scan" ~> pc = "poll"

\* A sleep, and a call with a time limit, returns whatever the peer does; room
\* in the send buffer gets to the writer that has waited longest.
NextWriter(c) ==
  LET i == SelectInSeq(items_, LAMBDA d : call[d].op = "writev")
  IN i > 0 /\ items_[i] = c
Owed(c) ==
  \/ co[c] # "run" /\ (call[c].op = "sleep" \/ call[c].limit > 0)
  \/ NextWriter(c) /\ link = "up" /\ space > 0
OwedIsGiven == \A c \in Watched : Owed(c) ~> ~Owed(c)

\* A connect() that returned 0 has connected.
ConnectedMeansUp ==
  \A c \in Coros : co[c] = "run" /\ call[c].op = "connect" /\ call[c].ret = 0 =>
    link = "up"
=============================================================================
