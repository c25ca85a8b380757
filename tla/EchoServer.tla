----------------------------- MODULE EchoServer -----------------------------
(***************************************************************************)
(* The echo server (ser.cpp): the coroutine of Acceptor::run() takes       *)
(* clients from the listen queue and starts a fiber with an EchoCtx for    *)
(* each; a process has a limited number of descriptors.                    *)
(***************************************************************************)
EXTENDS Connection

CONSTANTS
  Clients,
  Nobody,       \* no client
  FdLimit,      \* descriptors that are left for clients
  Data          \* what every client sends

ASSUME NobodyAssumption == Nobody \notin Clients
ASSUME FdLimitAssumption == FdLimit \in Nat \ {0}
ASSUME DataAssumption == Data \in Seq(Nat)

VARIABLES
  backlog,      \* the listen queue, a sequence of clients
  edge,         \* a connection has come in and epoll has not reported it
  revents_,     \* EPOLLIN in revents_ of the listening socket
  acceptor,     \* where Acceptor::run() stands
  clifd,        \* the client whose descriptor accept() is about to return
  open,         \* clients for whom the process has a descriptor open
  conn, sent,   \* each client's connection and how many bytes it has sent
  echo,         \* where each client's EchoCtx::run() stands
  buffers, left, ret  \* its buffer, and its transfer: units to go, result

listener == <<backlog, edge, revents_>>
echoes == <<echo, buffers, left, ret>>
serverVars == <<listener, acceptor, clifd, open, conn, sent, echoes>>

ServerInit ==
  /\ backlog = <<>> /\ edge = FALSE /\ revents_ = FALSE
  /\ acceptor = "accept" /\ clifd = Nobody
  /\ open = {}
  /\ conn = [c \in Clients |-> NewConnection("none")]
  /\ sent = [c \in Clients |-> 0]
  /\ echo = [c \in Clients |-> "none"]
  /\ buffers = [c \in Clients |-> <<>>]
  /\ left = [c \in Clients |-> 0] /\ ret = [c \in Clients |-> Pending]
-----------------------------------------------------------------------------
(* The clients.                                                            *)

Connect(c) ==
  /\ conn[c].fd = "none"
  /\ conn' = [conn EXCEPT ![c].fd = "open"]
  /\ backlog' = Append(backlog, c) /\ edge' = TRUE
  /\ UNCHANGED <<revents_, acceptor, clifd, open, sent, echoes>>

ClientSends(c) ==
  /\ conn[c].fd = "open" /\ ~conn[c].eof /\ sent[c] < Len(Data)
  /\ conn' = [conn EXCEPT ![c].in = Append(@, Data[sent[c] + 1])]
  /\ sent' = [sent EXCEPT ![c] = @ + 1]
  /\ UNCHANGED <<listener, acceptor, clifd, open, echoes>>

ClientShutsDown(c) ==
  /\ conn[c].fd = "open" /\ ~conn[c].eof
  /\ conn' = [conn EXCEPT ![c].eof = TRUE]
  /\ UNCHANGED <<listener, acceptor, clifd, open, sent, echoes>>

\* The descriptor of an accepted client is closed.
CloseFd(c) ==
  /\ conn' = [conn EXCEPT ![c].fd = "closed"]
  /\ open' = open \ {c}
-----------------------------------------------------------------------------
(* Acceptor::run() and accept().                                           *)

ReportConnection ==
  /\ edge /\ edge' = FALSE /\ revents_' = TRUE
  /\ UNCHANGED <<backlog, acceptor, clifd, open, conn, sent, echoes>>

\* The ICU thread calls accept4() while the listener counts as readable.
Trying == acceptor = "accept" /\ revents_

NothingToAccept ==
  /\ Trying /\ backlog = <<>>
  /\ revents_' = FALSE
  /\ UNCHANGED <<backlog, edge, acceptor, clifd, open, conn, sent, echoes>>

\* As if every failure of accept4() meant that the queue is empty.
NoDescriptorExhausts ==
  /\ Trying /\ backlog # <<>> /\ Cardinality(open) >= FdLimit
  /\ revents_' = FALSE
  /\ UNCHANGED <<backlog, edge, acceptor, clifd, open, conn, sent, echoes>>

\* EMFILE: accept() returns -1, and run() calls it again.
NoDescriptor ==
  /\ Trying /\ backlog # <<>> /\ Cardinality(open) >= FdLimit
  /\ acceptor' = "failed"
  /\ UNCHANGED <<listener, clifd, open, conn, sent, echoes>>

Accept ==
  /\ Trying /\ backlog # <<>> /\ Cardinality(open) < FdLimit
  /\ clifd' = Head(backlog) /\ backlog' = Tail(backlog)
  /\ open' = open \cup {Head(backlog)}
  /\ acceptor' = "register"
  /\ UNCHANGED <<edge, revents_, conn, sent, echoes>>

\* As if accept() returned -1 without close().
RegisterFailsOpen ==
  /\ acceptor = "register"
  /\ acceptor' = "failed" /\ clifd' = Nobody
  /\ UNCHANGED <<listener, open, conn, sent, echoes>>

\* updateIRQ() may fail (IRQTable).
RegisterFails ==
  /\ acceptor = "register"
  /\ CloseFd(clifd)
  /\ acceptor' = "failed" /\ clifd' = Nobody
  /\ UNCHANGED <<listener, sent, echoes>>

AcceptAgain ==
  /\ acceptor = "failed"
  /\ acceptor' = "accept"
  /\ UNCHANGED <<listener, clifd, open, conn, sent, echoes>>

\* __connCB starts a fiber for the client.
StartEcho ==
  /\ acceptor = "register"
  /\ echo' = [echo EXCEPT ![clifd] = "recv"]
  /\ acceptor' = "accept" /\ clifd' = Nobody
  /\ UNCHANGED <<listener, open, conn, sent, buffers, left, ret>>

Acceptor ==
  \/ NothingToAccept \/ NoDescriptor \/ Accept
  \/ RegisterFails \/ AcceptAgain \/ StartEcho
-----------------------------------------------------------------------------
(* EchoCtx::run().                                                         *)

Move(c, to) == echo' = [echo EXCEPT ![c] = to]
Result(c, n) == ret' = [ret EXCEPT ![c] = n]

Receive(c) ==
  /\ echo[c] = "recv" /\ ret[c] = Pending /\ CanReceive(conn[c], buffers[c])
  /\ conn' = [conn EXCEPT ![c] = AfterRead(@, buffers[c])]
  /\ buffers' = [buffers EXCEPT ![c] = Filled(conn[c], @)]
  /\ Result(c, Readable(conn[c], buffers[c]))
  /\ UNCHANGED <<listener, acceptor, clifd, open, sent, echo, left>>

Received(c) ==
  /\ echo[c] = "recv" /\ ret[c] # Pending
  /\ IF ret[c] > 0
     THEN /\ Move(c, "send")
          /\ left' = [left EXCEPT ![c] = Len(buffers[c])]
          /\ Result(c, Pending)
     ELSE Move(c, "close") /\ UNCHANGED <<left, ret>>
  /\ UNCHANGED <<listener, acceptor, clifd, open, conn, sent, buffers>>

Transmit(c) ==
  /\ echo[c] = "send" /\ ret[c] = Pending
  /\ \/ conn[c].hup /\ Result(c, Failed) /\ UNCHANGED <<conn, left>>
     \/ \E n \in 1..left[c] :
          /\ ~conn[c].hup
          /\ conn' = [conn EXCEPT ![c] = AfterWrite(@, buffers[c], left[c], n)]
          /\ left' = [left EXCEPT ![c] = @ - n]
          /\ IF n = left[c] THEN Result(c, Len(buffers[c])) ELSE UNCHANGED ret
  /\ UNCHANGED <<listener, acceptor, clifd, open, sent, echo, buffers>>

ShutdownReported(c) ==
  /\ Unreported(conn[c]) /\ echo[c] # "none"
  /\ conn' = [conn EXCEPT ![c].hup = TRUE]
  /\ UNCHANGED <<listener, acceptor, clifd, open, sent, echoes>>

\* As if run() ended when its client could not be answered.
SentOrLeave(c) ==
  /\ echo[c] = "send" /\ ret[c] # Pending
  /\ buffers' = [buffers EXCEPT ![c] = AfterSend(@, ret[c])]
  /\ Move(c, IF ret[c] = Failed THEN "done" ELSE "recv")
  /\ Result(c, Pending)
  /\ UNCHANGED <<listener, acceptor, clifd, open, conn, sent, left>>

\* The result of send() is not looked at.
Sent(c) ==
  /\ echo[c] = "send" /\ ret[c] # Pending
  /\ buffers' = [buffers EXCEPT ![c] = AfterSend(@, ret[c])]
  /\ Move(c, "recv")
  /\ Result(c, Pending)
  /\ UNCHANGED <<listener, acceptor, clifd, open, conn, sent, left>>

Close(c) ==
  /\ echo[c] = "close"
  /\ CloseFd(c) /\ Move(c, "done")
  /\ UNCHANGED <<listener, acceptor, clifd, sent, buffers, left, ret>>

Echo(c) ==
  \/ Receive(c) \/ Received(c) \/ Transmit(c) \/ Sent(c) \/ Close(c)
  \/ ShutdownReported(c)

Client(c) == Connect(c) \/ ClientSends(c) \/ ClientShutsDown(c)

ServerNext == ReportConnection \/ Acceptor \/ \E c \in Clients : Echo(c) \/ Client(c)

\* epoll reports, the coroutines and the transfers go on; the clients need not
\* do anything but take their echo.
ServerSpec == ServerInit /\ [][ServerNext]_serverVars
FairServerSpec ==
  /\ ServerSpec
  /\ WF_serverVars(ReportConnection) /\ WF_serverVars(Acceptor)
  /\ \A c \in Clients : WF_serverVars(Echo(c))
-----------------------------------------------------------------------------
ServerTypeOK ==
  /\ backlog \in Seq(Clients) /\ {edge, revents_} \subseteq BOOLEAN
  /\ acceptor \in {"accept", "register", "failed"} /\ clifd \in Clients \cup {Nobody}
  /\ open \subseteq Clients
  /\ conn \in [Clients -> ConnectionType] /\ sent \in [Clients -> 0..Len(Data)]
  /\ echo \in [Clients -> {"none", "recv", "send", "close", "done"}]
  /\ buffers \in [Clients -> Seq(Int)] /\ \A c \in Clients : Len(buffers[c]) <= BufCap
  /\ left \in [Clients -> 0..BufCap] /\ ret \in [Clients -> {Pending, Failed} \cup 0..BufCap]

\* Values have their types.  Every open descriptor of a client is in the hands
\* of accept() or of an EchoCtx that has yet to close it, of one and only one
\* of them, whatever failed on the way; none is left to nobody.
EveryDescriptorIsOwned ==
  /\ ServerTypeOK
  /\ Cardinality(open) <= FdLimit
  /\ open = {c \in Clients : echo[c] \in {"recv", "send", "close"}} \cup ({clifd} \ {Nobody})
  /\ clifd # Nobody => echo[clifd] = "none"

\* A client is given what it sent, without gap, repetition or change of order.
EchoesInOrder ==
  \A c \in Clients : IsPrefix(conn[c].out, SubSeq(Data, 1, sent[c]))

\* As long as descriptors become free again and again, no client stays in the
\* listen queue, although an edge is reported once and run() calls accept()
\* again at once after it has failed.
PendingIsAccepted ==
  []<>(Cardinality(open) < FdLimit) =>
    \A c \in Clients : c \in Range(backlog) ~> c \notin Range(backlog)

\* What a client sends comes back once it is accepted, unless it shuts down;
\* then its descriptor becomes free.
EchoedOrClosed ==
  \A c \in Clients :
    /\ echo[c] # "none" ~> Len(conn[c].out) = sent[c] \/ conn[c].eof
    /\ conn[c].eof /\ c \in open ~> c \notin open
=============================================================================
