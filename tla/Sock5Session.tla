---------------------------- MODULE Sock5Session ----------------------------
(***************************************************************************)
(* One SOCKS5 session (Sock5Ctxt.h): the coroutine run(), which reads the  *)
(* client's requests and relays what follows them, and the coroutine       *)
(* handleRLink(), which relays the answers of the remote side, over two    *)
(* Connections and two Buffers.                                            *)
(*                                                                         *)
(* A transfer is begun by a coroutine and carried out by the ICU thread;   *)
(* `result' holds what it returns until the coroutine goes on.  Between    *)
(* two awaits a coroutine takes one step: the proxy has one CPU            *)
(* (main.cpp).                                                             *)
(***************************************************************************)
EXTENDS Connection

CONSTANTS
  Scripts,      \* records: the bytes a client sends (stream) and whether it is
                \* polite: then it sends proper messages, which end at `ends',
                \* each as a whole and after the answer to the last
  RemoteData    \* what the remote side may send

Byte == 0..255

\* Proper messages: as many methods as announced, the one without
\* authentication among them; an address, or a name as long as announced.
Greeting(bytes) ==
  /\ Len(bytes) > 2 /\ bytes[1] = 5 /\ bytes[2] = Len(bytes) - 2
  /\ \E i \in 3..Len(bytes) : bytes[i] = 0
Request(bytes) ==
  \/ Len(bytes) = 10 /\ bytes[4] = 1
  \/ Len(bytes) > 7 /\ bytes[4] = 3 /\ bytes[5] = Len(bytes) - 7 /\ bytes[5] <= 127

ASSUME ScriptsAssumption == \A c \in Scripts :
  /\ c.polite \in BOOLEAN /\ c.stream \in Seq(Byte)
  /\ c.polite =>
       /\ c.ends \in Seq(1..Len(c.stream)) /\ Len(c.ends) >= 2
       /\ \A i, j \in DOMAIN c.ends : i < j => c.ends[i] < c.ends[j]
       /\ c.ends[1] <= BufCap /\ c.ends[2] - c.ends[1] <= BufCap
       /\ Greeting(SubSeq(c.stream, 1, c.ends[1]))
       /\ Request(SubSeq(c.stream, c.ends[1] + 1, c.ends[2]))
ASSUME RemoteAssumption == RemoteData \in Seq(Int)
\* The answers fit into a Buffer.
ASSUME AnswerAssumption == BufCap >= 10

VARIABLES
  script, clientSent,   \* the client and how many bytes it has sent
  remoteSent,           \* how much of RemoteData has been sent
  local, remote,        \* the two connections
  __state, __linkflag, __rxBuf, __txBuf,
  addr, port,           \* serv_addr
  run, relay,           \* where run() and handleRLink() stand
  unsent, result        \* of each coroutine's transfer: units to go, result

peers == <<script, clientSent, remoteSent>>
session == <<__state, __linkflag, __rxBuf, __txBuf, addr, port>>
sessionVars == <<peers, local, remote, session, run, relay, unsent, result>>

Loops == {"run", "relay"}

\* Bytes of serv_addr that nobody has written.
Unset(n) == [i \in 1..n |-> -1]

Stream == script.stream

SessionInit ==
  /\ script \in Scripts /\ clientSent = 0 /\ remoteSent = 0
  /\ local = NewConnection("open") /\ remote = NewConnection("none")
  /\ __state = "SOCK_INIT" /\ __linkflag = TRUE
  /\ __rxBuf = <<>> /\ __txBuf = <<>>
  /\ addr = Unset(4) /\ port = Unset(2)
  /\ run = "recv" /\ relay = "none"
  /\ unsent = [k \in Loops |-> 0] /\ result = [k \in Loops |-> Pending]
-----------------------------------------------------------------------------
(* The client and the remote side.                                         *)

\* The bytes of the answers that a polite client has seen before message m.
AnswersBefore(m) == CASE m = 1 -> 0 [] m = 2 -> 2 [] OTHER -> 12
MessageEnd(m) == IF m = 0 THEN 0 ELSE script.ends[m]
Pieces ==
  IF script.polite
  THEN {MessageEnd(m) - clientSent : m \in {i \in DOMAIN script.ends :
          clientSent = MessageEnd(i - 1) /\ Len(local.out) >= AnswersBefore(i)}}
  ELSE 1..Len(Stream) - clientSent

LocalSends ==
  \E n \in Pieces :
    /\ ~local.eof /\ local.fd = "open"
    /\ local' = [local EXCEPT !.in = @ \o SubSeq(Stream, clientSent + 1, clientSent + n)]
    /\ clientSent' = clientSent + n
    /\ UNCHANGED <<script, remoteSent, remote, session, run, relay, unsent, result>>

LocalShutsDown ==
  /\ ~local.eof
  /\ local' = [local EXCEPT !.eof = TRUE]
  /\ UNCHANGED <<peers, remote, session, run, relay, unsent, result>>

\* A remote side is there once connect() has returned for an open socket.
Connected == remote.fd = "open" /\ run \notin {"connect", "closeFailed"}

RemoteSends ==
  /\ Connected /\ ~remote.eof
  /\ remoteSent < Len(RemoteData)
  /\ remote' = [remote EXCEPT !.in = Append(@, RemoteData[remoteSent + 1])]
  /\ remoteSent' = remoteSent + 1
  /\ UNCHANGED <<script, clientSent, local, session, run, relay, unsent, result>>

RemoteShutsDown ==
  /\ Connected /\ ~remote.eof
  /\ remote' = [remote EXCEPT !.eof = TRUE]
  /\ UNCHANGED <<peers, local, session, run, relay, unsent, result>>

HupReported ==
  /\ \/ /\ Unreported(local)
        /\ local' = [local EXCEPT !.hup = TRUE] /\ UNCHANGED remote
     \/ /\ Unreported(remote)
        /\ remote' = [remote EXCEPT !.hup = TRUE] /\ UNCHANGED local
  /\ UNCHANGED <<peers, session, run, relay, unsent, result>>
-----------------------------------------------------------------------------
(* The ICU thread carries out a transfer (TimedWait).                      *)

Place(k) == IF k = "run" THEN run ELSE relay
Receiving(k) == Place(k) = "recv" /\ result[k] = Pending
Sending(k) == Place(k) \in {"authSend", "replySend", "linkSend", "send"} /\ result[k] = Pending
OnRemote(k) == Place(k) = "linkSend" \/ (k = "relay" /\ Place(k) = "recv")
Conn(k) == IF OnRemote(k) THEN remote ELSE local
SetConn(k, new) == IF OnRemote(k) THEN remote' = new /\ UNCHANGED local
                                  ELSE local' = new /\ UNCHANGED remote
Returns(k, n) == result' = [result EXCEPT ![k] = n]

\* waitFile() does not know the descriptor.
TransferOnNothing(k) ==
  /\ Receiving(k) \/ Sending(k)
  /\ Conn(k).fd # "open"
  /\ Returns(k, Failed)
  /\ UNCHANGED <<peers, local, remote, session, run, relay, unsent>>

TransferIn(k) ==
  LET buf == IF k = "run" THEN __rxBuf ELSE __txBuf IN
  /\ Receiving(k) /\ CanReceive(Conn(k), buf)
  /\ SetConn(k, AfterRead(Conn(k), buf))
  /\ IF k = "run" THEN __rxBuf' = Filled(Conn(k), buf) /\ UNCHANGED __txBuf
                  ELSE __txBuf' = Filled(Conn(k), buf) /\ UNCHANGED __rxBuf
  /\ Returns(k, Readable(Conn(k), buf))
  /\ UNCHANGED <<peers, __state, __linkflag, addr, port, run, relay, unsent>>

\* writev() in any number of rounds; -1 as soon as the peer is known to have
\* shut down.
TransferOut(k) ==
  LET buf == IF Place(k) = "linkSend" THEN __rxBuf ELSE __txBuf IN
  /\ Sending(k) /\ Conn(k).fd = "open"
  /\ \/ /\ Conn(k).hup
        /\ Returns(k, Failed)
        /\ UNCHANGED <<local, remote, unsent>>
     \/ \E n \in 1..unsent[k] :
          /\ ~Conn(k).hup
          /\ SetConn(k, AfterWrite(Conn(k), buf, unsent[k], n))
          /\ unsent' = [unsent EXCEPT ![k] = @ - n]
          /\ IF n = unsent[k] THEN Returns(k, Len(buf)) ELSE UNCHANGED result
  /\ UNCHANGED <<peers, session, run, relay>>
-----------------------------------------------------------------------------
(* The coroutine run().                                                    *)

\* Begin to send what is in `buf'.
Send(k, buf) == unsent' = [unsent EXCEPT ![k] = Len(buf)] /\ Returns(k, Pending)

\* Where run() stands after `while (__linkflag)' was tested.
Continue(flag, relaying) ==
  run' = CASE flag -> "recv" [] ~flag /\ relaying -> "get" [] OTHER -> "closeLocal"
NextRound ==
  /\ Continue(__linkflag, relay # "none")
  /\ Returns("run", Pending)
  /\ UNCHANGED unsent

Done(place) == run = place /\ result["run"] # Pending

\* As if the flag were left to handleRLink().
LocalGoneUnflagged ==
  /\ Done("recv") /\ result["run"] <= 0
  /\ NextRound
  /\ UNCHANGED <<peers, local, remote, session, relay>>

LocalGone ==
  /\ Done("recv") /\ result["run"] <= 0
  /\ __linkflag' = FALSE
  /\ Continue(FALSE, relay # "none")
  /\ Returns("run", Pending)
  /\ UNCHANGED <<peers, local, remote, __state, __rxBuf, __txBuf, addr, port, relay, unsent>>

HasData(state) == Done("recv") /\ result["run"] > 0 /\ __state = state

MethodAnswer(method) == <<5, method>>

\* Fewer than 3 bytes, or another version: wait for more.
AuthIgnored ==
  /\ HasData("SOCK_INIT")
  /\ Len(__rxBuf) < 3 \/ __rxBuf[1] # 5
  /\ NextRound
  /\ UNCHANGED <<peers, local, remote, session, relay>>

\* operator[] throws when it comes to a method that has not arrived, unless an
\* earlier one was accepted.  The exception ends run() and the task.
Auth ==
  LET methods == Drop(__rxBuf, 2)
      announced == __rxBuf[2]
      arrived == SubSeq(methods, 1, Min({announced, Len(methods)}))
      accepted == Contains(arrived, 0)
  IN
  /\ HasData("SOCK_INIT")
  /\ Len(__rxBuf) >= 3 /\ __rxBuf[1] = 5
  /\ IF ~accepted /\ announced > Len(methods)
     THEN /\ run' = "thrown" /\ __rxBuf' = methods
          /\ UNCHANGED <<__txBuf, unsent, result>>
     ELSE /\ run' = "authSend"
          /\ __rxBuf' = Drop(methods, Len(arrived))
          /\ __txBuf' = Insert(__txBuf, MethodAnswer(IF accepted THEN 0 ELSE 255))
          /\ Send("run", __txBuf')
  /\ UNCHANGED <<peers, local, remote, __state, __linkflag, addr, port, relay>>

AuthSent ==
  /\ Done("authSend")
  /\ __txBuf' = AfterSend(__txBuf, result["run"])
  /\ __state' = "SOCK_REQ"
  /\ NextRound
  /\ UNCHANGED <<peers, local, remote, __linkflag, __rxBuf, addr, port, relay>>
-----------------------------------------------------------------------------
(* handleReq().                                                            *)

Signed(byte) == IF byte > 127 THEN byte - 256 ELSE byte
\* retrive() takes all bytes of a field or none.
FieldArrives(buf, n) == Len(buf) >= n

ReqTooShort ==
  /\ HasData("SOCK_REQ")
  /\ Len(__rxBuf) < 5
  /\ NextRound
  /\ UNCHANGED <<peers, local, remote, session, relay>>

\* The header is dropped before the address is known to be there.
ReqAddressMissing ==
  /\ HasData("SOCK_REQ")
  /\ Len(__rxBuf) >= 5
  /\ \/ __rxBuf[4] = 1 /\ Len(__rxBuf) < 8 /\ __rxBuf' = Drop(__rxBuf, 4)
     \/ /\ __rxBuf[4] = 3 /\ Len(__rxBuf) - 5 < Signed(__rxBuf[5])
        /\ __rxBuf' = Drop(__rxBuf, 5)
  /\ NextRound
  /\ UNCHANGED <<peers, local, remote, __state, __linkflag, __txBuf, addr, port, relay>>

\* As if the port were read but not taken out of the buffer.
TakePortPeeked(buf) ==
  /\ port' = IF FieldArrives(buf, 2) THEN SubSeq(buf, 1, 2) ELSE port
  /\ __rxBuf' = buf

TakePort(buf) ==
  IF FieldArrives(buf, 2)
  THEN port' = SubSeq(buf, 1, 2) /\ __rxBuf' = Drop(buf, 2)
  ELSE __rxBuf' = buf /\ UNCHANGED port

ReqAddress ==
  /\ HasData("SOCK_REQ")
  /\ Len(__rxBuf) >= 8 /\ __rxBuf[4] = 1
  /\ addr' = SubSeq(__rxBuf, 5, 8)
  /\ TakePort(Drop(__rxBuf, 8))
  /\ run' = "socket"
  /\ UNCHANGED <<peers, local, remote, __state, __linkflag, __txBuf, relay, unsent, result>>

\* A name is taken with retriveStr(), for which a negative length is a huge
\* one.  gethostbyname() finds it or not; it is asked before run() suspends.
Resolved(name) == [i \in 1..4 |-> Len(name)]
ReqName ==
  LET rest == Drop(__rxBuf, 5)
      length == Signed(__rxBuf[5])
      name == IF length < 0 THEN rest ELSE SubSeq(rest, 1, length)
  IN
  /\ HasData("SOCK_REQ")
  /\ Len(__rxBuf) >= 5 /\ __rxBuf[4] = 3 /\ Len(rest) >= length
  /\ TakePort(Drop(rest, Len(name)))
  /\ \/ NextRound /\ UNCHANGED addr
     \/ addr' = Resolved(name) /\ run' = "socket" /\ UNCHANGED <<unsent, result>>
  /\ UNCHANGED <<peers, local, remote, __state, __linkflag, __txBuf, relay>>

\* Any other kind of address is left in the buffer and serv_addr as it was.
ReqOtherKind ==
  /\ HasData("SOCK_REQ")
  /\ Len(__rxBuf) >= 5 /\ __rxBuf[4] \notin {1, 3}
  /\ run' = "socket"
  /\ UNCHANGED <<peers, local, remote, session, relay, unsent, result>>

LinkAnswer == <<5, 0, 0, 1>> \o addr \o <<1, 187>>
AnswerRequest ==
  /\ __txBuf' = Insert(__txBuf, LinkAnswer)
  /\ Send("run", __txBuf')
  /\ run' = "replySend"

\* Without a socket connect() is skipped, but not the answer.
Socket ==
  /\ run = "socket"
  /\ \/ remote' = NewConnection("open") /\ run' = "connect" /\ UNCHANGED <<__txBuf, unsent, result>>
     \/ remote' = NewConnection("bad") /\ AnswerRequest
  /\ UNCHANGED <<peers, local, __state, __linkflag, __rxBuf, addr, port, relay>>

\* connect() fails, has connected, or returns 0 although it was refused.
ConnectRemote ==
  /\ run = "connect"
  /\ \/ run' = "closeFailed" /\ UNCHANGED <<remote, __txBuf, unsent, result>>
     \/ \E refused \in BOOLEAN :
          remote' = [remote EXCEPT !.eof = refused] /\ AnswerRequest
  /\ UNCHANGED <<peers, local, __state, __linkflag, __rxBuf, addr, port, relay>>

CloseFailed ==
  /\ run = "closeFailed"
  /\ remote' = NewConnection("none")
  /\ NextRound
  /\ UNCHANGED <<peers, local, session, relay>>

\* handleRLink() is started by async() and begins when a CPU takes it.
ReplySent ==
  /\ Done("replySend")
  /\ __txBuf' = AfterSend(__txBuf, result["run"])
  /\ relay' = "start"
  /\ __state' = "SOCK_LINKED"
  /\ Continue(__linkflag, TRUE)
  /\ Returns("run", Pending)
  /\ UNCHANGED <<peers, local, remote, __linkflag, __rxBuf, addr, port, unsent>>
-----------------------------------------------------------------------------
LinkData ==
  /\ HasData("SOCK_LINKED")
  /\ run' = "linkSend"
  /\ Send("run", __rxBuf)
  /\ UNCHANGED <<peers, local, remote, session, relay>>

LinkSent ==
  /\ Done("linkSend")
  /\ __rxBuf' = AfterSend(__rxBuf, result["run"])
  /\ NextRound
  /\ UNCHANGED <<peers, local, remote, __state, __linkflag, __txBuf, addr, port, relay>>

\* As if run() closed without __rf.get().
GetRelaySkipped ==
  /\ run = "get"
  /\ run' = "closeRemote"
  /\ UNCHANGED <<peers, local, remote, session, relay, unsent, result>>

\* The end of run(): __rf.get() (WaitFlag), then both connections are closed.
GetRelay ==
  /\ run = "get" /\ relay = "done"
  /\ run' = "closeRemote"
  /\ UNCHANGED <<peers, local, remote, session, relay, unsent, result>>

CloseRemote ==
  /\ run = "closeRemote"
  /\ remote' = [remote EXCEPT !.fd = IF @ = "open" THEN "closed" ELSE @]
  /\ run' = "closeLocal"
  /\ UNCHANGED <<peers, local, session, relay, unsent, result>>

CloseLocal ==
  /\ run = "closeLocal"
  /\ local' = [local EXCEPT !.fd = "closed"]
  /\ run' = "done"
  /\ UNCHANGED <<peers, remote, session, relay, unsent, result>>

RunStep ==
  \/ LocalGone \/ AuthIgnored \/ Auth \/ AuthSent
  \/ ReqTooShort \/ ReqAddressMissing \/ ReqAddress \/ ReqName \/ ReqOtherKind
  \/ Socket \/ ConnectRemote \/ CloseFailed \/ ReplySent \/ LinkData \/ LinkSent
  \/ GetRelay \/ CloseRemote \/ CloseLocal
-----------------------------------------------------------------------------
(* The coroutine handleRLink().                                            *)

RelayContinue(flag) == relay' = IF flag THEN "recv" ELSE "done"

RelayStart ==
  /\ relay = "start"
  /\ RelayContinue(__linkflag)
  /\ UNCHANGED <<peers, local, remote, session, run, unsent, result>>

\* As if a single byte were taken for the end of the stream.
RelayReceivedOffByOne ==
  /\ relay = "recv" /\ result["relay"] # Pending
  /\ IF result["relay"] > 1
     THEN relay' = "send" /\ Send("relay", __txBuf) /\ UNCHANGED __linkflag
     ELSE __linkflag' = FALSE /\ relay' = "done" /\ UNCHANGED <<unsent, result>>
  /\ UNCHANGED <<peers, local, remote, __state, __rxBuf, __txBuf, addr, port, run>>

RelayReceived ==
  /\ relay = "recv" /\ result["relay"] # Pending
  /\ IF result["relay"] > 0
     THEN relay' = "send" /\ Send("relay", __txBuf) /\ UNCHANGED __linkflag
     ELSE __linkflag' = FALSE /\ relay' = "done" /\ UNCHANGED <<unsent, result>>
  /\ UNCHANGED <<peers, local, remote, __state, __rxBuf, __txBuf, addr, port, run>>

RelaySent ==
  /\ relay = "send" /\ result["relay"] # Pending
  /\ __txBuf' = AfterSend(__txBuf, result["relay"])
  /\ RelayContinue(__linkflag)
  /\ Returns("relay", Pending)
  /\ UNCHANGED <<peers, local, remote, __state, __linkflag, __rxBuf, addr, port, run, unsent>>

RelayStep == RelayStart \/ RelayReceived \/ RelaySent

TransferOf(k) == TransferOnNothing(k) \/ TransferIn(k) \/ TransferOut(k)
Transfer == \E k \in Loops : TransferOf(k)
Peers == LocalSends \/ LocalShutsDown \/ RemoteSends \/ RemoteShutsDown

SessionNext == RunStep \/ RelayStep \/ Transfer \/ HupReported \/ Peers

SessionSpec == SessionInit /\ [][SessionNext]_sessionVars

\* Coroutines are resumed, the ICU thread transfers what can be transferred and
\* reports what has happened; nothing is expected of the peers except that they
\* take what is sent to them.
SessionFairness ==
  /\ WF_sessionVars(RunStep) /\ WF_sessionVars(RelayStep) /\ WF_sessionVars(HupReported)
  /\ \A k \in Loops : WF_sessionVars(TransferOf(k))
FairSessionSpec == SessionSpec /\ SessionFairness
-----------------------------------------------------------------------------
SessionTypeOK ==
  /\ script \in Scripts /\ clientSent \in 0..Len(Stream) /\ remoteSent \in 0..Len(RemoteData)
  /\ {local, remote} \subseteq ConnectionType
  /\ __state \in {"SOCK_INIT", "SOCK_REQ", "SOCK_LINKED"} /\ __linkflag \in BOOLEAN
  /\ \A buf \in {__rxBuf, __txBuf} : buf \in Seq(Int) /\ Len(buf) <= BufCap
  /\ addr \in [1..4 -> Int] /\ port \in [1..2 -> Int]
  /\ run \in {"recv", "authSend", "socket", "connect", "closeFailed", "replySend",
              "linkSend", "get", "closeRemote", "closeLocal", "done", "thrown"}
  /\ relay \in {"none", "start", "recv", "send", "done"}
  /\ unsent \in [Loops -> 0..BufCap]
  /\ result \in [Loops -> {Pending, Failed} \cup 0..BufCap]

\* The client gets the answer to its methods, then the answer to its request,
\* then what the remote side sent, each once and in this order, although two
\* coroutines send to it from one buffer and a send may stop half way.
AnswersInOrder ==
  \E method \in {0, 255} :
    IsPrefix(local.out,
             MethodAnswer(method) \o LinkAnswer \o SubSeq(RemoteData, 1, remoteSent))

\* The remote side gets a run of the client's bytes without gap, repetition or
\* change of order; of a polite client, exactly what follows its request.
RelayedInOrder ==
  \E k \in 0..Len(Stream) :
    /\ script.polite => k = MessageEnd(2)
    /\ IsPrefix(remote.out, Drop(Stream, k))

\* Values have their types. No transfer is under way on a closed descriptor,
\* handleRLink() never outlives the session object it uses, and a session that
\* has ended without an exception has closed both descriptors.
NothingAfterClose ==
  /\ SessionTypeOK
  /\ \A k \in Loops : Receiving(k) \/ Sending(k) => Conn(k).fd # "closed"
  /\ run \in {"done", "thrown"} => relay \in {"none", "done"}
  /\ run = "done" => local.fd = "closed" /\ remote.fd # "open"

\* A polite client's session is never given up while both sides are there: a
\* full buffer, which reads like the end of the stream, does not occur.
LivesWhilePeersDo ==
  script.polite /\ ~__linkflag => local.eof \/ remote.eof \/ remote.fd = "bad"

\* A session whose client has gone ends, unless it is left with a remote side
\* that is still there.
SessionEnds ==
  local.eof ~> run \in {"done", "thrown"} \/ (relay # "none" /\ remote.fd = "open" /\ ~remote.eof)

\* While both sides are there, what arrives on one is given to the other, with
\* whatever was left over in the buffer.
Gone == local.eof \/ remote.eof \/ remote.fd # "open"
RelayGoesOn ==
  /\ __state = "SOCK_LINKED" /\ local.in # <<>> /\ Room(__rxBuf) > 0
       ~> (local.in = <<>> /\ __rxBuf = <<>>) \/ Gone
  /\ remote.in # <<>> ~> (remote.in = <<>> /\ __txBuf = <<>>) \/ Gone
=============================================================================
