----------------------------- MODULE Connection -----------------------------
(***************************************************************************)
(* The Connections and Buffers of a session (Connection.h, Buffer.h).      *)
(*                                                                         *)
(* A Buffer is what ByteFifo promises: a sequence of at most BufCap bytes. *)
(* A Connection is a descriptor with what arrives on it (in), what its     *)
(* peer was given (out), whether the peer has shut down (eof) and whether  *)
(* epoll has reported that (hup).  recv() and send() begin in a coroutine, *)
(* are carried out by the ICU thread (TimedWait) and end in the coroutine. *)
(***************************************************************************)
EXTENDS Integers, Sequences, SequencesExt, FiniteSetsExt

CONSTANT BufCap         \* bytes that fit into a Buffer, 1023 in the code
ASSUME CapAssumption == BufCap \in Nat \ {0}

Pending == -2           \* the transfer is under way
Failed == -1

ConnectionType == [fd : {"none", "open", "bad", "closed"}, in : Seq(Int), out : Seq(Int),
                   eof : BOOLEAN, hup : BOOLEAN]
NewConnection(fd) == [fd |-> fd, in |-> <<>>, out |-> <<>>, eof |-> FALSE, hup |-> FALSE]

Room(buf) == BufCap - Len(buf)
Insert(buf, bytes) == buf \o SubSeq(bytes, 1, Min({Room(buf), Len(bytes)}))
Drop(buf, n) == SubSeq(buf, n + 1, Len(buf))

\* readv() into the free segments takes what is there.  Without a free segment
\* it returns 0, as it does at the end of the stream.
Readable(conn, buf) == Min({Room(buf), Len(conn.in)})
CanReceive(conn, buf) ==
  conn.fd = "open" /\ (Readable(conn, buf) > 0 \/ Room(buf) = 0 \/ conn.eof)
AfterRead(conn, buf) == [conn EXCEPT !.in = Drop(@, Readable(conn, buf))]
\* insert() follows when the coroutine goes on; nobody looks at the buffer in
\* between.
Filled(conn, buf) == buf \o SubSeq(conn.in, 1, Readable(conn, buf))

\* writev() gives n of the `left' units that are still to go to the peer.
AfterWrite(conn, buf, left, n) ==
  LET done == Len(buf) - left
  IN  [conn EXCEPT !.out = @ \o SubSeq(buf, done + 1, done + n)]

\* As if send() forgot to clear what has gone out.
AfterSendKept(buf, n) == buf
\* As if clear() stopped one byte short.
AfterSendButOne(buf, n) == IF n = Failed THEN buf ELSE Drop(buf, n - 1)
\* Connection::send() clears what has gone out.
AfterSend(buf, n) == IF n = Failed THEN buf ELSE Drop(buf, n)

Unreported(conn) == conn.eof /\ ~conn.hup
=============================================================================
