----------------------------- MODULE RingBuffer -----------------------------
(***************************************************************************)
(* class Buffer (Conn/Buffer.h): a ring of __size bytes of which one stays *)
(* free, with the scatter lists that data() gives to readv() and writev(). *)
(* Connection's recv takes the list of the free segments, waits until      *)
(* readv() has filled some of it, and calls insert(n); its send takes the  *)
(* list of the used ones, waits until rounds of writev() have sent it all, *)
(* and calls clear(n).  Between these steps the Buffer may be used by      *)
(* others (in the programs it is not): one fills it and one empties it at  *)
(* a time.                                                                 *)
(*                                                                         *)
(* u_int16_t is a number below Width: what the code stores into one or     *)
(* returns as one wraps around; what it computes in between is an int.     *)
(***************************************************************************)
EXTENDS Integers, Sequences

CONSTANTS
  Bytes,
  Size,         \* __size
  Width         \* 2^16

ASSUME BytesAssumption == Bytes # {}
ASSUME SizeAssumption == Size \in Nat /\ Width \in Nat /\ 0 < Size /\ Size < Width

VARIABLES
  buf, start, end,      \* __buf, __start, __end
  put, got,             \* the bytes the last operation was given and handed out
  filling, freeIov, came,       \* the recv() under way: its place, its list, and
                                \* the bytes that have come
  emptying, usedIov,            \* the send() under way and its list; how far the
  tcnt, offset, sentOut         \* callback of writev is, and the bytes that went

ring == <<buf, start, end>>
incoming == <<filling, freeIov, came>>
outgoing == <<emptying, usedIov, tcnt, offset, sentOut>>
bufferVars == <<ring, put, got, incoming, outgoing>>

Index == 0..Size - 1
U16(x) == x % Width

BufferInit ==
  /\ buf \in [Index -> Bytes]
  /\ start = 0 /\ end = 0
  /\ put = <<>> /\ got = <<>>
  /\ filling = "no" /\ freeIov = <<>> /\ came = <<>>
  /\ emptying = FALSE /\ usedIov = <<>> /\ tcnt = 0 /\ offset = 0 /\ sentOut = <<>>

readableCap == U16(IF start <= end THEN end - start ELSE Size - start + end)
writeableCap == U16(IF start > end THEN start - end - 1 ELSE Size + start - end - 1)
writeable == start # (end + 1) % Size

LowerOf(a, b) == IF a < b THEN a ELSE b

\* data(read): the segments of used or of free places, none, one or two.
Run(from, to) == [i \in 1..to - from |-> from + i - 1]
Segments(head, tail) ==
  CASE head < tail -> <<Run(head, tail)>>
    [] head > tail /\ tail > 0 -> <<Run(head, Size), Run(0, tail)>>
    [] head > tail /\ tail = 0 -> <<Run(head, Size)>>
    [] OTHER -> <<>>
FreeTail == (start + Size - 1) % Size
data(read) == IF read THEN Segments(start, end) ELSE Segments(end, FreeTail)

\* The places of a list in their order, and how many are in its first j segments.
Flat(iov) == CASE Len(iov) = 0 -> <<>>
               [] Len(iov) = 1 -> iov[1]
               [] OTHER -> iov[1] \o iov[2]
Before(iov, j) == CASE j = 0 -> 0
                    [] j = 1 -> Len(iov[1])
                    [] OTHER -> Len(iov[1]) + Len(iov[2])

StartAfter(n) == U16((start + LowerOf(n, readableCap)) % Size)
EndAfter(n) == U16((end + LowerOf(n, writeableCap)) % Size)
-----------------------------------------------------------------------------
(* Connection::recv.                                                       *)

Nothing == put' = <<>> /\ got' = <<>>

RecvCall ==
  /\ filling = "no"
  /\ filling' = "waiting" /\ freeIov' = data(FALSE) /\ came' = <<>>
  /\ Nothing
  /\ UNCHANGED <<ring, outgoing>>

\* readv() in the ICU thread; with an empty list it takes nothing.
RecvFills(bytes) ==
  LET places == Flat(freeIov)
      n == Len(bytes)
  IN
  /\ filling = "waiting"
  /\ n <= Len(places)
  /\ buf' = [i \in Index |->
               IF \E k \in 1..n : places[k] = i
               THEN bytes[CHOOSE k \in 1..n : places[k] = i] ELSE buf[i]]
  /\ filling' = "arrived" /\ came' = bytes
  /\ Nothing
  /\ UNCHANGED <<start, end, freeIov, outgoing>>

RecvOver == filling' = "no" /\ freeIov' = <<>> /\ came' = <<>>
RecvReturns ==
  /\ filling = "arrived"
  /\ end' = EndAfter(Len(came))
  /\ put' = came /\ got' = <<>>
  /\ RecvOver
  /\ UNCHANGED <<buf, start, outgoing>>

RecvFails ==
  /\ filling = "waiting"
  /\ RecvOver
  /\ Nothing
  /\ UNCHANGED <<ring, outgoing>>
-----------------------------------------------------------------------------
(* Connection::send, which is called only if there is something to send.   *)

SendCall ==
  /\ ~emptying
  /\ start # end
  /\ emptying' = TRUE /\ usedIov' = data(TRUE)
  /\ tcnt' = 0 /\ offset' = 0 /\ sentOut' = <<>>
  /\ Nothing
  /\ UNCHANGED <<ring, incoming>>

\* How many bytes are left in the first k segments from tcnt on.
Left(k) == IF k = 0 THEN 0 ELSE Before(usedIov, tcnt + k) - Before(usedIov, tcnt) - offset

\* As if the offset of an earlier round were forgotten.
OffsetRestarted(k, n) == n - Left(k)

\* The offset after a round that sent n bytes and finished k segments.
NextOffset(k, n) == IF k = 0 THEN offset + n ELSE n - Left(k)

\* writev() takes n bytes of what is left of the list.
SendRound(n) ==
  LET sent == Before(usedIov, tcnt) + offset
      rest == Len(usedIov) - tcnt
  IN
  /\ emptying /\ rest > 0
  /\ n \in 1..Left(rest)
  /\ sentOut' = sentOut \o [i \in 1..n |-> buf[Flat(usedIov)[sent + i]]]
  /\ \E k \in 0..rest :
       /\ Left(k) <= n
       /\ k < rest => n < Left(k + 1)
       /\ tcnt' = tcnt + k
       /\ offset' = NextOffset(k, n)
  /\ Nothing
  /\ UNCHANGED <<ring, incoming, emptying, usedIov>>

SendOver == /\ emptying' = FALSE /\ usedIov' = <<>>
            /\ tcnt' = 0 /\ offset' = 0 /\ sentOut' = <<>>
\* As if an emptied Buffer were rewound to its beginning.
SendReturnsRewinds ==
  /\ emptying /\ tcnt = Len(usedIov)
  /\ put' = <<>> /\ got' = sentOut
  /\ LET after == StartAfter(Len(sentOut)) IN
       IF after = end THEN start' = 0 /\ end' = 0 ELSE start' = after /\ UNCHANGED end
  /\ SendOver
  /\ UNCHANGED <<buf, incoming>>

SendReturns ==
  /\ emptying /\ tcnt = Len(usedIov)
  /\ put' = <<>> /\ got' = sentOut
  /\ start' = StartAfter(Len(sentOut))
  /\ SendOver
  /\ UNCHANGED <<buf, end, incoming>>

\* Nothing is cleared, whatever has sentOut out.
SendFails ==
  /\ emptying /\ tcnt < Len(usedIov)
  /\ SendOver
  /\ Nothing
  /\ UNCHANGED <<ring, incoming>>
-----------------------------------------------------------------------------
(* The operations of Buffer that do not wait.                              *)

insertCh(ch) ==
  /\ filling = "no" /\ writeable
  /\ buf' = [buf EXCEPT ![end] = ch]
  /\ end' = U16((end + 1) % Size)
  /\ put' = <<ch>> /\ got' = <<>>
  /\ UNCHANGED <<start, incoming, outgoing>>

\* operator[]; out of range it throws, which hands out nothing.
At(i) ==
  /\ i < readableCap
  /\ put' = <<>> /\ got' = <<buf[(start + i) % Size]>>
  /\ UNCHANGED <<ring, incoming, outgoing>>

clear == /\ filling = "no" /\ ~emptying
         /\ start' = 0 /\ end' = 0
         /\ Nothing
         /\ UNCHANGED <<buf, incoming, outgoing>>

clearN(n) == /\ ~emptying
             /\ start' = StartAfter(n)
             /\ Nothing
             /\ UNCHANGED <<buf, end, incoming, outgoing>>

retriveStr(n) ==
  LET places == Flat(data(TRUE))
      len == LowerOf(n, Len(places))
  IN
  /\ ~emptying
  /\ put' = <<>> /\ got' = [k \in 1..len |-> buf[places[k]]]
  /\ start' = StartAfter(len)
  /\ UNCHANGED <<buf, end, incoming, outgoing>>

\* All of n bytes or none.
retriveRaw(n) ==
  /\ ~emptying
  /\ n <= readableCap
  /\ put' = <<>> /\ got' = [k \in 1..n |-> buf[(start + k - 1) % Size]]
  /\ start' = StartAfter(n)
  /\ UNCHANGED <<buf, end, incoming, outgoing>>

BufferNext ==
  \/ RecvCall \/ RecvReturns \/ RecvFails
  \/ SendCall \/ SendReturns \/ SendFails
  \/ \E n \in 0..Size : \/ \E bytes \in [1..n -> Bytes] : RecvFills(bytes)
                        \/ SendRound(n) \/ At(n) \/ clearN(n)
                        \/ retriveStr(n) \/ retriveRaw(n)
  \/ \E ch \in Bytes : insertCh(ch)
  \/ clear

BufferSpec == BufferInit /\ [][BufferNext]_bufferVars
-----------------------------------------------------------------------------
RingTypeOK ==
  /\ buf \in [Index -> Bytes]
  /\ {start, end} \subseteq Index
  /\ {put, got} \subseteq Seq(Bytes)
BufferTypeOK ==
  /\ RingTypeOK
  /\ filling \in {"no", "waiting", "arrived"} /\ emptying \in BOOLEAN
  /\ {freeIov, usedIov} \subseteq Seq(Seq(Index))
  /\ {came, sentOut} \subseteq Seq(Bytes)
  /\ tcnt \in 0..2 /\ offset \in 0..Size

\* Values have their types.  The segments that the kernel fills and those it
\* sends never overlap, leave one byte free, and are as long as readableCap()
\* and writeableCap() say; and the list that a recv() or send() took before it
\* waited is still what comes next in the ring, whatever happened meanwhile.
Places(read) == {Flat(data(read))[k] : k \in DOMAIN Flat(data(read))}
IsNext(iov, read) ==
  \A k \in DOMAIN Flat(iov) : k \in DOMAIN Flat(data(read)) /\ Flat(iov)[k] = Flat(data(read))[k]
SegmentsApart ==
  /\ BufferTypeOK
  /\ Places(TRUE) \cap Places(FALSE) = {}
  /\ Places(TRUE) \cup Places(FALSE) = Index \ {FreeTail}
  /\ Len(Flat(data(TRUE))) = readableCap /\ Len(Flat(data(FALSE))) = writeableCap
  /\ writeable <=> writeableCap > 0
  /\ filling # "no" => IsNext(freeIov, FALSE)
  /\ emptying => IsNext(usedIov, TRUE)

\* The ring is a FIFO of Size - 1 bytes: whatever mixture of the operations
\* fills and empties it, in however many rounds writev() sends its segments
\* and whoever fills the ring meanwhile, bytes come out once, unchanged and in
\* order.
content == [k \in 1..readableCap |-> buf[(start + k - 1) % Size]]
Fifo == INSTANCE ByteFifo WITH Capacity <- Size - 1
IsFifo == Fifo!Spec
=============================================================================
