--------------------------- MODULE MCSock5Session ---------------------------
(* Clients of a SOCKS5 session for TLC.                                     *)
EXTENDS Sock5Session

Hello == <<5, 1, 0>>
ByAddress(data) == <<Hello, <<5, 1, 0, 1, 10, 0, 0, 7, 0, 80>>, data>>
ByName(data) == <<<<5, 2, 2, 0>>, <<5, 1, 0, 3, 2, 97, 98, 0, 80>>, data>>
\* A length byte that is negative as a char, and a name that is shorter.
LongName == <<Hello, <<5, 1, 0, 3, 200, 97>>>>
ByAddress6 == <<Hello, <<5, 1, 0, 4, 1>>>>
\* More bytes than fit into the buffer.
NoSocks == <<<<71, 69, 84, 47, 32, 72, 84, 84, 80, 47, 49, 46, 48>>>>

Client(messages, polite) ==
  [stream |-> FlattenSeq(messages), polite |-> polite,
   ends |-> [m \in DOMAIN messages |-> Len(FlattenSeq(SubSeq(messages, 1, m)))]]
\* Eleven bytes to relay, one more than the buffer takes at a time.
Eleven == [i \in 1..11 |-> 70 + i]
MCScripts ==
  {Client(messages, TRUE) : messages \in {ByAddress(Eleven), ByName(<<71>>)}} \cup
  {Client(messages, FALSE) :
     messages \in {ByAddress(<<71>>), ByName(<<>>), LongName, ByAddress6, NoSocks}}
\* The remote side's data is told from bytes of the client.
MCRemoteData == <<300, 301>>
=============================================================================
