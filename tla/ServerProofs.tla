---------------------------- MODULE ServerProofs ----------------------------
(***************************************************************************)
(* How a server lives (LifeCycle), what the echo server does with its      *)
(* clients (EchoServer), and what a SOCKS5 session relays (Sock5Session).  *)
(***************************************************************************)
EXTENDS LifeCycle, EchoServer, Sock5Session, FiniteSetTheorems, TLAPS

(***************************************************************************)
(* The orderly life of a kernel of any number and order of ICUs and CPUs.  *)
(*                                                                         *)
(* A loop can begin only behind the promise of run(), which start() sets   *)
(* after the constructor is done (StartInv); what main has joined is over  *)
(* and stays so (JoinInv).  That a thread may use its CompStarter too      *)
(* early does not matter here: it is lost then and never loops.            *)
(***************************************************************************)
Started == {"run", "loop", "destroy", "join", "gone"}

StartInv ==
  /\ \A i \in Starters : /\ promiseForRun_[i] => pc \in Started
                         /\ thread[i] \in {"loop", "over"} => promiseForRun_[i]
                         /\ loop[i] # "none" => thread[i] \in {"loop", "over"}
  /\ loop[0] # "none" => pc \in {"loop", "destroy", "join", "gone"}

LoopingInv ==
  \A i \in Comps : looping_[i] <=> loop[i] \in {"enter", "test", "body", "clean"}

JoinInv ==
  \A i \in Starters :
    (pc \in {"destroy", "join"} /\ i < at) \/ pc = "gone" => thread[i] = "over"

AtInv == pc \in {"members", "getComp", "join"} => at \in Starters

IInv == TypeOK /\ AtInv /\ StartInv /\ LoopingInv /\ JoinInv

LEMMA StartersAre == Starters = 1..Len(Cate) /\ Len(Cate) \in Nat /\ 0 \notin Starters
BY CateAssumption DEF Starters

LEMMA InitIInv == Init => IInv
<1> SUFFICES ASSUME Init PROVE IInv
  OBVIOUS
<1> USE StartersAre DEF Init
<1>1. TypeOK
  <2>1. {promiseForCompPtr_, promiseForRun_, comp_} \subseteq [Starters -> BOOLEAN]
    BY Zenon
  <2>2. {looping_, quit_, eventfd} \subseteq [Comps -> BOOLEAN]
    BY Zenon
  <2>3. pc = "construct" /\ at \in 1..Len(Cate) + 1 /\ ready \in 0..MaxReady
    BY MaxReadyAssumption
  <2>4. /\ thread \in [Starters -> {"none", "begin", "lost", "hung", "get", "loop", "over"}]
        /\ loop \in [Comps -> {"none", "enter", "test", "body", "clean", "left"}]
        /\ raced \in BOOLEAN
    BY Zenon
  <2>5. QED
    BY <2>1, <2>2, <2>3, <2>4 DEF TypeOK
<1>2. StartInv /\ AtInv
  BY DEF StartInv, AtInv, Comps
<1>3. LoopingInv
  BY DEF LoopingInv
<1>4. JoinInv
  BY DEF JoinInv
<1>5. QED
  BY <1>1, <1>2, <1>3, <1>4 DEF IInv

\* One lemma for each action: it keeps the invariant.
LEMMA StartThreadIInv ==
  ASSUME IInv, StartThread PROVE IInv'
<1> USE StartersAre DEF StartThread, main, starters, loops, Go, Quit, Called, IInv, TypeOK
<1>1. TypeOK'
  OBVIOUS
<1>2. StartInv' /\ AtInv'
  BY DEF StartInv, AtInv, Started, Comps
<1>3. LoopingInv'
  BY DEF LoopingInv
<1>4. JoinInv'
  BY DEF JoinInv
<1>5. QED
  BY <1>1, <1>2, <1>3, <1>4

LEMMA InitMembersIInv ==
  ASSUME IInv, InitMembers PROVE IInv'
<1> USE StartersAre DEF InitMembers, main, starters, loops, Go, Quit, Called, IInv, TypeOK
<1>1. TypeOK'
  OBVIOUS
<1>2. StartInv' /\ AtInv'
  BY DEF StartInv, AtInv, Started, Comps
<1>3. LoopingInv'
  BY DEF LoopingInv
<1>4. JoinInv'
  BY DEF JoinInv
<1>5. QED
  BY <1>1, <1>2, <1>3, <1>4

LEMMA GetCompIInv ==
  ASSUME IInv, GetComp PROVE IInv'
<1> USE StartersAre DEF GetComp, main, starters, loops, Go, Quit, Called, IInv, TypeOK
<1>1. at' \in 1..Len(Cate) + 1 /\ pc' \in {"construct", "icu"}
  BY DEF AtInv
<1>2. comp_' \in [Starters -> BOOLEAN]
  BY Zenon
<1>3. TypeOK'
  BY <1>1, <1>2
<1>4. StartInv' /\ AtInv'
  BY DEF StartInv, AtInv, Started, Comps
<1>5. LoopingInv'
  BY DEF LoopingInv
<1>6. JoinInv'
  BY DEF JoinInv
<1>7. QED
  BY <1>3, <1>4, <1>5, <1>6

LEMMA MakeIcuIInv ==
  ASSUME IInv, MakeIcu PROVE IInv'
<1> USE StartersAre DEF MakeIcu, main, starters, loops, Go, Quit, Called, IInv, TypeOK
<1>1. TypeOK'
  OBVIOUS
<1>2. StartInv' /\ AtInv'
  BY DEF StartInv, AtInv, Started, Comps
<1>3. LoopingInv'
  BY DEF LoopingInv
<1>4. JoinInv'
  BY DEF JoinInv
<1>5. QED
  BY <1>1, <1>2, <1>3, <1>4

LEMMA CallStartIInv ==
  ASSUME IInv, CallStart PROVE IInv'
<1> USE StartersAre DEF CallStart, main, starters, loops, Go, Quit, Called, IInv, TypeOK
<1>1. TypeOK'
  OBVIOUS
<1>2. StartInv' /\ AtInv'
  BY DEF StartInv, AtInv, Started, Comps
<1>3. LoopingInv'
  BY DEF LoopingInv
<1>4. JoinInv'
  BY DEF JoinInv
<1>5. QED
  BY <1>1, <1>2, <1>3, <1>4

LEMMA RunIInv ==
  ASSUME IInv, Run PROVE IInv'
<1>1. /\ pc = "run"
      /\ UNCHANGED <<thread, promiseForCompPtr_, comp_, looping_, quit_, loop>>
      /\ UNCHANGED <<eventfd, ready, raced>>
  BY DEF Run, loops
<1>2. CASE at \in Starters
  <2>1. pc' = pc /\ at' = at + 1 /\ promiseForRun_' = [promiseForRun_ EXCEPT ![at] = TRUE]
    BY <1>2 DEF Run
  <2>2. at' \in 1..Len(Cate) + 1
    BY <1>2, <2>1, StartersAre
  <2>3. promiseForRun_' \in [Starters -> BOOLEAN]
    BY <2>1, Zenon DEF IInv, TypeOK
  <2>4. TypeOK'
    BY <1>1, <2>1, <2>2, <2>3 DEF IInv, TypeOK
  <2>5. StartInv' /\ AtInv'
    BY <1>1, <2>1 DEF IInv, TypeOK, StartInv, AtInv, Started
  <2>6. LoopingInv' /\ JoinInv'
    BY <1>1, <2>1 DEF IInv, LoopingInv, JoinInv
  <2>7. QED
    BY <2>4, <2>5, <2>6 DEF IInv
<1>3. CASE at \notin Starters
  <2>1. pc' = "loop" /\ UNCHANGED <<at, promiseForRun_>>
    BY <1>3 DEF Run
  <2>2. QED
    BY <1>1, <2>1 DEF IInv, TypeOK, StartInv, AtInv, Started, LoopingInv, JoinInv
<1>4. QED
  BY <1>2, <1>3

LEMMA MainReturnsIInv ==
  ASSUME IInv, MainReturns PROVE IInv'
<1> USE StartersAre DEF MainReturns, main, starters, loops, Go, Quit, Called, IInv, TypeOK
<1>1. TypeOK'
  OBVIOUS
<1>2. StartInv' /\ AtInv'
  BY DEF StartInv, AtInv, Started, Comps
<1>3. LoopingInv'
  BY DEF LoopingInv
<1>4. JoinInv'
  BY DEF JoinInv
<1>5. QED
  BY <1>1, <1>2, <1>3, <1>4

LEMMA DestroyQuitIInv ==
  ASSUME IInv, DestroyQuit PROVE IInv'
<1> USE StartersAre DEF DestroyQuit, main, starters, loops, Go, Quit, Called, IInv, TypeOK
<1>1. quit_' \in [Comps -> BOOLEAN] /\ eventfd' \in [Comps -> BOOLEAN]
  BY Zenon
<1>2. TypeOK'
  BY <1>1
<1>3. StartInv' /\ AtInv'
  BY DEF StartInv, AtInv, Started, Comps
<1>4. LoopingInv'
  BY DEF LoopingInv
<1>5. JoinInv'
  BY DEF JoinInv
<1>6. QED
  BY <1>2, <1>3, <1>4, <1>5

LEMMA JoinIInv ==
  ASSUME IInv, Join PROVE IInv'
<1> USE StartersAre DEF Join, main, starters, loops, Go, Quit, Called, IInv, TypeOK
<1>1. at' \in 1..Len(Cate) + 1 /\ pc' \in {"destroy", "gone"}
  BY DEF AtInv
<1>2. TypeOK'
  BY <1>1
<1>3. StartInv' /\ AtInv'
  BY DEF StartInv, AtInv, Started, Comps
<1>4. LoopingInv'
  BY DEF LoopingInv
<1>5. JoinInv'
  BY DEF JoinInv
<1>6. QED
  BY <1>2, <1>3, <1>4, <1>5

LEMMA MakeReadyIInv ==
  ASSUME IInv, MakeReady PROVE IInv'
<1> USE StartersAre DEF MakeReady, main, starters, loops, Go, Quit, Called, IInv, TypeOK
<1>1. TypeOK'
  BY MaxReadyAssumption
<1>2. StartInv' /\ AtInv'
  BY DEF StartInv, AtInv, Started, Comps
<1>3. LoopingInv'
  BY DEF LoopingInv
<1>4. JoinInv'
  BY DEF JoinInv
<1>5. QED
  BY <1>1, <1>2, <1>3, <1>4

LEMMA TooEarlyIInv ==
  ASSUME IInv, NEW i \in Starters, TooEarly(i) PROVE IInv'
<1> USE StartersAre DEF TooEarly, main, starters, loops, Go, Quit, Called, IInv, TypeOK
<1>1. TypeOK'
  OBVIOUS
<1>2. StartInv' /\ AtInv'
  BY DEF StartInv, AtInv, Started, Comps
<1>3. LoopingInv'
  BY DEF LoopingInv
<1>4. JoinInv'
  BY DEF JoinInv
<1>5. QED
  BY <1>1, <1>2, <1>3, <1>4

LEMMA SetCompPtrIInv ==
  ASSUME IInv, NEW i \in Starters, SetCompPtr(i) PROVE IInv'
<1> USE StartersAre DEF SetCompPtr, main, starters, loops, Go, Quit, Called, IInv, TypeOK
<1>1. TypeOK'
  OBVIOUS
<1>2. StartInv' /\ AtInv'
  BY DEF StartInv, AtInv, Started, Comps
<1>3. LoopingInv'
  BY DEF LoopingInv
<1>4. JoinInv'
  BY DEF JoinInv
<1>5. QED
  BY <1>1, <1>2, <1>3, <1>4

LEMMA GetRunIInv ==
  ASSUME IInv, NEW i \in Starters, GetRun(i) PROVE IInv'
<1> USE StartersAre DEF GetRun, main, starters, loops, Go, Quit, Called, IInv, TypeOK
<1>1. TypeOK'
  OBVIOUS
<1>2. StartInv' /\ AtInv'
  BY DEF StartInv, AtInv, Started, Comps
<1>3. LoopingInv'
  BY DEF LoopingInv
<1>4. JoinInv'
  BY DEF JoinInv
<1>5. QED
  BY <1>1, <1>2, <1>3, <1>4

LEMMA ClearCompIInv ==
  ASSUME IInv, NEW i \in Starters, ClearComp(i) PROVE IInv'
<1> USE StartersAre DEF ClearComp, main, starters, loops, Go, Quit, Called, IInv, TypeOK
<1>1. TypeOK'
  OBVIOUS
<1>2. StartInv' /\ AtInv'
  BY DEF StartInv, AtInv, Started, Comps
<1>3. LoopingInv'
  BY DEF LoopingInv
<1>4. JoinInv'
  BY DEF JoinInv
<1>5. QED
  BY <1>1, <1>2, <1>3, <1>4

LEMMA StoreLoopingIInv ==
  ASSUME IInv, NEW i \in Comps, StoreLooping(i) PROVE IInv'
<1> USE StartersAre DEF StoreLooping, main, starters, loops, Go, Quit, Called, IInv, TypeOK
<1>1. TypeOK'
  OBVIOUS
<1>2. StartInv' /\ AtInv'
  BY DEF StartInv, AtInv, Started, Comps
<1>3. LoopingInv'
  BY DEF LoopingInv
<1>4. JoinInv'
  BY DEF JoinInv
<1>5. QED
  BY <1>1, <1>2, <1>3, <1>4

LEMMA ClearQuitIInv ==
  ASSUME IInv, NEW i \in Comps, ClearQuit(i) PROVE IInv'
<1> USE StartersAre DEF ClearQuit, main, starters, loops, Go, Quit, Called, IInv, TypeOK
<1>1. TypeOK'
  OBVIOUS
<1>2. StartInv' /\ AtInv'
  BY DEF StartInv, AtInv, Started, Comps
<1>3. LoopingInv'
  BY DEF LoopingInv
<1>4. JoinInv'
  BY DEF JoinInv
<1>5. QED
  BY <1>1, <1>2, <1>3, <1>4

LEMMA TestQuitIInv ==
  ASSUME IInv, NEW i \in Comps, TestQuit(i) PROVE IInv'
<1> USE StartersAre DEF TestQuit, main, starters, loops, Go, Quit, Called, IInv, TypeOK
<1>1. TypeOK'
  OBVIOUS
<1>2. StartInv' /\ AtInv'
  BY DEF StartInv, AtInv, Started, Comps
<1>3. LoopingInv'
  BY DEF LoopingInv
<1>4. JoinInv'
  BY DEF JoinInv
<1>5. QED
  BY <1>1, <1>2, <1>3, <1>4

LEMMA WaitIRQIInv ==
  ASSUME IInv, NEW i \in Comps, WaitIRQ(i) PROVE IInv'
<1> USE StartersAre DEF WaitIRQ, main, starters, loops, Go, Quit, Called, IInv, TypeOK
<1>1. TypeOK'
  OBVIOUS
<1>2. StartInv' /\ AtInv'
  BY DEF StartInv, AtInv, Started, Comps
<1>3. LoopingInv'
  BY DEF LoopingInv
<1>4. JoinInv'
  BY DEF JoinInv
<1>5. QED
  BY <1>1, <1>2, <1>3, <1>4

LEMMA ScheduleIInv ==
  ASSUME IInv, NEW i \in Comps, Schedule(i) PROVE IInv'
<1> USE StartersAre DEF Schedule, main, starters, loops, Go, Quit, Called, IInv, TypeOK
<1>1. TypeOK'
  BY MaxReadyAssumption
<1>2. StartInv' /\ AtInv'
  BY DEF StartInv, AtInv, Started, Comps
<1>3. LoopingInv'
  BY DEF LoopingInv
<1>4. JoinInv'
  BY DEF JoinInv
<1>5. QED
  BY <1>1, <1>2, <1>3, <1>4

LEMMA LoopEndsIInv ==
  ASSUME IInv, NEW i \in Comps, LoopEnds(i) PROVE IInv'
<1> USE StartersAre DEF LoopEnds, main, starters, loops, Go, Quit, Called, IInv, TypeOK
<1>1. TypeOK'
  OBVIOUS
<1>2. StartInv' /\ AtInv'
  BY DEF StartInv, AtInv, Started, Comps
<1>3. LoopingInv'
  BY DEF LoopingInv
<1>4. JoinInv'
  BY DEF JoinInv
<1>5. QED
  BY <1>1, <1>2, <1>3, <1>4

LEMMA OtherIRQIInv ==
  ASSUME IInv, NEW i \in Comps, OtherIRQ(i) PROVE IInv'
<1> USE StartersAre DEF OtherIRQ, main, starters, loops, Go, Quit, Called, IInv, TypeOK
<1>1. TypeOK'
  OBVIOUS
<1>2. StartInv' /\ AtInv'
  BY DEF StartInv, AtInv, Started, Comps
<1>3. LoopingInv'
  BY DEF LoopingInv
<1>4. JoinInv'
  BY DEF JoinInv
<1>5. QED
  BY <1>1, <1>2, <1>3, <1>4

LEMMA QuitCallIInv ==
  ASSUME IInv, NEW i \in Comps, QuitCall(i) PROVE IInv'
<1> USE StartersAre DEF QuitCall, main, starters, loops, Go, Quit, Called, IInv, TypeOK
<1>1. TypeOK'
  OBVIOUS
<1>2. StartInv' /\ AtInv'
  BY DEF StartInv, AtInv, Started, Comps
<1>3. LoopingInv'
  BY DEF LoopingInv
<1>4. JoinInv'
  BY DEF JoinInv
<1>5. QED
  BY <1>1, <1>2, <1>3, <1>4

LEMMA NextIInv == IInv /\ [Next]_vars => IInv'
<1> SUFFICES ASSUME IInv, [Next]_vars PROVE IInv'
  OBVIOUS
<1>1. CASE UNCHANGED vars
  BY <1>1 DEF vars, main, starters, loops, IInv, TypeOK, AtInv, StartInv, LoopingInv, JoinInv
<1>2. CASE Main \/ MakeReady
  BY <1>2, StartThreadIInv, InitMembersIInv, GetCompIInv, MakeIcuIInv, CallStartIInv,
     RunIInv, MainReturnsIInv, DestroyQuitIInv, JoinIInv, MakeReadyIInv DEF Main
<1>3. ASSUME NEW i \in Starters, LoopFuncs(i) PROVE IInv'
  BY <1>3, TooEarlyIInv, SetCompPtrIInv, GetRunIInv, ClearCompIInv DEF LoopFuncs
<1>4. ASSUME NEW i \in Comps, Loop(i) \/ OtherIRQ(i) \/ QuitCall(i) PROVE IInv'
  BY <1>4, StoreLoopingIInv, ClearQuitIInv, TestQuitIInv, WaitIRQIInv, ScheduleIInv,
     LoopEndsIInv, OtherIRQIInv, QuitCallIInv DEF Loop
<1>5. QED
  BY <1>1, <1>2, <1>3, <1>4 DEF Next

\* IInv holds throughout.
THEOREM Invariance == Spec => []IInv
<1>1. IInv /\ [Next]_vars => IInv'
  BY NextIInv
<1>2. QED
  BY InitIInv, <1>1, PTL DEF Spec
-----------------------------------------------------------------------------
\* For any components: no loop runs before main has filled icus_ and cpus_ and
\* called start(), looping_ is right, and no thread outlives its CompStarter.
THEOREM LifeIsOrderly == Spec => []OrderlyLife
<1>1. IInv => OrderlyLife
  <2> SUFFICES ASSUME IInv PROVE OrderlyLife
    OBVIOUS
  <2>1. ASSUME NEW i \in Comps, loop[i] # "none"
        PROVE  pc \in {"run", "loop", "destroy", "join", "gone"}
    BY <2>1, StartersAre DEF IInv, StartInv, Started, Comps
  <2>2. QED
    BY <2>1 DEF IInv, LoopingInv, JoinInv, OrderlyLife
<1>2. QED
  BY <1>1, Invariance, PTL
-----------------------------------------------------------------------------
(* The clients of the echo server.                                         *)
(*                                                                         *)
(* A client comes from the listen queue into the hands of accept() and     *)
(* from there to an EchoCtx, and never back (QueueInv, FdInv).  What it    *)
(* has sent is split between what it was given, its buffer and what has    *)
(* not been read yet; while a send is under way the front of the buffer    *)
(* has already gone out (FlowInv).  Once epoll has reported that the       *)
(* client has shut down every send fails, so that it does no harm that the *)
(* result is ignored and the buffer kept.                                  *)

QueueInv ==
  /\ \A i, j \in DOMAIN backlog : backlog[i] = backlog[j] => i = j
  /\ \A i \in DOMAIN backlog : echo[backlog[i]] = "none" /\ backlog[i] # clifd
  /\ \A c \in Clients : conn[c].fd = "none" =>
       echo[c] = "none" /\ c # clifd /\ \A i \in DOMAIN backlog : backlog[i] # c

FdInv ==
  /\ acceptor = "register" <=> clifd # Nobody
  /\ IsFiniteSet(open) /\ Cardinality(open) <= FdLimit
  /\ \A c \in Clients :
       c \in open <=> echo[c] \in {"recv", "send", "close"} \/ c = clifd
  /\ clifd # Nobody => echo[clifd] = "none"

\* s is what stands in Data behind its first n bytes.
Piece(s, n) == \A k \in 1..Len(s) : s[k] = Data[n + k]

\* How many bytes of Data lie before those in the buffer of c.
Behind(c) ==
  IF echo[c] = "send" THEN Len(conn[c].out) + left[c] - Len(buffers[c])
  ELSE Len(conn[c].out)

\* The b bytes before the buffer, the buffer and what has not been read yet are
\* the s bytes that the client has sent.
Flow(in, buf, b, s) ==
  /\ b \in Nat /\ Piece(buf, b) /\ Piece(in, b + Len(buf))
  /\ s = b + Len(buf) + Len(in)

FlowOf(c) ==
  /\ Len(conn[c].out) <= sent[c] /\ Piece(conn[c].out, 0)
  /\ echo[c] = "send" => left[c] <= Len(buffers[c])
  /\ ~conn[c].hup =>
       /\ Flow(conn[c].in, buffers[c], Behind(c), sent[c])
       /\ echo[c] = "send" /\ ret[c] # Pending => ret[c] = Len(buffers[c]) /\ left[c] = 0
FlowInv == \A c \in Clients : FlowOf(c)

ServerInv == ServerTypeOK /\ QueueInv /\ FdInv /\ FlowInv
-----------------------------------------------------------------------------
(* What the operators of Connection do.                                    *)

LEMMA MinIs == \A a, b \in Int : Min({a, b}) = IF a <= b THEN a ELSE b
<1> TAKE a, b \in Int
<1> DEFINE m == IF a <= b THEN a ELSE b
<1>1. m \in {a, b} /\ \A y \in {a, b} : m <= y
  OBVIOUS
<1>2. \A x \in {a, b} : (\A y \in {a, b} : x <= y) => x = m
  OBVIOUS
<1> HIDE DEF m
<1>3. QED
  BY <1>1, <1>2 DEF Min

LEMMA DropIs ==
  ASSUME NEW buf \in Seq(Int), NEW n \in Nat, n <= Len(buf)
  PROVE  /\ Drop(buf, n) \in Seq(Int) /\ Len(Drop(buf, n)) = Len(buf) - n
         /\ \A k \in 1..Len(buf) - n : Drop(buf, n)[k] = buf[n + k]
BY DEF Drop

LEMMA AppendIs ==
  ASSUME NEW s \in Seq(Int), NEW t \in Seq(Int)
  PROVE  /\ s \o t \in Seq(Int) /\ Len(s \o t) = Len(s) + Len(t)
         /\ \A k \in 1..Len(s) + Len(t) :
              (s \o t)[k] = IF k <= Len(s) THEN s[k] ELSE t[k - Len(s)]
OBVIOUS

\* A transfer into the buffer moves the first r bytes of what has arrived to its
\* end.
Reads(cn, buf, r, cn2, buf2) ==
  /\ r \in 0..BufCap /\ r <= Len(cn.in)
  /\ buf2 \in Seq(Int) /\ Len(buf2) = Len(buf) + r /\ Len(buf2) <= BufCap
  /\ \A k \in 1..Len(buf2) : buf2[k] = IF k <= Len(buf) THEN buf[k] ELSE cn.in[k - Len(buf)]
  /\ cn2 \in ConnectionType /\ Len(cn2.in) = Len(cn.in) - r
  /\ \A k \in 1..Len(cn2.in) : cn2.in[k] = cn.in[r + k]
  /\ cn2.out = cn.out /\ cn2.fd = cn.fd /\ cn2.eof = cn.eof /\ cn2.hup = cn.hup

LEMMA ReadIs ==
  ASSUME NEW cn \in ConnectionType, NEW buf \in Seq(Int), Len(buf) <= BufCap
  PROVE  Reads(cn, buf, Readable(cn, buf), AfterRead(cn, buf), Filled(cn, buf))
<1> DEFINE r == Readable(cn, buf)
           new == AfterRead(cn, buf)
           bytes == Filled(cn, buf)
<1>1. cn.in \in Seq(Int) /\ cn.out \in Seq(Int) /\ Len(cn.in) \in Nat /\ Len(buf) \in Nat
  BY DEF ConnectionType
<1>2. BufCap \in Nat
  BY CapAssumption
<1>3. r = IF BufCap - Len(buf) <= Len(cn.in) THEN BufCap - Len(buf) ELSE Len(cn.in)
  <2>1. r = Min({BufCap - Len(buf), Len(cn.in)})
    BY DEF Readable, Room
  <2>2. BufCap - Len(buf) \in Int /\ Len(cn.in) \in Int
    BY <1>1, <1>2
  <2> HIDE DEF r
  <2>3. QED
    BY <2>1, <2>2, MinIs
<1>4. r \in 0..BufCap /\ r <= Len(cn.in) /\ r <= BufCap - Len(buf)
  BY <1>1, <1>2, <1>3
<1>5. new = [cn EXCEPT !.in = Drop(cn.in, r)]
  BY DEF AfterRead
<1>6. bytes = buf \o SubSeq(cn.in, 1, r)
  BY DEF Filled
<1> HIDE DEF r, new, bytes
<1>7. /\ Drop(cn.in, r) \in Seq(Int) /\ Len(Drop(cn.in, r)) = Len(cn.in) - r
      /\ \A k \in 1..Len(cn.in) - r : Drop(cn.in, r)[k] = cn.in[r + k]
  <2>1. r \in Nat
    BY <1>2, <1>4
  <2>2. QED
    BY <1>1, <1>4, <2>1, DropIs, Zenon
<1>8. /\ new \in ConnectionType /\ new.in = Drop(cn.in, r)
      /\ new.out = cn.out /\ new.fd = cn.fd /\ new.eof = cn.eof /\ new.hup = cn.hup
  BY <1>5, <1>7 DEF ConnectionType
<1>9. SubSeq(cn.in, 1, r) \in Seq(Int) /\ Len(SubSeq(cn.in, 1, r)) = r
      /\ \A k \in 1..r : SubSeq(cn.in, 1, r)[k] = cn.in[k]
  BY <1>1, <1>4
<1>10. /\ bytes \in Seq(Int) /\ Len(bytes) = Len(buf) + r
       /\ \A k \in 1..Len(bytes) :
            bytes[k] = IF k <= Len(buf) THEN buf[k] ELSE cn.in[k - Len(buf)]
  <2> DEFINE piece == SubSeq(cn.in, 1, r)
  <2>1. bytes = buf \o piece /\ piece \in Seq(Int) /\ Len(piece) = r
        /\ \A k \in 1..r : piece[k] = cn.in[k]
    BY <1>6, <1>9
  <2> HIDE DEF piece
  <2>2. /\ bytes \in Seq(Int) /\ Len(bytes) = Len(buf) + r
        /\ \A k \in 1..Len(buf) + r :
             bytes[k] = IF k <= Len(buf) THEN buf[k] ELSE piece[k - Len(buf)]
    BY <2>1, AppendIs
  <2>3. \A k \in 1..Len(buf) + r : ~(k <= Len(buf)) => k - Len(buf) \in 1..r
    BY <1>1, <1>2, <1>4
  <2>4. QED
    BY <2>1, <2>2, <2>3
<1>11. Reads(cn, buf, r, new, bytes)
  BY <1>1, <1>2, <1>4, <1>7, <1>8, <1>10 DEF Reads
<1>12. QED
  BY <1>11 DEF r, new, bytes

\* A transfer out of it adds n bytes behind those that have gone out before.
Writes(cn, buf, l, n, cn2) ==
  /\ cn2 \in ConnectionType /\ Len(cn2.out) = Len(cn.out) + n
  /\ \A k \in 1..Len(cn2.out) :
       cn2.out[k] = IF k <= Len(cn.out) THEN cn.out[k] ELSE buf[Len(buf) - l + k - Len(cn.out)]
  /\ cn2.in = cn.in /\ cn2.fd = cn.fd /\ cn2.eof = cn.eof /\ cn2.hup = cn.hup

LEMMA WriteIs ==
  ASSUME NEW cn \in ConnectionType, NEW buf \in Seq(Int), NEW l \in Nat, l <= Len(buf),
         NEW n \in 1..l
  PROVE  Writes(cn, buf, l, n, AfterWrite(cn, buf, l, n))
<1> DEFINE done == Len(buf) - l
           piece == SubSeq(buf, done + 1, done + n)
           new == AfterWrite(cn, buf, l, n)
<1>1. cn.out \in Seq(Int) /\ Len(cn.out) \in Nat /\ Len(buf) \in Nat /\ n \in Nat /\ done \in Nat
      /\ done + n <= Len(buf)
  BY DEF ConnectionType
<1>2. new = [cn EXCEPT !.out = cn.out \o piece]
  BY DEF AfterWrite
<1> HIDE DEF new
<1>3. piece \in Seq(Int) /\ Len(piece) = n /\ \A k \in 1..n : piece[k] = buf[done + k]
  BY <1>1
<1> HIDE DEF piece
<1>4. /\ cn.out \o piece \in Seq(Int) /\ Len(cn.out \o piece) = Len(cn.out) + n
      /\ \A k \in 1..Len(cn.out) + n :
           (cn.out \o piece)[k] = IF k <= Len(cn.out) THEN cn.out[k]
                                  ELSE buf[Len(buf) - l + k - Len(cn.out)]
  <2>1. /\ cn.out \o piece \in Seq(Int) /\ Len(cn.out \o piece) = Len(cn.out) + n
        /\ \A k \in 1..Len(cn.out) + n :
             (cn.out \o piece)[k] = IF k <= Len(cn.out) THEN cn.out[k]
                                    ELSE piece[k - Len(cn.out)]
    <3>1. /\ cn.out \o piece \in Seq(Int) /\ Len(cn.out \o piece) = Len(cn.out) + Len(piece)
          /\ \A k \in 1..Len(cn.out) + Len(piece) :
               (cn.out \o piece)[k] = IF k <= Len(cn.out) THEN cn.out[k]
                                      ELSE piece[k - Len(cn.out)]
      BY <1>1, <1>3, AppendIs, Zenon
    <3>2. QED
      BY <1>3, <3>1, Zenon
  <2>2. \A k \in 1..Len(cn.out) + n : ~(k <= Len(cn.out)) =>
          piece[k - Len(cn.out)] = buf[Len(buf) - l + k - Len(cn.out)]
    <3> TAKE k \in 1..Len(cn.out) + n
    <3> HAVE ~(k <= Len(cn.out))
    <3>1. k - Len(cn.out) \in 1..n
      BY <1>1
    <3>2. piece[k - Len(cn.out)] = buf[done + (k - Len(cn.out))]
      BY <1>3, <3>1
    <3>3. done + (k - Len(cn.out)) = Len(buf) - l + k - Len(cn.out)
      BY <1>1
    <3>4. QED
      BY <3>2, <3>3
  <2>3. QED
    BY <2>1, <2>2, Zenon
<1>5. /\ new \in ConnectionType /\ new.out = cn.out \o piece
      /\ new.in = cn.in /\ new.fd = cn.fd /\ new.eof = cn.eof /\ new.hup = cn.hup
  BY <1>2, <1>4 DEF ConnectionType
<1>6. Writes(cn, buf, l, n, new)
  BY <1>4, <1>5 DEF Writes
<1>7. QED
  BY <1>6 DEF new
-----------------------------------------------------------------------------
(* What they make of the client's bytes.                                   *)

LEMMA ArriveFlows ==
  ASSUME NEW in \in Seq(Int), NEW buf \in Seq(Int), NEW b, NEW s \in Nat,
         Flow(in, buf, b, s), s < Len(Data)
  PROVE  Flow(Append(in, Data[s + 1]), buf, b, s + 1)
<1> DEFINE x == Data[s + 1]
           n == b + Len(buf)
<1>1. n \in Nat /\ s = n + Len(in) /\ Piece(in, n) /\ b \in Nat /\ Piece(buf, b)
  BY DEF Flow
<1>2. s + 1 = b + Len(buf) + (Len(in) + 1)
  BY <1>1
<1> HIDE DEF x, n
<1>3. Len(Append(in, x)) = Len(in) + 1
  OBVIOUS
<1>4. ASSUME NEW k \in 1..Len(in) + 1 PROVE Append(in, x)[k] = Data[n + k]
  <2>1. CASE k = Len(in) + 1
    <3>1. n + k = s + 1
      BY <1>1, <2>1
    <3>2. QED
      BY <2>1, <3>1 DEF x
  <2>2. CASE k # Len(in) + 1
    BY <1>1, <1>4, <2>2 DEF Piece
  <2>3. QED
    BY <2>1, <2>2
<1>5. QED
  BY <1>1, <1>2, <1>3, <1>4 DEF Flow, Piece, x, n

LEMMA ReadFlows ==
  ASSUME NEW cn \in ConnectionType, NEW buf \in Seq(Int), NEW r, NEW cn2, NEW buf2,
         Reads(cn, buf, r, cn2, buf2), NEW b, NEW s, Flow(cn.in, buf, b, s)
  PROVE  Flow(cn2.in, buf2, b, s)
<1> DEFINE in == cn.in
           in2 == cn2.in
<1>1. in \in Seq(Int) /\ in2 \in Seq(Int) /\ buf2 \in Seq(Int) /\ r \in Nat
  BY CapAssumption DEF ConnectionType, Reads
<1>2. /\ r <= Len(in) /\ Len(buf2) = Len(buf) + r /\ Len(in2) = Len(in) - r
      /\ \A k \in 1..Len(buf2) : buf2[k] = IF k <= Len(buf) THEN buf[k] ELSE in[k - Len(buf)]
      /\ \A k \in 1..Len(in2) : in2[k] = in[r + k]
  BY DEF Reads
<1>3. b \in Nat /\ Piece(buf, b) /\ Piece(in, b + Len(buf)) /\ s = b + Len(buf) + Len(in)
  BY DEF Flow
<1> HIDE DEF in, in2
<1>4. ASSUME NEW k \in 1..Len(buf2) PROVE buf2[k] = Data[b + k]
  <2> DEFINE p == Len(buf)
             q == Len(in)
  <2>1. p \in Nat /\ q \in Nat /\ b \in Nat /\ r \in Nat /\ k \in 1..p + r /\ r <= q
    BY <1>1, <1>2, <1>3
  <2> HIDE DEF p, q
  <2>2. /\ k <= p => k \in 1..p
        /\ ~(k <= p) => k - p \in 1..q /\ b + p + (k - p) = b + k
    BY <2>1
  <2>3. CASE k <= Len(buf)
    <3>1. buf[k] = Data[b + k]
      BY <1>3, <2>3, <2>2 DEF Piece, p
    <3>2. QED
      BY <1>2, <2>3, <3>1
  <2>4. CASE ~(k <= Len(buf))
    <3>1. k - Len(buf) \in 1..Len(in) /\ b + Len(buf) + (k - Len(buf)) = b + k
      BY <2>4, <2>2 DEF p, q
    <3>2. in[k - Len(buf)] = Data[b + Len(buf) + (k - Len(buf))]
      BY <1>3, <3>1 DEF Piece
    <3>3. buf2[k] = in[k - Len(buf)]
      BY <1>2, <2>4
    <3>4. QED
      BY <3>1, <3>2, <3>3
  <2>5. QED
    BY <2>3, <2>4
<1>5. ASSUME NEW k \in 1..Len(in2) PROVE in2[k] = Data[b + Len(buf2) + k]
  <2>1. r + k \in 1..Len(in) /\ b + Len(buf) + (r + k) = b + Len(buf2) + k
    BY <1>1, <1>2, <1>3
  <2>2. in[r + k] = Data[b + Len(buf) + (r + k)]
    BY <1>3, <2>1 DEF Piece
  <2>3. in2[k] = in[r + k]
    BY <1>2
  <2>4. QED
    BY <2>1, <2>2, <2>3
<1>6. s = b + Len(buf2) + Len(in2)
  BY <1>1, <1>2, <1>3
<1>7. QED
  BY <1>3, <1>4, <1>5, <1>6 DEF Flow, Piece, in2

\* The bytes that go out follow those that the client was given before.
LEMMA WriteFlows ==
  ASSUME NEW cn \in ConnectionType, NEW buf \in Seq(Int), NEW l \in Nat, l <= Len(buf),
         NEW n \in 1..l, NEW cn2, Writes(cn, buf, l, n, cn2), Piece(cn.out, 0),
         NEW s, Flow(cn.in, buf, Len(cn.out) + l - Len(buf), s)
  PROVE  /\ Piece(cn2.out, 0) /\ Len(cn2.out) <= s
         /\ Flow(cn2.in, buf, Len(cn2.out) + (l - n) - Len(buf), s)
<1> DEFINE out == cn.out
           out2 == cn2.out
           b == Len(out) + l - Len(buf)
<1>1. out \in Seq(Int) /\ out2 \in Seq(Int) /\ cn.in \in Seq(Int) /\ cn2.in = cn.in
  BY DEF ConnectionType, Writes
<1>2. /\ Len(out2) = Len(out) + n
      /\ \A k \in 1..Len(out2) : out2[k] = IF k <= Len(out) THEN out[k]
                                           ELSE buf[Len(buf) - l + k - Len(out)]
  BY DEF Writes
<1>3. /\ b \in Nat /\ Piece(buf, b) /\ s = b + Len(buf) + Len(cn.in) /\ Piece(out, 0)
      /\ Flow(cn.in, buf, b, s)
  BY DEF Flow
<1>4. /\ Len(out2) + (l - n) - Len(buf) = b /\ Len(cn.in) \in Nat
      /\ Len(out2) <= b + Len(buf)
  BY <1>1, <1>2
<1> HIDE DEF out, out2
<1>5. Len(out2) <= s
  <2> DEFINE p == Len(out2)
             q == b + Len(buf)
             i == Len(cn.in)
  <2>1. p \in Nat /\ q \in Nat /\ i \in Nat /\ p <= q /\ s = q + i
    BY <1>1, <1>3, <1>4
  <2> HIDE DEF p, q, i
  <2>2. p <= s
    BY <2>1
  <2>3. QED
    BY <2>2 DEF p
<1>6. ASSUME NEW k \in 1..Len(out2) PROVE out2[k] = Data[0 + k]
  <2>1. CASE k <= Len(out)
    <3>1. k \in 1..Len(out)
      BY <1>1, <1>2, <2>1
    <3>2. out[k] = Data[0 + k]
      BY <1>3, <3>1 DEF Piece
    <3>3. QED
      BY <1>2, <2>1, <3>2
  <2>2. CASE ~(k <= Len(out))
    <3> DEFINE i == Len(buf) - l + k - Len(out)
    <3> DEFINE p == Len(out)
               q == Len(buf)
    <3>1. /\ p \in Nat /\ q \in Nat /\ l \in Nat /\ l <= q /\ n \in 1..l
          /\ k \in 1..p + n /\ ~(k <= p) /\ i = q - l + k - p /\ b = p + l - q
      BY <1>1, <1>2, <2>2
    <3> HIDE DEF p, q, i, b
    <3>2. i \in 1..q /\ b + i = 0 + k
      BY <3>1
    <3>3. out2[k] = buf[i]
      BY <1>2, <2>2 DEF i
    <3>4. i \in 1..Len(buf)
      BY <3>2 DEF q
    <3>5. buf[i] = Data[b + i]
      BY <1>3, <3>4 DEF Piece
    <3>6. QED
      BY <3>2, <3>3, <3>5
  <2>3. QED
    BY <2>1, <2>2
<1>7. QED
  BY <1>1, <1>3, <1>4, <1>5, <1>6 DEF Piece, out2

\* A buffer that has gone out as a whole is emptied.
LEMMA ClearFlows ==
  ASSUME NEW in \in Seq(Int), NEW buf \in Seq(Int), NEW o \in Nat, NEW s,
         Flow(in, buf, o + 0 - Len(buf), s)
  PROVE  Flow(in, <<>>, o, s)
<1>1. /\ o + 0 - Len(buf) + Len(buf) = o /\ Len(<<>>) = 0 /\ o + 0 = o
  OBVIOUS
<1>2. Piece(in, o) /\ s = o + Len(in)
  BY <1>1 DEF Flow
<1>3. QED
  BY <1>1, <1>2 DEF Flow, Piece
-----------------------------------------------------------------------------
LEMMA InitServerInv == ServerInit => ServerInv
<1> SUFFICES ASSUME ServerInit PROVE ServerInv
  OBVIOUS
<1> USE DEF ServerInit, NewConnection, Pending
<1>1. ServerTypeOK
  <2>1. [fd |-> "none", in |-> <<>>, out |-> <<>>, eof |-> FALSE, hup |-> FALSE] \in ConnectionType
    BY DEF ConnectionType
  <2>2. conn \in [Clients -> ConnectionType]
    BY <2>1
  <2>3. buffers \in [Clients -> Seq(Int)] /\ \A c \in Clients : Len(buffers[c]) <= BufCap
    BY CapAssumption
  <2>4. Len(Data) \in Nat /\ BufCap \in Nat
    BY CapAssumption, DataAssumption
  <2>5. sent \in [Clients -> 0..Len(Data)] /\ left \in [Clients -> 0..BufCap]
    BY <2>4
  <2>6. ret \in [Clients -> {Pending, Failed} \cup 0..BufCap]
    BY DEF Failed
  <2>7. backlog \in Seq(Clients)
    OBVIOUS
  <2>8. /\ {edge, revents_} \subseteq BOOLEAN
        /\ acceptor \in {"accept", "register", "failed"} /\ clifd \in Clients \cup {Nobody}
        /\ open \subseteq Clients
        /\ echo \in [Clients -> {"none", "recv", "send", "close", "done"}]
    OBVIOUS
  <2>9. QED
    BY <2>2, <2>3, <2>5, <2>6, <2>8, <2>7, Zenon DEF ServerTypeOK
<1>2. QueueInv
  BY NobodyAssumption DEF QueueInv
<1>3. FdInv
  BY FdLimitAssumption, NobodyAssumption, FS_EmptySet DEF FdInv
<1>4. FlowInv
  BY DEF FlowInv, FlowOf, Flow, Behind, Piece
<1>5. QED
  BY <1>1, <1>2, <1>3, <1>4 DEF ServerInv

\* What is true of a client's bytes stays true when none of them moves.
LEMMA SameFlow ==
  ASSUME NEW d \in Clients, FlowOf(d),
         conn'[d].in = conn[d].in, conn'[d].out = conn[d].out, conn'[d].hup = conn[d].hup,
         sent'[d] = sent[d], echo'[d] = "send" <=> echo[d] = "send",
         buffers'[d] = buffers[d], left'[d] = left[d], ret'[d] = ret[d]
  PROVE  FlowOf(d)'
BY DEF FlowOf, Flow, Behind, Piece

Serving == {"recv", "send", "close"}

\* Nor does a client change hands by a transfer.
LEMMA SameHands ==
  ASSUME QueueInv, FdInv, UNCHANGED <<backlog, acceptor, clifd, open>>,
         \A c \in Clients :
           /\ conn'[c].fd = conn[c].fd
           /\ echo'[c] = echo[c] \/ {echo[c], echo'[c]} \subseteq Serving,
         ServerTypeOK
  PROVE  QueueInv' /\ FdInv'
<1>1. QueueInv'
  <2>1. \A i \in DOMAIN backlog : backlog[i] \in Clients
    BY DEF ServerTypeOK
  <2>2. \A i \in DOMAIN backlog : echo'[backlog[i]] = "none" /\ backlog[i] # clifd
    BY <2>1 DEF QueueInv, Serving
  <2>3. \A c \in Clients : conn'[c].fd = "none" =>
          echo'[c] = "none" /\ c # clifd /\ \A i \in DOMAIN backlog : backlog[i] # c
    BY DEF QueueInv, Serving
  <2>4. QED
    BY <2>2, <2>3 DEF QueueInv
<1>2. FdInv'
  BY DEF FdInv, Serving, ServerTypeOK
<1>3. QED
  BY <1>1, <1>2
-----------------------------------------------------------------------------
(* One lemma for each action: it keeps the invariant.                      *)

LEMMA ConnectKeeps == ASSUME ServerInv, NEW c \in Clients, Connect(c) PROVE ServerInv'
<1> USE DEF Connect, ServerInv, echoes
<1>1. /\ conn' \in [Clients -> ConnectionType]
      /\ \A d \in Clients : /\ conn'[d].fd = IF d = c THEN "open" ELSE conn[d].fd
                            /\ conn'[d].in = conn[d].in /\ conn'[d].out = conn[d].out
                            /\ conn'[d].hup = conn[d].hup
  BY DEF ServerTypeOK, ConnectionType
<1>2. /\ backlog \in Seq(Clients) /\ backlog' \in Seq(Clients)
      /\ \A i \in DOMAIN backlog' :
           \/ i \in DOMAIN backlog /\ backlog'[i] = backlog[i]
           \/ i = Len(backlog) + 1 /\ i \notin DOMAIN backlog /\ backlog'[i] = c
  <2>1. backlog \in Seq(Clients) /\ backlog' = Append(backlog, c)
    BY DEF ServerTypeOK
  <2>2. backlog' \in Seq(Clients) /\ DOMAIN backlog' = 1..Len(backlog) + 1
        /\ DOMAIN backlog = 1..Len(backlog) /\ Len(backlog) \in Nat
    BY <2>1
  <2>3. \A i \in 1..Len(backlog) + 1 :
          backlog'[i] = IF i = Len(backlog) + 1 THEN c ELSE backlog[i]
    BY <2>1
  <2>4. QED
    BY <2>1, <2>2, <2>3
<1>3. ServerTypeOK'
  BY <1>1, <1>2 DEF ServerTypeOK
<1>4. QueueInv'
  <2>1. echo[c] = "none" /\ c # clifd /\ \A i \in DOMAIN backlog : backlog[i] # c
    BY DEF QueueInv
  <2>2. \A i, j \in DOMAIN backlog' : backlog'[i] = backlog'[j] => i = j
    BY <1>2, <2>1 DEF QueueInv
  <2>3. \A i \in DOMAIN backlog' : echo[backlog'[i]] = "none" /\ backlog'[i] # clifd
    BY <1>2, <2>1 DEF QueueInv
  <2>4. \A d \in Clients : conn'[d].fd = "none" =>
          echo[d] = "none" /\ d # clifd /\ \A i \in DOMAIN backlog' : backlog'[i] # d
    BY <1>1, <1>2 DEF QueueInv
  <2>5. QED
    BY <2>2, <2>3, <2>4 DEF QueueInv
<1>5. FdInv'
  BY DEF FdInv
<1>6. FlowInv'
  BY <1>1, SameFlow DEF FlowInv
<1>7. QED
  BY <1>3, <1>4, <1>5, <1>6

LEMMA ClientSendsKeeps == ASSUME ServerInv, NEW c \in Clients, ClientSends(c) PROVE ServerInv'
<1> DEFINE x == Data[sent[c] + 1]
           new == [conn[c] EXCEPT !.in = Append(conn[c].in, x)]
<1>1. /\ conn \in [Clients -> ConnectionType] /\ sent \in [Clients -> 0..Len(Data)]
      /\ buffers \in [Clients -> Seq(Int)]
      /\ sent[c] < Len(Data) /\ Data \in Seq(Nat) /\ Len(Data) \in Nat
  BY DataAssumption DEF ServerInv, ServerTypeOK, ClientSends
<1>2. sent[c] \in Nat /\ sent[c] + 1 \in 1..Len(Data) /\ sent[c] + 1 \in 0..Len(Data)
  BY <1>1
<1>3. x \in Int
  BY <1>1, <1>2
<1>4. /\ conn[c] \in ConnectionType /\ conn[c].in \in Seq(Int) /\ conn[c].out \in Seq(Int)
      /\ Append(conn[c].in, x) \in Seq(Int)
  BY <1>1, <1>3 DEF ConnectionType
<1>5. /\ conn' = [conn EXCEPT ![c] = new] /\ sent' = [sent EXCEPT ![c] = sent[c] + 1]
      /\ UNCHANGED <<listener, acceptor, clifd, open, echoes>>
  BY DEF ClientSends
<1> HIDE DEF x
<1>6. /\ new \in ConnectionType /\ new.in = Append(conn[c].in, x)
      /\ new.fd = conn[c].fd /\ new.out = conn[c].out /\ new.hup = conn[c].hup
  BY <1>4 DEF ConnectionType
<1> HIDE DEF new
<1>7. /\ conn' \in [Clients -> ConnectionType] /\ conn'[c] = new
      /\ \A d \in Clients : d # c => conn'[d] = conn[d]
      /\ sent' \in [Clients -> 0..Len(Data)] /\ sent'[c] = sent[c] + 1
      /\ \A d \in Clients : d # c => sent'[d] = sent[d]
  BY <1>1, <1>2, <1>5, <1>6
<1>8. ServerTypeOK'
  BY <1>5, <1>7 DEF ServerInv, ServerTypeOK, listener, echoes
<1>9. QueueInv' /\ FdInv'
  BY <1>5, <1>6, <1>7, SameHands DEF ServerInv, listener, echoes
<1>10. \A d \in Clients : d # c => FlowOf(d)'
  BY <1>5, <1>7, SameFlow DEF ServerInv, FlowInv, echoes
<1>11. FlowOf(c)'
  <2>1. FlowOf(c)
    BY DEF ServerInv, FlowInv
  <2>2. Behind(c)' = Behind(c) /\ UNCHANGED <<echo, buffers, left, ret>>
    BY <1>5, <1>6, <1>7 DEF Behind, echoes
  <2>3. Len(conn'[c].out) <= sent'[c] /\ Piece(conn'[c].out, 0)
    BY <1>2, <1>4, <1>6, <1>7, <2>1 DEF FlowOf
  <2>4. ASSUME ~conn[c].hup PROVE Flow(new.in, buffers[c], Behind(c), sent[c] + 1)
    <3>1. Flow(conn[c].in, buffers[c], Behind(c), sent[c]) /\ buffers[c] \in Seq(Int)
      BY <1>1, <2>1, <2>4 DEF FlowOf
    <3>2. Flow(Append(conn[c].in, x), buffers[c], Behind(c), sent[c] + 1)
      BY <1>1, <1>2, <1>4, <3>1, ArriveFlows DEF x
    <3>3. QED
      BY <1>6, <3>2
  <2>5. QED
    BY <1>6, <1>7, <2>1, <2>2, <2>3, <2>4 DEF FlowOf, Flow, Piece
<1>12. QED
  BY <1>8, <1>9, <1>10, <1>11 DEF ServerInv, FlowInv

LEMMA ClientShutsDownKeeps ==
  ASSUME ServerInv, NEW c \in Clients, ClientShutsDown(c) PROVE ServerInv'
<1> USE DEF ClientShutsDown, ServerInv, echoes, listener
<1>1. /\ conn' \in [Clients -> ConnectionType]
      /\ \A d \in Clients : /\ conn'[d].fd = conn[d].fd /\ conn'[d].hup = conn[d].hup
                            /\ conn'[d].in = conn[d].in /\ conn'[d].out = conn[d].out
  BY DEF ServerTypeOK, ConnectionType
<1>2. ServerTypeOK'
  BY <1>1 DEF ServerTypeOK
<1>3. QueueInv' /\ FdInv'
  BY <1>1, SameHands
<1>4. FlowInv'
  BY <1>1, SameFlow DEF FlowInv
<1>5. QED
  BY <1>2, <1>3, <1>4

LEMMA ListenerKeeps ==
  ASSUME ServerInv, ReportConnection \/ NothingToAccept \/ NoDescriptor \/ AcceptAgain
  PROVE  ServerInv'
<1> USE DEF ReportConnection, NothingToAccept, NoDescriptor, AcceptAgain, Trying, ServerInv,
            echoes, listener
<1>1. ServerTypeOK'
  BY DEF ServerTypeOK
<1>2. QueueInv'
  BY DEF QueueInv
<1>3. FdInv'
  BY DEF FdInv
<1>4. FlowInv'
  BY SameFlow DEF FlowInv
<1>5. QED
  BY <1>1, <1>2, <1>3, <1>4

LEMMA AcceptKeeps == ASSUME ServerInv, Accept PROVE ServerInv'
<1> USE DEF Accept, Trying, ServerInv, echoes
<1> DEFINE c == Head(backlog)
<1>1. /\ backlog \in Seq(Clients) /\ backlog # <<>> /\ c = backlog[1] /\ c \in Clients
      /\ 1 \in DOMAIN backlog /\ clifd = Nobody /\ Nobody \notin Clients
  BY NobodyAssumption DEF ServerTypeOK, FdInv
<1>2. /\ backlog' \in Seq(Clients)
      /\ \A i \in DOMAIN backlog' :
           i + 1 \in DOMAIN backlog /\ i + 1 # 1 /\ backlog'[i] = backlog[i + 1]
      /\ \A i, j \in DOMAIN backlog' : i + 1 = j + 1 => i = j
  BY <1>1
<1>3. ServerTypeOK'
  BY <1>1, <1>2 DEF ServerTypeOK
<1>4. QueueInv'
  <2>1. \A i, j \in DOMAIN backlog' : backlog'[i] = backlog'[j] => i = j
    BY <1>2 DEF QueueInv
  <2>2. \A i \in DOMAIN backlog' : echo[backlog'[i]] = "none" /\ backlog'[i] # c
    BY <1>1, <1>2 DEF QueueInv
  <2>3. \A d \in Clients : conn[d].fd = "none" =>
          echo[d] = "none" /\ d # c /\ \A i \in DOMAIN backlog' : backlog'[i] # d
    BY <1>1, <1>2 DEF QueueInv
  <2>4. QED
    BY <2>1, <2>2, <2>3 DEF QueueInv
<1>5. FdInv'
  <2>1. echo[c] = "none" /\ c \notin open
    BY <1>1 DEF QueueInv, FdInv
  <2>2. IsFiniteSet(open \cup {c}) /\ Cardinality(open \cup {c}) = Cardinality(open) + 1
    BY <2>1, FS_AddElement DEF FdInv
  <2>3. Cardinality(open) \in Nat
    BY FS_CardinalityType DEF FdInv
  <2>4. IsFiniteSet(open)' /\ Cardinality(open)' <= FdLimit
    BY <2>2, <2>3, FdLimitAssumption
  <2>5. QED
    BY <1>1, <2>1, <2>4 DEF FdInv
<1>6. FlowInv'
  BY SameFlow DEF FlowInv
<1>7. QED
  BY <1>3, <1>4, <1>5, <1>6

LEMMA CloseFdIs ==
  ASSUME ServerInv, NEW c \in Clients, CloseFd(c)
  PROVE  /\ conn' \in [Clients -> ConnectionType]
         /\ \A d \in Clients : /\ conn'[d].fd = IF d = c THEN "closed" ELSE conn[d].fd
                               /\ conn'[d].in = conn[d].in /\ conn'[d].out = conn[d].out
                               /\ conn'[d].hup = conn[d].hup
         /\ IsFiniteSet(open') /\ Cardinality(open') <= FdLimit
<1> USE DEF CloseFd, ServerInv
<1>1. IsFiniteSet(open) /\ IsFiniteSet(open \ {c})
  BY FS_RemoveElement DEF FdInv
<1>2. Cardinality(open \ {c}) = IF c \in open THEN Cardinality(open) - 1 ELSE Cardinality(open)
  BY <1>1, FS_RemoveElement
<1>3. Cardinality(open) \in Nat /\ FdLimit \in Nat
  BY <1>1, FS_CardinalityType, FdLimitAssumption
<1>4. IsFiniteSet(open') /\ Cardinality(open') <= FdLimit
  BY <1>1, <1>2, <1>3 DEF FdInv
<1>5. QED
  BY <1>4 DEF ServerTypeOK, ConnectionType

LEMMA RegisterFailsKeeps == ASSUME ServerInv, RegisterFails PROVE ServerInv'
<1> USE DEF RegisterFails, ServerInv, echoes, listener
<1>1. clifd \in Clients /\ Nobody \notin Clients
  BY NobodyAssumption DEF ServerTypeOK, FdInv
<1>2. /\ conn' \in [Clients -> ConnectionType]
      /\ \A d \in Clients : /\ conn'[d].fd = IF d = clifd THEN "closed" ELSE conn[d].fd
                            /\ conn'[d].in = conn[d].in /\ conn'[d].out = conn[d].out
                            /\ conn'[d].hup = conn[d].hup
      /\ IsFiniteSet(open') /\ Cardinality(open') <= FdLimit /\ open' = open \ {clifd}
  BY <1>1, CloseFdIs DEF CloseFd
<1>3. ServerTypeOK'
  BY <1>1, <1>2 DEF ServerTypeOK
<1>4. QueueInv'
  <2>1. \A i \in DOMAIN backlog : backlog[i] \in Clients
    BY DEF ServerTypeOK
  <2>2. \A i \in DOMAIN backlog : backlog[i] # Nobody
    BY <1>1, <2>1
  <2>3. QED
    BY <1>1, <1>2, <2>2 DEF QueueInv
<1>5. FdInv'
  BY <1>1, <1>2 DEF FdInv
<1>6. FlowInv'
  BY <1>2, SameFlow DEF FlowInv
<1>7. QED
  BY <1>3, <1>4, <1>5, <1>6

LEMMA StartEchoKeeps == ASSUME ServerInv, StartEcho PROVE ServerInv'
<1> USE DEF StartEcho, ServerInv, listener
<1>1. clifd \in Clients /\ Nobody \notin Clients /\ echo[clifd] = "none"
  BY NobodyAssumption DEF ServerTypeOK, FdInv
<1>2. ServerTypeOK'
  BY <1>1 DEF ServerTypeOK
<1>3. QueueInv'
  <2>1. \A i \in DOMAIN backlog : backlog[i] \in Clients /\ backlog[i] # clifd /\ backlog[i] # Nobody
    BY <1>1 DEF QueueInv, ServerTypeOK
  <2>2. conn[clifd].fd # "none"
    BY <1>1 DEF QueueInv
  <2>3. echo' = [echo EXCEPT ![clifd] = "recv"] /\ clifd' = Nobody /\ UNCHANGED <<backlog, conn>>
        /\ \A c \in Clients : c # clifd => echo'[c] = echo[c]
    BY DEF ServerTypeOK
  <2>4. QED
    BY <1>1, <2>1, <2>2, <2>3 DEF QueueInv
<1>4. FdInv'
  BY <1>1 DEF FdInv, ServerTypeOK
<1>5. FlowInv'
  <2> SUFFICES ASSUME NEW d \in Clients PROVE FlowOf(d)'
    BY DEF FlowInv
  <2>1. QED
    BY <1>1, SameFlow DEF FlowInv, ServerTypeOK
<1>6. QED
  BY <1>2, <1>3, <1>4, <1>5
LEMMA ReceiveKeeps == ASSUME ServerInv, NEW c \in Clients, Receive(c) PROVE ServerInv'
<1> DEFINE r == Readable(conn[c], buffers[c])
           new == AfterRead(conn[c], buffers[c])
           bytes == Filled(conn[c], buffers[c])
<1>1. /\ conn \in [Clients -> ConnectionType] /\ sent \in [Clients -> 0..Len(Data)]
      /\ buffers \in [Clients -> Seq(Int)] /\ Len(buffers[c]) <= BufCap
      /\ ret \in [Clients -> {Pending, Failed} \cup 0..BufCap]
  BY DEF ServerInv, ServerTypeOK
<1>2. /\ echo[c] = "recv" /\ conn' = [conn EXCEPT ![c] = new]
      /\ buffers' = [buffers EXCEPT ![c] = bytes] /\ ret' = [ret EXCEPT ![c] = r]
      /\ UNCHANGED <<listener, acceptor, clifd, open, sent, echo, left>>
  BY DEF Receive, Result
<1>3. /\ conn[c] \in ConnectionType /\ buffers[c] \in Seq(Int)
      /\ conn[c].in \in Seq(Int) /\ conn[c].out \in Seq(Int)
  BY <1>1 DEF ConnectionType
<1>4. Reads(conn[c], buffers[c], r, new, bytes)
  BY <1>1, <1>3, ReadIs
<1> HIDE DEF r, new, bytes
<1>5. /\ conn' \in [Clients -> ConnectionType] /\ conn'[c] = new
      /\ buffers' \in [Clients -> Seq(Int)] /\ buffers'[c] = bytes
      /\ ret' \in [Clients -> {Pending, Failed} \cup 0..BufCap]
      /\ \A d \in Clients : d # c =>
           conn'[d] = conn[d] /\ buffers'[d] = buffers[d] /\ ret'[d] = ret[d]
      /\ Len(bytes) <= BufCap
      /\ new.out = conn[c].out /\ new.fd = conn[c].fd /\ new.hup = conn[c].hup
  BY <1>1, <1>2, <1>4 DEF Reads
<1>6. ServerTypeOK'
  BY <1>2, <1>5 DEF ServerInv, ServerTypeOK, listener
<1>7. QueueInv' /\ FdInv'
  BY <1>2, <1>5, SameHands DEF ServerInv, listener
<1>8. \A d \in Clients : d # c => FlowOf(d)'
  BY <1>2, <1>5, SameFlow DEF ServerInv, FlowInv
<1>9. FlowOf(c)'
  <2>1. FlowOf(c) /\ Behind(c)' = Behind(c)
    BY <1>2, <1>5 DEF ServerInv, FlowInv, Behind
  <2>2. Len(conn'[c].out) <= sent'[c] /\ Piece(conn'[c].out, 0)
    BY <1>2, <1>5, <2>1 DEF FlowOf
  <2>3. ~conn[c].hup => Flow(new.in, bytes, Behind(c), sent[c])
    BY <1>3, <1>4, <2>1, ReadFlows DEF FlowOf
  <2>4. QED
    BY <1>2, <1>5, <2>1, <2>2, <2>3 DEF FlowOf, Flow, Piece
<1>10. QED
  BY <1>6, <1>7, <1>8, <1>9 DEF ServerInv, FlowInv

LEMMA ReceivedKeeps == ASSUME ServerInv, NEW c \in Clients, Received(c) PROVE ServerInv'
<1>1. /\ conn \in [Clients -> ConnectionType] /\ left \in [Clients -> 0..BufCap]
      /\ ret \in [Clients -> {Pending, Failed} \cup 0..BufCap]
      /\ buffers[c] \in Seq(Int) /\ Len(buffers[c]) \in 0..BufCap
      /\ echo \in [Clients -> {"none", "recv", "send", "close", "done"}] /\ echo[c] = "recv"
      /\ UNCHANGED <<listener, acceptor, clifd, open, conn, sent, buffers>>
  BY CapAssumption DEF ServerInv, ServerTypeOK, Received
<1>2. /\ echo' \in [Clients -> {"none", "recv", "send", "close", "done"}]
      /\ echo'[c] \in {"send", "close"} /\ left' \in [Clients -> 0..BufCap]
      /\ ret' \in [Clients -> {Pending, Failed} \cup 0..BufCap]
      /\ echo'[c] = "send" => left'[c] = Len(buffers[c]) /\ ret'[c] = Pending
      /\ \A d \in Clients : d # c => echo'[d] = echo[d] /\ left'[d] = left[d] /\ ret'[d] = ret[d]
  BY <1>1 DEF Received, Move, Result
<1>3. ServerTypeOK'
  BY <1>1, <1>2 DEF ServerInv, ServerTypeOK, listener
<1>4. QueueInv' /\ FdInv'
  BY <1>1, <1>2, SameHands DEF ServerInv, listener, Serving
<1>5. \A d \in Clients : d # c => FlowOf(d)'
  BY <1>1, <1>2, SameFlow DEF ServerInv, FlowInv
<1>6. FlowOf(c)'
  <2>1. FlowOf(c) /\ Behind(c) = Len(conn[c].out) /\ Len(conn[c].out) \in Nat
    BY <1>1 DEF ServerInv, FlowInv, Behind, ConnectionType
  <2>2. Behind(c)' = Behind(c)
    BY <1>1, <1>2, <2>1 DEF Behind
  <2>3. echo'[c] = "send" => left'[c] <= Len(buffers[c]) /\ ret'[c] = Pending
    BY <1>1, <1>2
  <2>4. QED
    BY <1>1, <2>1, <2>2, <2>3 DEF FlowOf, Flow, Piece
<1>7. QED
  BY <1>3, <1>4, <1>5, <1>6 DEF ServerInv, FlowInv

LEMMA TransmitKeeps == ASSUME ServerInv, NEW c \in Clients, Transmit(c) PROVE ServerInv'
<1>1. /\ conn \in [Clients -> ConnectionType] /\ sent \in [Clients -> 0..Len(Data)]
      /\ buffers \in [Clients -> Seq(Int)] /\ Len(buffers[c]) \in 0..BufCap
      /\ left \in [Clients -> 0..BufCap] /\ ret \in [Clients -> {Pending, Failed} \cup 0..BufCap]
      /\ BufCap \in Nat /\ FlowOf(c) /\ echo[c] = "send" /\ left[c] <= Len(buffers[c])
      /\ UNCHANGED <<listener, acceptor, clifd, open, sent, echo, buffers>>
  BY CapAssumption DEF ServerInv, ServerTypeOK, FlowInv, FlowOf, Transmit
<1>2. CASE conn[c].hup /\ Result(c, Failed) /\ UNCHANGED <<conn, left>>
  <2>1. /\ ret' \in [Clients -> {Pending, Failed} \cup 0..BufCap]
        /\ \A d \in Clients : d # c => ret'[d] = ret[d]
    BY <1>1, <1>2 DEF Result
  <2>2. ServerTypeOK'
    BY <1>1, <1>2, <2>1 DEF ServerInv, ServerTypeOK, listener
  <2>3. QueueInv' /\ FdInv'
    BY <1>1, <1>2, SameHands DEF ServerInv, listener
  <2>4. \A d \in Clients : d # c => FlowOf(d)'
    BY <1>1, <1>2, <2>1, SameFlow DEF ServerInv, FlowInv
  <2>5. FlowOf(c)'
    BY <1>1, <1>2 DEF FlowOf, Flow, Piece
  <2>6. QED
    BY <2>2, <2>3, <2>4, <2>5 DEF ServerInv, FlowInv
<1>3. ASSUME NEW n \in 1..left[c], ~conn[c].hup,
             conn' = [conn EXCEPT ![c] = AfterWrite(@, buffers[c], left[c], n)],
             left' = [left EXCEPT ![c] = @ - n],
             IF n = left[c] THEN Result(c, Len(buffers[c])) ELSE UNCHANGED ret,
             ret[c] = Pending
      PROVE  ServerInv'
  <2> DEFINE new == AfterWrite(conn[c], buffers[c], left[c], n)
  <2>1. /\ conn[c] \in ConnectionType /\ buffers[c] \in Seq(Int) /\ conn[c].out \in Seq(Int)
        /\ left[c] \in Nat /\ conn[c].in \in Seq(Int)
    BY <1>1 DEF ConnectionType
  <2>2. Writes(conn[c], buffers[c], left[c], n, new)
    BY <1>1, <2>1, WriteIs
  <2>3. conn' = [conn EXCEPT ![c] = new]
    BY <1>3
  <2> HIDE DEF new
  <2>4. /\ left[c] - n \in 0..BufCap /\ left[c] - n <= Len(buffers[c])
        /\ n = left[c] <=> left[c] - n = 0
    BY <1>1, <2>1
  <2>5. /\ conn' \in [Clients -> ConnectionType] /\ conn'[c] = new
        /\ \A d \in Clients : d # c => conn'[d] = conn[d]
        /\ new.in = conn[c].in /\ new.fd = conn[c].fd /\ new.hup = conn[c].hup
    BY <1>1, <2>2, <2>3 DEF Writes
  <2>6. /\ left' \in [Clients -> 0..BufCap] /\ left'[c] = left[c] - n
        /\ \A d \in Clients : d # c => left'[d] = left[d]
    BY <1>1, <1>3, <2>4
  <2>7. /\ ret' \in [Clients -> {Pending, Failed} \cup 0..BufCap]
        /\ ret'[c] = IF n = left[c] THEN Len(buffers[c]) ELSE Pending
        /\ \A d \in Clients : d # c => ret'[d] = ret[d]
    BY <1>1, <1>3 DEF Result
  <2>8. ServerTypeOK'
    BY <1>1, <2>5, <2>6, <2>7 DEF ServerInv, ServerTypeOK, listener
  <2>9. QueueInv' /\ FdInv'
    BY <1>1, <2>5, SameHands DEF ServerInv, listener
  <2>10. \A d \in Clients : d # c => FlowOf(d)'
    BY <1>1, <2>5, <2>6, <2>7, SameFlow DEF ServerInv, FlowInv
  <2>11. FlowOf(c)'
    <3>1. /\ Behind(c) = Len(conn[c].out) + left[c] - Len(buffers[c])
          /\ Behind(c)' = Len(new.out) + (left[c] - n) - Len(buffers[c])
      BY <1>1, <2>5, <2>6 DEF Behind
    <3>2. Piece(conn[c].out, 0) /\ Flow(conn[c].in, buffers[c], Behind(c), sent[c])
      BY <1>1, <1>3 DEF FlowOf
    <3>3. /\ Piece(new.out, 0) /\ Len(new.out) <= sent[c]
          /\ Flow(new.in, buffers[c], Behind(c)', sent[c])
      <4>1. Flow(conn[c].in, buffers[c], Len(conn[c].out) + left[c] - Len(buffers[c]), sent[c])
        BY <3>1, <3>2
      <4>2. /\ Piece(new.out, 0) /\ Len(new.out) <= sent[c]
            /\ Flow(new.in, buffers[c], Len(new.out) + (left[c] - n) - Len(buffers[c]), sent[c])
        BY <1>1, <2>1, <2>2, <3>2, <4>1, WriteFlows
      <4>3. QED
        BY <3>1, <4>2
    <3>4. left'[c] <= Len(buffers[c])
      BY <2>4, <2>6
    <3>5. ret'[c] # Pending => ret'[c] = Len(buffers[c]) /\ left'[c] = 0
      BY <2>4, <2>6, <2>7
    <3>6. QED
      BY <1>1, <2>5, <3>3, <3>4, <3>5 DEF FlowOf, Flow, Piece
  <2>12. QED
    BY <2>8, <2>9, <2>10, <2>11 DEF ServerInv, FlowInv
<1>4. QED
  BY <1>2, <1>3 DEF Transmit

LEMMA SentKeeps == ASSUME ServerInv, NEW c \in Clients, Sent(c) PROVE ServerInv'
<1> DEFINE rest == AfterSend(buffers[c], ret[c])
<1>1. /\ conn \in [Clients -> ConnectionType]
      /\ buffers \in [Clients -> Seq(Int)] /\ Len(buffers[c]) <= BufCap
      /\ ret \in [Clients -> {Pending, Failed} \cup 0..BufCap] /\ BufCap \in Nat
      /\ echo \in [Clients -> {"none", "recv", "send", "close", "done"}]
      /\ FlowOf(c) /\ echo[c] = "send" /\ ret[c] # Pending
  BY CapAssumption DEF ServerInv, ServerTypeOK, FlowInv, Sent
<1>2. /\ buffers' = [buffers EXCEPT ![c] = rest] /\ echo' = [echo EXCEPT ![c] = "recv"]
      /\ ret' = [ret EXCEPT ![c] = Pending]
      /\ UNCHANGED <<listener, acceptor, clifd, open, conn, sent, left>>
  BY DEF Sent, Move, Result
<1>3. buffers[c] \in Seq(Int) /\ Len(buffers[c]) \in Nat
  BY <1>1
<1>4. rest \in Seq(Int) /\ Len(rest) <= BufCap
  BY <1>1, <1>3 DEF AfterSend, Drop, Pending, Failed
<1>5. ret[c] = Len(buffers[c]) => rest = <<>>
  <2>1. Len(buffers[c]) # Failed
    BY <1>3 DEF Failed
  <2>2. SubSeq(buffers[c], Len(buffers[c]) + 1, Len(buffers[c])) = <<>>
    BY <1>3
  <2>3. QED
    BY <2>1, <2>2 DEF AfterSend, Drop
<1> HIDE DEF rest
<1>6. /\ buffers' \in [Clients -> Seq(Int)] /\ buffers'[c] = rest /\ echo'[c] = "recv"
      /\ ret' \in [Clients -> {Pending, Failed} \cup 0..BufCap]
      /\ echo' \in [Clients -> {"none", "recv", "send", "close", "done"}]
      /\ \A d \in Clients : d # c =>
           buffers'[d] = buffers[d] /\ ret'[d] = ret[d] /\ echo'[d] = echo[d]
  BY <1>1, <1>2, <1>4
<1>7. ServerTypeOK'
  BY <1>2, <1>4, <1>6 DEF ServerInv, ServerTypeOK, listener
<1>8. QueueInv' /\ FdInv'
  BY <1>1, <1>2, <1>6, SameHands DEF ServerInv, listener, Serving
<1>9. \A d \in Clients : d # c => FlowOf(d)'
  BY <1>2, <1>6, SameFlow DEF ServerInv, FlowInv
<1>10. FlowOf(c)'
  <2>1. /\ Behind(c) = Len(conn[c].out) + left[c] - Len(buffers[c])
        /\ Behind(c)' = Len(conn[c].out) /\ Len(conn[c].out) \in Nat /\ Len(conn[c].in) \in Nat
    BY <1>1, <1>2, <1>6 DEF Behind, ConnectionType
  <2>2. Len(conn'[c].out) <= sent'[c] /\ Piece(conn'[c].out, 0)
    BY <1>1, <1>2 DEF FlowOf
  <2>3. ASSUME ~conn[c].hup PROVE Flow(conn[c].in, rest, Len(conn[c].out), sent[c])
    <3>1. /\ ret[c] = Len(buffers[c]) /\ left[c] = 0
          /\ Flow(conn[c].in, buffers[c], Behind(c), sent[c])
      BY <1>1, <2>3 DEF FlowOf
    <3>2. conn[c].in \in Seq(Int)
      BY <1>1 DEF ConnectionType
    <3>3. Flow(conn[c].in, buffers[c], Len(conn[c].out) + 0 - Len(buffers[c]), sent[c])
      BY <2>1, <3>1
    <3>4. Flow(conn[c].in, <<>>, Len(conn[c].out), sent[c])
      BY <1>1, <1>3, <2>1, <3>2, <3>3, ClearFlows
    <3>5. QED
      BY <1>5, <3>1, <3>4
  <2>4. ~conn'[c].hup => Flow(conn'[c].in, buffers'[c], Behind(c)', sent'[c])
    BY <1>2, <1>6, <2>1, <2>3
  <2>5. QED
    BY <1>6, <2>2, <2>4 DEF FlowOf, Flow, Piece
<1>11. QED
  BY <1>7, <1>8, <1>9, <1>10 DEF ServerInv, FlowInv

LEMMA ShutdownReportedKeeps ==
  ASSUME ServerInv, NEW c \in Clients, ShutdownReported(c) PROVE ServerInv'
<1>1. UNCHANGED <<backlog, edge, revents_, acceptor, clifd, open, sent, echo, buffers, left, ret>>
  BY DEF ShutdownReported, echoes, listener
<1>2. /\ conn' \in [Clients -> ConnectionType] /\ conn'[c].hup
      /\ \A d \in Clients : /\ conn'[d].fd = conn[d].fd /\ conn'[d].in = conn[d].in
                            /\ conn'[d].out = conn[d].out
                            /\ d # c => conn'[d].hup = conn[d].hup
  BY DEF ShutdownReported, ServerInv, ServerTypeOK, ConnectionType
<1>3. ServerTypeOK'
  BY <1>1, <1>2 DEF ServerInv, ServerTypeOK
<1>4. QueueInv' /\ FdInv'
  BY <1>1, <1>2, SameHands DEF ServerInv
<1>5. \A d \in Clients : d # c => FlowOf(d)'
  BY <1>1, <1>2, SameFlow DEF ServerInv, FlowInv
<1>6. FlowOf(c)'
  BY <1>1, <1>2 DEF ServerInv, FlowInv, FlowOf, Flow, Piece
<1>7. QED
  BY <1>3, <1>4, <1>5, <1>6 DEF ServerInv, FlowInv

LEMMA CloseKeeps == ASSUME ServerInv, NEW c \in Clients, Close(c) PROVE ServerInv'
<1>1. /\ CloseFd(c) /\ echo[c] = "close" /\ echo' = [echo EXCEPT ![c] = "done"]
      /\ UNCHANGED <<backlog, edge, revents_, acceptor, clifd, sent, buffers, left, ret>>
      /\ echo \in [Clients -> {"none", "recv", "send", "close", "done"}]
  BY DEF Close, Move, listener, ServerInv, ServerTypeOK
<1>2. /\ conn' \in [Clients -> ConnectionType]
      /\ \A d \in Clients : /\ conn'[d].fd = IF d = c THEN "closed" ELSE conn[d].fd
                            /\ conn'[d].in = conn[d].in /\ conn'[d].out = conn[d].out
                            /\ conn'[d].hup = conn[d].hup
      /\ IsFiniteSet(open') /\ Cardinality(open') <= FdLimit /\ open' = open \ {c}
  BY <1>1, CloseFdIs DEF CloseFd
<1>3. /\ echo' \in [Clients -> {"none", "recv", "send", "close", "done"}] /\ echo'[c] = "done"
      /\ \A d \in Clients : d # c => echo'[d] = echo[d]
  BY <1>1
<1>4. ServerTypeOK'
  BY <1>1, <1>2, <1>3 DEF ServerInv, ServerTypeOK
<1>5. QueueInv'
  <2>1. \A i \in DOMAIN backlog : backlog[i] \in Clients /\ backlog[i] # c
    BY <1>1 DEF ServerInv, ServerTypeOK, QueueInv
  <2>2. QED
    BY <1>1, <1>2, <1>3, <2>1 DEF ServerInv, QueueInv
<1>6. FdInv'
  <2>1. c # clifd /\ clifd \in Clients \cup {Nobody}
    BY <1>1, NobodyAssumption DEF ServerInv, FdInv, ServerTypeOK
  <2>2. QED
    BY <1>1, <1>2, <1>3, <2>1 DEF ServerInv, FdInv
<1>7. FlowInv'
  <2> SUFFICES ASSUME NEW d \in Clients PROVE FlowOf(d)'
    BY DEF FlowInv
  <2>1. QED
    BY <1>1, <1>2, <1>3, SameFlow DEF ServerInv, FlowInv
<1>8. QED
  BY <1>4, <1>5, <1>6, <1>7 DEF ServerInv
-----------------------------------------------------------------------------
LEMMA NextServerInv == ServerInv /\ [ServerNext]_serverVars => ServerInv'
<1> SUFFICES ASSUME ServerInv, [ServerNext]_serverVars PROVE ServerInv'
  OBVIOUS
<1>1. CASE UNCHANGED serverVars
  BY <1>1 DEF serverVars, listener, echoes, ServerInv, ServerTypeOK, QueueInv, FdInv, FlowInv,
              FlowOf, Flow, Behind, Piece
<1>2. CASE ReportConnection \/ Acceptor
  BY <1>2, ListenerKeeps, AcceptKeeps, RegisterFailsKeeps, StartEchoKeeps DEF Acceptor
<1>3. ASSUME NEW c \in Clients, Echo(c) PROVE ServerInv'
  BY <1>3, ReceiveKeeps, ReceivedKeeps, TransmitKeeps, SentKeeps, CloseKeeps,
     ShutdownReportedKeeps DEF Echo
<1>4. ASSUME NEW c \in Clients, Client(c) PROVE ServerInv'
  BY <1>4, ConnectKeeps, ClientSendsKeeps, ClientShutsDownKeeps DEF Client
<1>5. QED
  BY <1>1, <1>2, <1>3, <1>4 DEF ServerNext

\* ServerInv holds throughout.
THEOREM ServerInvariance == ServerSpec => []ServerInv
<1>1. ServerInv /\ [ServerNext]_serverVars => ServerInv'
  BY NextServerInv
<1>2. QED
  BY InitServerInv, <1>1, PTL DEF ServerSpec

\* Whatever fails, every descriptor that the process has open for a client is in
\* the hands of accept() or of one EchoCtx, which will close it.
THEOREM DescriptorsAreOwned == ServerSpec => []EveryDescriptorIsOwned
<1>1. ServerInv => EveryDescriptorIsOwned
  <2> SUFFICES ASSUME ServerInv PROVE EveryDescriptorIsOwned
    OBVIOUS
  <2>1. clifd \in Clients \cup {Nobody} /\ open \subseteq Clients
    BY DEF ServerInv, ServerTypeOK
  <2>2. open = {c \in Clients : echo[c] \in {"recv", "send", "close"}} \cup ({clifd} \ {Nobody})
    BY <2>1, NobodyAssumption DEF ServerInv, FdInv
  <2>3. QED
    BY <2>2 DEF ServerInv, FdInv, EveryDescriptorIsOwned
<1>2. QED
  BY <1>1, ServerInvariance, PTL

\* For any clients, data, limit and size of the buffers: what a client is given
\* is a prefix of what it has sent.
THEOREM EchoIsInOrder == ServerSpec => []EchoesInOrder
<1>1. ServerInv => EchoesInOrder
  <2> SUFFICES ASSUME ServerInv, NEW c \in Clients
               PROVE  IsPrefix(conn[c].out, SubSeq(Data, 1, sent[c]))
    BY DEF EchoesInOrder
  <2> DEFINE out == conn[c].out
             all == SubSeq(Data, 1, sent[c])
  <2>1. out \in Seq(Int) /\ sent[c] \in 0..Len(Data) /\ Data \in Seq(Nat)
    BY DataAssumption DEF ServerInv, ServerTypeOK, ConnectionType
  <2>2. /\ all \in Seq(Nat) /\ Len(all) = sent[c]
        /\ \A k \in 1..sent[c] : all[k] = Data[k]
    BY <2>1
  <2>3. Len(out) <= sent[c] /\ \A k \in 1..Len(out) : k \in Nat /\ out[k] = Data[0 + k] /\ 0 + k = k
    BY DEF ServerInv, FlowInv, FlowOf, Piece
  <2> HIDE DEF out, all
  <2>4. ASSUME NEW k \in 1..Len(out)
        PROVE  k \in 1..sent[c] /\ out[k] = all[k]
    <3>1. k \in 1..sent[c]
      BY <2>1, <2>3
    <3>2. all[k] = Data[k] /\ out[k] = Data[k]
      BY <2>2, <2>3, <3>1
    <3>3. QED
      BY <3>1, <3>2
  <2>5. SubSeq(out, 1, Len(out)) = SubSeq(all, 1, Len(out))
    BY <2>1, <2>2, <2>3, <2>4
  <2>6. QED
    BY <2>2, <2>3, <2>5 DEF IsPrefix, out, all
<1>2. QED
  BY <1>1, ServerInvariance, PTL
-----------------------------------------------------------------------------
(* A SOCKS5 session: SessionInv says, of every state,                      *)
(*                                                                         *)
(*   - where run() and handleRLink() can stand together and with which     *)
(*     descriptors (Places, Descriptors), and what a transfer that one of  *)
(*     them waits for still has to do (Transfers);                         *)
(*   - of all answers that can still be given (Answers), which bytes are   *)
(*     out, in __txBuf and on their way from the remote side (ToClient);   *)
(*   - the same of the client's bytes behind the first k (ToRemote);       *)
(*   - for a polite client, that k is the end of one of its messages, so   *)
(*     that a message is in __rxBuf as a whole when it is read (Polite);   *)
(*   - that a receive returns 0 or -1 only when a side has gone (Polite,   *)
(*     RelayGone).                                                         *)
(*                                                                         *)
(* One k has to serve both ToRemote and Polite, hence the common \E: what  *)
(* goes to the remote side begins where the request ends.                  *)

\* Where the two coroutines stand in each state of the session.
Places ==
  /\ relay # "none" <=> __state = "SOCK_LINKED"
  /\ run \in {"authSend", "thrown"} => __state = "SOCK_INIT"
  /\ run \in {"socket", "connect", "closeFailed", "replySend"} => __state = "SOCK_REQ"
  /\ run \in {"linkSend", "get", "closeRemote"} => __state = "SOCK_LINKED"
  /\ run = "closeRemote" => relay = "done"
  /\ run \in {"closeLocal", "done"} => relay \in {"none", "done"}
  /\ relay = "none" /\ run \notin {"closeLocal", "done"} => __linkflag
  /\ relay \in {"none", "start"} => result["relay"] = Pending

\* The descriptors at each place; a connection that has not been used is new.
Descriptors ==
  /\ local.fd = IF run = "done" THEN "closed" ELSE "open"
  /\ run \in {"connect", "closeFailed"} => remote.fd = "open"
  /\ run = "replySend" => remote.fd \in {"open", "bad"}
  /\ relay = "none" /\ run \notin {"connect", "closeFailed", "replySend"} => remote.fd = "none"
  /\ relay # "none" => remote.fd \in (IF run \in {"closeLocal", "done"} THEN {"closed", "bad"}
                                                                   ELSE {"open", "bad"})
  /\ remote.fd \in {"none", "bad"} \/ run \in {"connect", "closeFailed"} =>
       remote = NewConnection(remote.fd)
  /\ relay = "none" /\ run # "replySend" => remoteSent = 0
  /\ local.hup => local.eof
  /\ remote.hup => remote.eof

\* l bytes of buf have still to go out on cn; r is the result.
Underway(cn, buf, l, r) ==
  /\ l <= Len(buf)
  /\ cn.fd # "open" => l = Len(buf)
  /\ \/ r = Pending
     \/ r = Len(buf) /\ l = 0
     \/ r = Failed /\ (cn.hup \/ cn.fd # "open")

\* Every send that is under way, by who waits for it.
Transfers ==
  /\ run \in {"authSend", "replySend"} => Underway(local, __txBuf, unsent["run"], result["run"])
  /\ relay = "send" => Underway(local, __txBuf, unsent["relay"], result["relay"])
  /\ run = "linkSend" => Underway(remote, __rxBuf, unsent["run"], result["run"])

\* s is what stands in whole behind its first n members.
PartOf(whole, s, n) == \A i \in 1..Len(s) : s[i] = whole[n + i]

\* buf and then in are what stands in whole behind its first b members, and
\* end with its member t.
Stands(whole, b, buf, in, t) ==
  /\ b \in Nat /\ PartOf(whole, buf, b) /\ PartOf(whole, in, b + Len(buf))
  /\ b + Len(buf) + Len(in) = t

\* Of the first t members of whole, those behind the first k have gone out on cn
\* (as long as nobody gave up), are the last l of buf or stand in `in'.
Passes(whole, k, cn, buf, in, l, t) ==
  /\ k + Len(cn.out) <= t /\ PartOf(whole, cn.out, k)
  /\ ~cn.hup => Stands(whole, k + Len(cn.out) + l - Len(buf), buf, in, t)

\* The method has been answered; the request has; all that can be answered and
\* how much of it has been put into __txBuf or has come from the remote side.
Greeted == __state # "SOCK_INIT" \/ run = "authSend"
Replied == relay # "none" \/ run = "replySend"
Answers(m) == MethodAnswer(m) \o LinkAnswer \o RemoteData
Answered == IF Replied THEN 12 + remoteSent ELSE IF Greeted THEN 2 ELSE 0

\* Of __txBuf, what has still to go out, whoever sends; nobody uses it.
TxUnsent == IF run \in {"authSend", "replySend"} THEN unsent["run"]
            ELSE IF relay = "send" THEN unsent["relay"] ELSE Len(__txBuf)
TxIdle == /\ run \notin {"authSend", "replySend"}
          /\ relay \in {"none", "start"} \/ (relay = "recv" /\ result["relay"] = Pending)
ToClient(m) ==
  /\ Passes(Answers(m), 0, local, __txBuf, remote.in, TxUnsent, Answered)
  /\ ~local.hup /\ TxIdle => __txBuf = <<>>

\* The same of __rxBuf, which run() alone uses.
RxUnsent == IF run = "linkSend" THEN unsent["run"] ELSE Len(__rxBuf)
ToRemote(k) == Passes(Stream, k, remote, __rxBuf, local.in, RxUnsent, clientSent)

\* One of the two sides has gone, or never came.
OneGone == local.eof \/ remote.eof \/ remote.fd = "bad"

\* Of a polite client's messages the first k bytes have been taken.
Polite(k) ==
  /\ k \in {0, script.ends[1], script.ends[2]}
  /\ k = 0 <=> ~Greeted
  /\ Replied \/ run \in {"socket", "connect", "closeFailed"} => k = script.ends[2]
  /\ ~Replied => clientSent \in {k, IF k = 0 THEN script.ends[1] ELSE script.ends[2]}
  /\ __state # "SOCK_LINKED" /\ run = "recv" /\ result["run"] # Pending =>
       local.in = <<>> /\ (IF __rxBuf # <<>> THEN result["run"] > 0 ELSE result["run"] = 0 /\ local.eof)
  /\ run \in {"authSend", "socket", "connect", "closeFailed", "replySend"} => __rxBuf = <<>>
  /\ run = "recv" /\ result["run"] = Pending =>
       __rxBuf = <<>> \/ (__state = "SOCK_LINKED" /\ OneGone)
  /\ run = "recv" /\ result["run"] \in {Failed, 0} => OneGone
  /\ ~__linkflag => OneGone

\* handleRLink() is told of the end only when a side has gone.
RelayGone == relay = "recv" /\ result["relay"] \in {Failed, 0} => OneGone

\* The inductive invariant of a session.
SessionInv ==
  /\ SessionTypeOK /\ Places /\ Descriptors /\ Transfers /\ RelayGone
  /\ \E m \in {0, 255} : ToClient(m)
  /\ \E k \in 0..clientSent : ToRemote(k) /\ (script.polite => Polite(k))

\* What is left of a buffer fits into it.
LEMMA DropFits ==
  ASSUME NEW buf \in Seq(Int), NEW n \in Nat
  PROVE  Drop(buf, n) \in Seq(Int) /\ Len(Drop(buf, n)) <= Len(buf)
BY DEF Drop

\* A part of a sequence.
LEMMA SliceIs ==
  ASSUME NEW s \in Seq(Int), NEW a \in Nat, NEW n \in Nat, a + n <= Len(s)
  PROVE  /\ SubSeq(s, a + 1, a + n) \in Seq(Int) /\ Len(SubSeq(s, a + 1, a + n)) = n
         /\ \A i \in 1..n : SubSeq(s, a + 1, a + n)[i] = s[a + i]
OBVIOUS

\* A beginning of a buffer, also of a negative length.
LEMMA SubSeqIn ==
  ASSUME NEW buf \in Seq(Int), NEW n \in Int, n <= Len(buf)
  PROVE  /\ SubSeq(buf, 1, n) \in Seq(Int)
         /\ Len(SubSeq(buf, 1, n)) = IF n < 0 THEN 0 ELSE n
<1>1. CASE n >= 0
  BY <1>1
<1>2. CASE n < 0
  <2>1. SubSeq(buf, 1, n) = <<>>
    BY <1>2
  <2>2. QED
    BY <1>2, <2>1
<1>3. QED
  BY <1>1, <1>2

\* insert() fills a buffer and no more; what fits is appended.
LEMMA InsertFits ==
  ASSUME NEW buf \in Seq(Int), Len(buf) <= BufCap, NEW bytes \in Seq(Int)
  PROVE  /\ Insert(buf, bytes) \in Seq(Int) /\ Len(Insert(buf, bytes)) <= BufCap
         /\ Len(buf) + Len(bytes) <= BufCap => Insert(buf, bytes) = buf \o bytes
<1> DEFINE m == Min({Room(buf), Len(bytes)})
<1>1. BufCap \in Nat /\ Len(buf) \in Nat /\ Len(bytes) \in Nat
  BY CapAssumption
<1>2. m = IF BufCap - Len(buf) <= Len(bytes) THEN BufCap - Len(buf) ELSE Len(bytes)
  <2>1. BufCap - Len(buf) \in Int /\ Len(bytes) \in Int
    BY <1>1
  <2>2. QED
    BY <2>1, MinIs DEF Room
<1>3. Insert(buf, bytes) = buf \o SubSeq(bytes, 1, m)
  BY DEF Insert
<1> HIDE DEF m
<1>4. m \in Nat /\ m <= Len(bytes) /\ Len(buf) + m <= BufCap
      /\ (Len(buf) + Len(bytes) <= BufCap => m = Len(bytes))
  BY <1>1, <1>2
<1>5. SubSeq(bytes, 1, m) \in Seq(Int) /\ Len(SubSeq(bytes, 1, m)) = m
      /\ (m = Len(bytes) => SubSeq(bytes, 1, m) = bytes)
  BY <1>4
<1>6. buf \o SubSeq(bytes, 1, m) \in Seq(Int) /\ Len(buf \o SubSeq(bytes, 1, m)) = Len(buf) + m
  BY <1>5
<1>7. Len(buf) + Len(bytes) <= BufCap => Insert(buf, bytes) = buf \o bytes
  BY <1>3, <1>4, <1>5
<1>8. QED
  BY <1>3, <1>4, <1>6, <1>7

\* After a send no more is in the buffer than before.
LEMMA AfterSendFits ==
  ASSUME NEW buf \in Seq(Int), NEW r \in {Failed} \cup 0..BufCap
  PROVE  AfterSend(buf, r) \in Seq(Int) /\ Len(AfterSend(buf, r)) <= Len(buf)
BY CapAssumption, DropFits DEF AfterSend, Failed

\* A script is a sequence of bytes.
LEMMA StreamIs ==
  ASSUME script \in Scripts
  PROVE  /\ Stream \in Seq(Int) /\ Len(Stream) \in Nat
         /\ \A i \in 1..Len(Stream) : Stream[i] \in Byte
         /\ script.polite \in BOOLEAN
<1>1. Stream \in Seq(Byte) /\ script.polite \in BOOLEAN
  BY ScriptsAssumption DEF Stream
<1>2. Stream \in [1..Len(Stream) -> Byte] /\ Len(Stream) \in Nat
  BY <1>1
<1>3. \A i \in 1..Len(Stream) : Stream[i] \in Byte /\ Stream[i] \in Int
  <2>1. \A x \in Byte : x \in Int
    BY DEF Byte
  <2>2. QED
    BY <1>2, <2>1
<1>4. Stream \in Seq(Int)
  BY <1>1, <1>2, <1>3
<1>5. QED
  BY <1>1, <1>2, <1>3, <1>4

\* What is left of it goes out in one or more pieces.
LEMMA PiecesAre ==
  ASSUME script \in Scripts, clientSent \in 0..Len(Stream), NEW n \in Pieces
  PROVE  n \in Nat \ {0} /\ clientSent + n <= Len(Stream)
<1>1. Len(Stream) \in Nat /\ clientSent \in Nat
  BY StreamIs
<1>2. CASE ~script.polite
  BY <1>1, <1>2 DEF Pieces
<1>3. CASE script.polite
  <2>1. script.ends \in Seq(1..Len(Stream))
        /\ \A i, j \in DOMAIN script.ends : i < j => script.ends[i] < script.ends[j]
    BY <1>3, ScriptsAssumption DEF Stream
  <2>2. PICK i \in DOMAIN script.ends :
          n = MessageEnd(i) - clientSent /\ clientSent = MessageEnd(i - 1)
    BY <1>3 DEF Pieces
  <2>3. i \in Nat \ {0} /\ i <= Len(script.ends) /\ script.ends[i] \in 1..Len(Stream)
    BY <2>1
  <2>4. MessageEnd(i) = script.ends[i]
    BY <2>3 DEF MessageEnd
  <2>5. clientSent < script.ends[i]
    <3>1. CASE i = 1
      BY <2>2, <2>3, <3>1 DEF MessageEnd
    <3>2. CASE i # 1
      <4>1. i - 1 \in DOMAIN script.ends /\ i - 1 < i /\ i - 1 # 0
        BY <2>1, <2>3, <3>2
      <4>2. QED
        BY <2>1, <2>2, <4>1 DEF MessageEnd
    <3>3. QED
      BY <3>1, <3>2
  <2>6. QED
    BY <1>1, <2>2, <2>3, <2>4, <2>5
<1>4. QED
  BY <1>2, <1>3

\* The answer to a request is complete.
LEMMA LinkAnswerOf ==
  ASSUME NEW a \in [1..4 -> Int]
  PROVE  /\ <<5, 0, 0, 1>> \o a \o <<1, 187>> \in Seq(Int)
         /\ Len(<<5, 0, 0, 1>> \o a \o <<1, 187>>) = 10
<1>1. \A n \in Nat : \A s \in [1..n -> Int] : s \in Seq(Int) /\ Len(s) = n
  OBVIOUS
<1>2. a \in Seq(Int) /\ Len(a) = 4
  BY <1>1
<1> DEFINE head == <<5, 0, 0, 1>>
           tail == <<1, 187>>
<1>3. /\ head \in Seq(Int) /\ Len(head) = 4 /\ tail \in Seq(Int) /\ Len(tail) = 2
  OBVIOUS
<1> HIDE DEF head, tail
<1>4. head \o a \in Seq(Int) /\ Len(head \o a) = 8
  <2>1. head \o a \in Seq(Int) /\ Len(head \o a) = Len(head) + Len(a)
    BY <1>2, <1>3, AppendIs
  <2>2. QED
    BY <1>2, <1>3, <2>1
<1> DEFINE most == head \o a
<1> HIDE DEF most, head, tail
<1>5. most \o tail \in Seq(Int) /\ Len(most \o tail) = Len(most) + Len(tail)
  BY <1>3, <1>4, AppendIs DEF most
<1>6. QED
  BY <1>3, <1>4, <1>5 DEF most, head, tail

\* The answer to the request has ten bytes.
LEMMA LinkAnswerIs ==
  ASSUME addr \in [1..4 -> Int]
  PROVE  LinkAnswer \in Seq(Int) /\ Len(LinkAnswer) = 10
BY LinkAnswerOf DEF LinkAnswer

\* The parts of the type invariant by themselves.
LEMMA TypesAre ==
  ASSUME SessionTypeOK
  PROVE  /\ local \in ConnectionType /\ remote \in ConnectionType
         /\ local.in \in Seq(Int) /\ local.out \in Seq(Int)
         /\ remote.in \in Seq(Int) /\ remote.out \in Seq(Int)
         /\ __rxBuf \in Seq(Int) /\ Len(__rxBuf) \in 0..BufCap
         /\ __txBuf \in Seq(Int) /\ Len(__txBuf) \in 0..BufCap
         /\ unsent["run"] \in 0..BufCap /\ unsent["relay"] \in 0..BufCap
         /\ result["run"] \in {Pending, Failed} \cup 0..BufCap
         /\ result["relay"] \in {Pending, Failed} \cup 0..BufCap
         /\ BufCap \in Nat /\ BufCap >= 10
         /\ Stream \in Seq(Int) /\ Len(Stream) \in Nat /\ clientSent \in 0..Len(Stream)
         /\ remoteSent \in 0..Len(RemoteData) /\ RemoteData \in Seq(Int)
<1>1. local \in ConnectionType /\ remote \in ConnectionType
  BY DEF SessionTypeOK
<1>2. /\ local.in \in Seq(Int) /\ local.out \in Seq(Int)
      /\ remote.in \in Seq(Int) /\ remote.out \in Seq(Int)
  BY <1>1 DEF ConnectionType
<1>3. BufCap \in Nat /\ BufCap >= 10
  BY CapAssumption, AnswerAssumption
<1>4. /\ __rxBuf \in Seq(Int) /\ Len(__rxBuf) \in 0..BufCap
      /\ __txBuf \in Seq(Int) /\ Len(__txBuf) \in 0..BufCap
  BY <1>3 DEF SessionTypeOK
<1>5. QED
  BY <1>1, <1>2, <1>3, <1>4, StreamIs, RemoteAssumption DEF SessionTypeOK, Loops

\* Values have their types at first.
LEMMA InitTypes == SessionInit => SessionTypeOK
<1> SUFFICES ASSUME SessionInit PROVE SessionTypeOK
  OBVIOUS
<1>1. {local, remote} \subseteq ConnectionType
  BY DEF SessionInit, NewConnection, ConnectionType
<1>2. \A buf \in {__rxBuf, __txBuf} : buf \in Seq(Int) /\ Len(buf) <= BufCap
  <2>1. <<>> \in Seq(Int) /\ Len(<<>>) = 0 /\ 0 <= BufCap
    BY CapAssumption
  <2>2. __rxBuf = <<>> /\ __txBuf = <<>>
    BY DEF SessionInit
  <2>3. QED
    BY <2>1, <2>2
<1>3. /\ addr \in [1..4 -> Int] /\ port \in [1..2 -> Int]
      /\ unsent \in [Loops -> 0..BufCap] /\ result \in [Loops -> {Pending, Failed} \cup 0..BufCap]
  BY CapAssumption DEF SessionInit, Unset, Pending, Failed
<1>4. /\ script \in Scripts /\ clientSent \in 0..Len(Stream) /\ remoteSent \in 0..Len(RemoteData)
  BY StreamIs, RemoteAssumption DEF SessionInit
<1>5. QED
  BY <1>1, <1>2, <1>3, <1>4 DEF SessionInit, SessionTypeOK
-----------------------------------------------------------------------------
(* What a transfer does, for each place where a coroutine waits for one.   *)

ReceivesInto(k, cn, buf, cn2, buf2) ==
  /\ result[k] = Pending /\ cn.fd = "open"
  /\ \E r \in 0..BufCap :
       /\ Reads(cn, buf, r, cn2, buf2)
       /\ r = Len(cn.in) \/ Len(buf2) = BufCap
       /\ r = 0 => Len(buf) = BufCap \/ cn.eof
       /\ result' = [result EXCEPT ![k] = r]
  /\ UNCHANGED unsent

SendsFrom(k, cn, buf, cn2) ==
  /\ result[k] = Pending /\ cn.fd = "open"
  /\ \/ cn.hup /\ result' = [result EXCEPT ![k] = Failed] /\ cn2 = cn /\ UNCHANGED unsent
     \/ /\ ~cn.hup
        /\ \E n \in 1..unsent[k] :
             /\ Writes(cn, buf, unsent[k], n, cn2)
             /\ unsent' = [unsent EXCEPT ![k] = @ - n]
             /\ result' = IF n = unsent[k] THEN [result EXCEPT ![k] = Len(buf)] ELSE result

RunReceives == /\ run = "recv" /\ ReceivesInto("run", local, __rxBuf, local', __rxBuf')
               /\ UNCHANGED <<remote, __txBuf>>
RelayReceives == /\ relay = "recv" /\ ReceivesInto("relay", remote, __txBuf, remote', __txBuf')
                 /\ UNCHANGED <<local, __rxBuf>>
RunAnswers == /\ run \in {"authSend", "replySend"} /\ SendsFrom("run", local, __txBuf, local')
              /\ UNCHANGED <<remote, __rxBuf, __txBuf>>
RunForwards == /\ run = "linkSend" /\ SendsFrom("run", remote, __rxBuf, remote')
               /\ UNCHANGED <<local, __rxBuf, __txBuf>>
RelayForwards == /\ relay = "send" /\ SendsFrom("relay", local, __txBuf, local')
                 /\ UNCHANGED <<remote, __rxBuf, __txBuf>>
FindsNothing(k) ==
  /\ Receiving(k) \/ Sending(k)
  /\ Conn(k).fd # "open" /\ result' = [result EXCEPT ![k] = Failed]
  /\ UNCHANGED <<local, remote, __rxBuf, __txBuf, unsent>>

\* What a receive does with its connection and buffer.
LEMMA ReceivesIs ==
  ASSUME NEW cn \in ConnectionType, NEW buf \in Seq(Int), Len(buf) <= BufCap, NEW k \in Loops,
         result[k] = Pending, CanReceive(cn, buf), Returns(k, Readable(cn, buf)), UNCHANGED unsent
  PROVE  ReceivesInto(k, cn, buf, AfterRead(cn, buf), Filled(cn, buf))
<1> DEFINE r == Readable(cn, buf)
           cn2 == AfterRead(cn, buf)
           buf2 == Filled(cn, buf)
<1>1. Reads(cn, buf, r, cn2, buf2)
  BY ReadIs
<1>2. Len(cn.in) \in Nat /\ Len(buf) \in Nat /\ BufCap \in Nat
  BY CapAssumption DEF ConnectionType
<1>3. r = IF BufCap - Len(buf) <= Len(cn.in) THEN BufCap - Len(buf) ELSE Len(cn.in)
  <2>1. BufCap - Len(buf) \in Int /\ Len(cn.in) \in Int
    BY <1>2
  <2>2. QED
    BY <2>1, MinIs DEF Readable, Room
<1>4. cn.fd = "open" /\ (r > 0 \/ BufCap - Len(buf) = 0 \/ cn.eof)
  BY DEF CanReceive, Room
<1>5. result' = [result EXCEPT ![k] = r]
  BY DEF Returns
<1> HIDE DEF r, cn2, buf2
<1>6. r \in 0..BufCap /\ Len(buf2) = Len(buf) + r
  BY <1>1 DEF Reads
<1>7. r = Len(cn.in) \/ Len(buf2) = BufCap
  BY <1>2, <1>3, <1>6
<1>8. r = 0 => Len(buf) = BufCap \/ cn.eof
  BY <1>2, <1>4
<1>9. ReceivesInto(k, cn, buf, cn2, buf2)
  BY <1>1, <1>4, <1>5, <1>6, <1>7, <1>8 DEF ReceivesInto
<1>10. QED
  BY <1>9 DEF cn2, buf2

\* What a send does with its connection and buffer.
LEMMA SendsIs ==
  ASSUME NEW cn \in ConnectionType, NEW buf \in Seq(Int), NEW k \in Loops,
         unsent[k] \in Nat, unsent[k] <= Len(buf), result[k] = Pending, cn.fd = "open",
         NEW cn2,
         \/ cn.hup /\ Returns(k, Failed) /\ cn2 = cn /\ UNCHANGED unsent
         \/ \E n \in 1..unsent[k] :
              /\ ~cn.hup /\ cn2 = AfterWrite(cn, buf, unsent[k], n)
              /\ unsent' = [unsent EXCEPT ![k] = @ - n]
              /\ IF n = unsent[k] THEN Returns(k, Len(buf)) ELSE UNCHANGED result
  PROVE  SendsFrom(k, cn, buf, cn2)
<1>1. CASE cn.hup /\ Returns(k, Failed) /\ cn2 = cn /\ UNCHANGED unsent
  BY <1>1 DEF SendsFrom, Returns
<1>2. ASSUME NEW n \in 1..unsent[k], ~cn.hup, cn2 = AfterWrite(cn, buf, unsent[k], n),
             unsent' = [unsent EXCEPT ![k] = @ - n],
             IF n = unsent[k] THEN Returns(k, Len(buf)) ELSE UNCHANGED result
      PROVE  SendsFrom(k, cn, buf, cn2)
  <2>1. Writes(cn, buf, unsent[k], n, cn2)
    BY <1>2, WriteIs
  <2>2. result' = IF n = unsent[k] THEN [result EXCEPT ![k] = Len(buf)] ELSE result
    BY <1>2 DEF Returns
  <2>3. QED
    BY <1>2, <2>1, <2>2 DEF SendsFrom
<1>3. QED
  BY <1>1, <1>2

\* Each transfer is one of the five that a session can wait for, or waitFile()
\* does not know its descriptor.
LEMMA TransferIs ==
  ASSUME SessionTypeOK, Places, Transfers, Transfer
  PROVE  /\ UNCHANGED <<peers, __state, __linkflag, addr, port, run, relay>>
         /\ \/ RunReceives \/ RelayReceives \/ RunAnswers \/ RunForwards \/ RelayForwards
            \/ \E k \in Loops : FindsNothing(k)
<1> DEFINE Moves == \/ RunReceives \/ RelayReceives \/ RunAnswers \/ RunForwards \/ RelayForwards
                    \/ \E k \in Loops : FindsNothing(k)
           Still == UNCHANGED <<peers, __state, __linkflag, addr, port, run, relay>>
<1>0. /\ local \in ConnectionType /\ remote \in ConnectionType
      /\ __rxBuf \in Seq(Int) /\ Len(__rxBuf) <= BufCap
      /\ __txBuf \in Seq(Int) /\ Len(__txBuf) <= BufCap
      /\ "run" \in Loops /\ "relay" \in Loops /\ "run" # "relay"
      /\ unsent["run"] \in Nat /\ unsent["relay"] \in Nat
  BY TypesAre DEF Loops
<1>1. PICK k \in Loops : TransferOnNothing(k) \/ TransferIn(k) \/ TransferOut(k)
  BY DEF Transfer, TransferOf
<1>2. CASE TransferOnNothing(k)
  <2>1. FindsNothing(k)
    BY <1>2 DEF TransferOnNothing, FindsNothing, Returns, session
  <2>2. QED
    BY <1>2, <2>1 DEF TransferOnNothing, session
<1>3. CASE TransferIn(k) /\ k = "run"
  <2>1. ~OnRemote(k) /\ run = "recv" /\ result[k] = Pending
    BY <1>0, <1>3 DEF TransferIn, OnRemote, Receiving, Place
  <2>2. /\ CanReceive(local, __rxBuf) /\ Returns(k, Readable(local, __rxBuf)) /\ UNCHANGED unsent
        /\ local' = AfterRead(local, __rxBuf) /\ __rxBuf' = Filled(local, __rxBuf)
        /\ UNCHANGED <<remote, __txBuf>> /\ Still
    BY <1>0, <1>3, <2>1 DEF TransferIn, Conn, SetConn
  <2>3. ReceivesInto("run", local, __rxBuf, local', __rxBuf')
    BY <1>0, <1>3, <2>1, <2>2, ReceivesIs
  <2>4. QED
    BY <2>1, <2>2, <2>3 DEF RunReceives
<1>4. CASE TransferIn(k) /\ k = "relay"
  <2>1. OnRemote(k) /\ relay = "recv" /\ result[k] = Pending
    BY <1>0, <1>4 DEF TransferIn, OnRemote, Receiving, Place
  <2>2. /\ CanReceive(remote, __txBuf) /\ Returns(k, Readable(remote, __txBuf)) /\ UNCHANGED unsent
        /\ remote' = AfterRead(remote, __txBuf) /\ __txBuf' = Filled(remote, __txBuf)
        /\ UNCHANGED <<local, __rxBuf>> /\ Still
    BY <1>0, <1>4, <2>1 DEF TransferIn, Conn, SetConn
  <2>3. ReceivesInto("relay", remote, __txBuf, remote', __txBuf')
    BY <1>0, <1>4, <2>1, <2>2, ReceivesIs
  <2>4. QED
    BY <2>1, <2>2, <2>3 DEF RelayReceives
<1>5. CASE TransferOut(k)
  <2> DEFINE Out(cn, buf, cn2) ==
               \/ cn.hup /\ Returns(k, Failed) /\ cn2 = cn /\ UNCHANGED unsent
               \/ \E n \in 1..unsent[k] :
                    /\ ~cn.hup /\ cn2 = AfterWrite(cn, buf, unsent[k], n)
                    /\ unsent' = [unsent EXCEPT ![k] = @ - n]
                    /\ IF n = unsent[k] THEN Returns(k, Len(buf)) ELSE UNCHANGED result
  <2>1. result[k] = Pending /\ Conn(k).fd = "open" /\ Still /\ UNCHANGED <<__rxBuf, __txBuf>>
    BY <1>5 DEF TransferOut, Sending, session
  <2>2. CASE k = "run" /\ run \in {"authSend", "replySend"}
    <3>1. ~OnRemote(k) /\ Place(k) # "linkSend"
      BY <1>0, <2>2 DEF OnRemote, Place
    <3>2. Out(local, __txBuf, local') /\ local.fd = "open" /\ UNCHANGED remote
      BY <1>5, <2>1, <3>1 DEF TransferOut, Conn, SetConn
    <3>3. unsent[k] <= Len(__txBuf)
      BY <2>2 DEF Transfers, Underway
    <3>4. SendsFrom("run", local, __txBuf, local')
      BY <1>0, <2>1, <2>2, <3>2, <3>3, SendsIs
    <3>5. QED
      BY <2>1, <2>2, <3>2, <3>4 DEF RunAnswers
  <2>3. CASE k = "run" /\ run = "linkSend"
    <3>1. OnRemote(k) /\ Place(k) = "linkSend"
      BY <1>0, <2>3 DEF OnRemote, Place
    <3>2. Out(remote, __rxBuf, remote') /\ remote.fd = "open" /\ UNCHANGED local
      BY <1>5, <2>1, <3>1 DEF TransferOut, Conn, SetConn
    <3>3. unsent[k] <= Len(__rxBuf)
      BY <2>3 DEF Transfers, Underway
    <3>4. SendsFrom("run", remote, __rxBuf, remote')
      BY <1>0, <2>1, <2>3, <3>2, <3>3, SendsIs
    <3>5. QED
      BY <2>1, <2>3, <3>2, <3>4 DEF RunForwards
  <2>4. CASE k = "relay" /\ relay = "send"
    <3>1. ~OnRemote(k) /\ Place(k) # "linkSend"
      BY <1>0, <2>4 DEF OnRemote, Place
    <3>2. Out(local, __txBuf, local') /\ local.fd = "open" /\ UNCHANGED remote
      BY <1>5, <2>1, <3>1 DEF TransferOut, Conn, SetConn
    <3>3. unsent[k] <= Len(__txBuf)
      BY <2>4 DEF Transfers, Underway
    <3>4. SendsFrom("relay", local, __txBuf, local')
      BY <1>0, <2>1, <2>4, <3>2, <3>3, SendsIs
    <3>5. QED
      BY <2>1, <2>4, <3>2, <3>4 DEF RelayForwards
  <2>5. QED
    <3>1. Place(k) \in {"authSend", "replySend", "linkSend", "send"}
      BY <1>5 DEF TransferOut, Sending
    <3>2. k = "run" \/ k = "relay"
      BY DEF Loops
    <3>3. k = "run" => run \in {"authSend", "replySend", "linkSend"}
      BY <3>1 DEF Place, SessionTypeOK
    <3>4. k = "relay" => relay = "send"
      BY <1>0, <3>1 DEF Place, SessionTypeOK
    <3>5. QED
      BY <2>2, <2>3, <2>4, <3>2, <3>3, <3>4
<1>6. QED
  BY <1>1, <1>2, <1>3, <1>4, <1>5 DEF Loops
-----------------------------------------------------------------------------
(* Values keep their types.                                                *)

\* Every step keeps the types.
LEMMA SessionTypesKept ==
  ASSUME SessionTypeOK, Places, Transfers, SessionNext
  PROVE  SessionTypeOK'
<1> DEFINE Peer == /\ script' \in Scripts
                   /\ clientSent' \in 0..Len(Stream') /\ remoteSent' \in 0..Len(RemoteData)
           Ends == local' \in ConnectionType /\ remote' \in ConnectionType
           Flags == __state' \in {"SOCK_INIT", "SOCK_REQ", "SOCK_LINKED"} /\ __linkflag' \in BOOLEAN
           Rx == __rxBuf' \in Seq(Int) /\ Len(__rxBuf') <= BufCap
           Tx == __txBuf' \in Seq(Int) /\ Len(__txBuf') <= BufCap
           Name == addr' \in [1..4 -> Int] /\ port' \in [1..2 -> Int]
           At == /\ run' \in {"recv", "authSend", "socket", "connect", "closeFailed",
                              "replySend", "linkSend", "get", "closeRemote", "closeLocal",
                              "done", "thrown"}
                 /\ relay' \in {"none", "start", "recv", "send", "done"}
           Counts == /\ unsent' \in [Loops -> 0..BufCap]
                     /\ result' \in [Loops -> {Pending, Failed} \cup 0..BufCap]
           Good == Peer /\ Ends /\ Flags /\ Rx /\ Tx /\ Name /\ At /\ Counts
<1> SUFFICES Good
  BY DEF SessionTypeOK
<1>a. UNCHANGED peers => Peer
  BY DEF peers, SessionTypeOK, Stream
<1>b. UNCHANGED <<local, remote>> => Ends
  BY DEF SessionTypeOK
<1>c. UNCHANGED <<__state, __linkflag>> => Flags
  BY DEF SessionTypeOK
<1>d. (UNCHANGED __rxBuf => Rx) /\ (UNCHANGED __txBuf => Tx)
  BY DEF SessionTypeOK
<1>e. UNCHANGED <<addr, port>> => Name
  BY DEF SessionTypeOK
<1>f. UNCHANGED <<run, relay>> => At
  BY DEF SessionTypeOK
<1>g. UNCHANGED <<unsent, result>> => Counts
  BY DEF SessionTypeOK
<1>h. UNCHANGED session => Flags /\ Rx /\ Tx /\ Name
  BY <1>c, <1>d, <1>e DEF session
<1>i. \A k \in Loops, n \in {Pending, Failed} \cup 0..BufCap :
        Returns(k, n) => result' \in [Loops -> {Pending, Failed} \cup 0..BufCap]
  BY DEF Returns, SessionTypeOK
<1>j. NextRound => run' \in {"recv", "get", "closeLocal"} /\ (UNCHANGED relay => At) /\ Counts
  <2>1. "run" \in Loops
    BY DEF Loops
  <2>2. QED
    BY <1>i, <2>1 DEF NextRound, Continue, SessionTypeOK
<1>k. \A k \in Loops, buf \in Seq(Int) : Send(k, buf) /\ Len(buf) <= BufCap => Counts
  <2> TAKE k \in Loops, buf \in Seq(Int)
  <2> HAVE Send(k, buf) /\ Len(buf) <= BufCap
  <2>1. Len(buf) \in 0..BufCap
    BY CapAssumption
  <2>2. QED
    BY <1>i, <2>1 DEF Send, SessionTypeOK
<1>l. __rxBuf \in Seq(Int) /\ __txBuf \in Seq(Int) /\ Len(__rxBuf) <= BufCap /\ Len(__txBuf) <= BufCap
      /\ BufCap \in Nat /\ "run" \in Loops /\ "relay" \in Loops
      /\ Len(__rxBuf) \in Nat /\ Len(__txBuf) \in Nat
  BY TypesAre DEF Loops
<1>m. \A n \in Nat : __rxBuf' = Drop(__rxBuf, n) => Rx
  BY <1>l, DropFits
<1> HIDE DEF Peer, Ends, Flags, Rx, Tx, Name, At, Counts, Good
<1>n. Peer /\ Ends /\ Flags /\ Rx /\ Tx /\ Name /\ At /\ Counts => Good
  BY DEF Good
<1>1. CASE LocalGone
  <2>1. At /\ Counts
    BY <1>1, <1>i, <1>l DEF LocalGone, Continue, At, Counts, SessionTypeOK
  <2>2. QED
    BY <1>1, <1>a, <1>b, <1>d, <1>e, <1>n, <2>1 DEF LocalGone, Flags, SessionTypeOK
<1>2. CASE AuthIgnored \/ ReqTooShort \/ CloseFailed
  <2>1. NewConnection("none") \in ConnectionType
    BY DEF NewConnection, ConnectionType
  <2>2. Ends
    BY <1>2, <1>b, <2>1 DEF AuthIgnored, ReqTooShort, CloseFailed, Ends, SessionTypeOK
  <2>3. QED
    BY <1>2, <1>a, <1>h, <1>j, <1>n, <2>2 DEF AuthIgnored, ReqTooShort, CloseFailed
<1>3. CASE Auth
  <2> DEFINE methods == Drop(__rxBuf, 2)
             arrived == SubSeq(methods, 1, Min({__rxBuf[2], Len(methods)}))
             accepted == Contains(arrived, 0)
  <2>1. methods \in Seq(Int) /\ Len(methods) <= BufCap
    BY <1>l, DropFits
  <2>2. \/ run' = "thrown" /\ __rxBuf' = methods /\ UNCHANGED <<__txBuf, unsent, result>>
        \/ /\ run' = "authSend" /\ __rxBuf' = Drop(methods, Len(arrived))
           /\ __txBuf' = Insert(__txBuf, MethodAnswer(IF accepted THEN 0 ELSE 255))
           /\ Send("run", __txBuf')
    BY <1>3 DEF Auth
  <2>3. UNCHANGED <<peers, local, remote, __state, __linkflag, addr, port, relay>>
    BY <1>3 DEF Auth
  <2> HIDE DEF methods
  <2>4. Len(arrived) \in Nat
    <3>1. __rxBuf[2] \in Int /\ Len(methods) \in Nat
      <4>1. Len(__rxBuf) >= 3
        BY <1>3 DEF Auth
      <4>2. QED
        BY <1>l, <2>1, <4>1
    <3>2. Min({__rxBuf[2], Len(methods)}) \in Int /\ Min({__rxBuf[2], Len(methods)}) <= Len(methods)
      BY <3>1, MinIs
    <3>3. QED
      BY <2>1, <3>1, <3>2, SubSeqIn
  <2> HIDE DEF arrived, accepted
  <2>5. Drop(methods, Len(arrived)) \in Seq(Int) /\ Len(Drop(methods, Len(arrived))) <= BufCap
    <3>1. Len(methods) \in Nat
      BY <2>1
    <3>2. Drop(methods, Len(arrived)) \in Seq(Int)
          /\ Len(Drop(methods, Len(arrived))) <= Len(methods)
      BY <2>1, <2>4, DropFits
    <3>3. Len(Drop(methods, Len(arrived))) \in Nat
      BY <3>2
    <3>4. QED
      BY <1>l, <2>1, <3>1, <3>2, <3>3
  <2>6. \A b \in {0, 255} : MethodAnswer(b) \in Seq(Int)
    BY DEF MethodAnswer
  <2>7. Rx
    BY <2>1, <2>2, <2>5 DEF Rx
  <2>8. Tx
    BY <1>d, <1>l, <2>2, <2>6, InsertFits DEF Tx
  <2>9. Counts
    BY <1>g, <1>k, <1>l, <2>2, <2>8 DEF Tx
  <2>10. At
    BY <2>2, <2>3 DEF At, SessionTypeOK
  <2>11. QED
    BY <1>a, <1>b, <1>c, <1>e, <1>n, <2>3, <2>7, <2>8, <2>9, <2>10
<1>4. CASE AuthSent \/ ReplySent
  <2>1. result["run"] \in {Failed} \cup 0..BufCap
    BY <1>4, TypesAre DEF AuthSent, ReplySent, Done
  <2>2. __txBuf' = AfterSend(__txBuf, result["run"])
    BY <1>4 DEF AuthSent, ReplySent
  <2>3. Tx
    <3>1. AfterSend(__txBuf, result["run"]) \in Seq(Int)
          /\ Len(AfterSend(__txBuf, result["run"])) <= Len(__txBuf)
      BY <1>l, <2>1, AfterSendFits
    <3> HIDE DEF Tx
    <3>2. Len(__txBuf') \in Nat
      BY <2>2, <3>1
    <3>3. QED
      BY <1>l, <2>2, <3>1, <3>2 DEF Tx
  <2>4. At /\ Counts
    <3>1. CASE AuthSent
      BY <1>j, <3>1 DEF AuthSent
    <3>2. CASE ReplySent
      BY <1>i, <1>l, <3>2 DEF ReplySent, Continue, At, Counts, SessionTypeOK
    <3>3. QED
      BY <1>4, <3>1, <3>2
  <2>5. Flags
    BY <1>4 DEF AuthSent, ReplySent, Flags, SessionTypeOK
  <2>6. QED
    BY <1>4, <1>a, <1>b, <1>d, <1>e, <1>n, <2>3, <2>4, <2>5 DEF AuthSent, ReplySent
<1>5. CASE ReqAddressMissing
  <2>1. Rx
    BY <1>5, <1>m DEF ReqAddressMissing
  <2>2. QED
    BY <1>5, <1>a, <1>b, <1>c, <1>d, <1>e, <1>j, <1>n, <2>1 DEF ReqAddressMissing
<1>t. \A buf \in Seq(Int) : TakePort(buf) /\ Len(buf) <= BufCap =>
        Rx /\ port' \in [1..2 -> Int]
  <2> TAKE buf \in Seq(Int)
  <2> HAVE TakePort(buf) /\ Len(buf) <= BufCap
  <2>1. CASE Len(buf) >= 2
    <3>1. SubSeq(buf, 1, 2) \in [1..2 -> Int]
      <4>1. SubSeq(buf, 1, 2) = [i \in 1..2 |-> buf[i]] /\ \A i \in 1..2 : buf[i] \in Int
        BY <2>1
      <4>2. QED
        BY <4>1
    <3>2. Drop(buf, 2) \in Seq(Int) /\ Len(Drop(buf, 2)) <= Len(buf)
      BY DropFits
    <3>3. Len(Drop(buf, 2)) \in Nat /\ Len(buf) \in Nat
      BY <3>2
    <3>4. QED
      BY <1>l, <2>1, <3>1, <3>2, <3>3 DEF TakePort, FieldArrives, Rx
  <2>2. CASE ~(Len(buf) >= 2)
    BY <2>2 DEF TakePort, FieldArrives, Rx, SessionTypeOK
  <2>3. QED
    BY <2>1, <2>2
<1>6. CASE ReqAddress
  <2>1. Len(__rxBuf) >= 8 /\ addr' = SubSeq(__rxBuf, 5, 8) /\ TakePort(Drop(__rxBuf, 8))
    BY <1>6 DEF ReqAddress
  <2>2. addr' \in [1..4 -> Int]
    <3>1. __rxBuf \in Seq(Int) /\ Len(__rxBuf) \in Nat
      BY <1>l
    <3>2. SubSeq(__rxBuf, 5, 8) = [i \in 1..4 |-> __rxBuf[i + 4]]
      BY <2>1, <3>1
    <3>3. \A i \in 1..4 : __rxBuf[i + 4] \in Int
      BY <2>1, <3>1
    <3>4. QED
      BY <2>1, <3>2, <3>3
  <2>3. Rx /\ Name
    <3>1. Drop(__rxBuf, 8) \in Seq(Int) /\ Len(Drop(__rxBuf, 8)) <= Len(__rxBuf)
      BY <1>l, DropFits
    <3>2. Len(Drop(__rxBuf, 8)) <= BufCap
      BY <1>l, <3>1
    <3>3. QED
      BY <1>t, <2>1, <2>2, <3>1, <3>2 DEF Name
  <2>4. At /\ Counts
    BY <1>6, <1>g DEF ReqAddress, At, SessionTypeOK
  <2>5. QED
    BY <1>6, <1>a, <1>b, <1>c, <1>d, <1>n, <2>3, <2>4 DEF ReqAddress
<1>7. CASE ReqName
  <2> DEFINE rest == Drop(__rxBuf, 5)
             length == Signed(__rxBuf[5])
             name == IF length < 0 THEN rest ELSE SubSeq(rest, 1, length)
  <2>1. /\ TakePort(Drop(rest, Len(name)))
        /\ \/ NextRound /\ UNCHANGED addr
           \/ addr' = Resolved(name) /\ run' = "socket" /\ UNCHANGED <<unsent, result>>
        /\ UNCHANGED <<peers, local, remote, __state, __linkflag, __txBuf, relay>>
    BY <1>7 DEF ReqName
  <2>2. rest \in Seq(Int) /\ Len(rest) <= Len(__rxBuf)
    BY <1>l, DropFits
  <2> HIDE DEF rest
  <2>3. name \in Seq(Int)
    <3>1. __rxBuf[5] \in Int /\ length <= Len(rest) /\ Len(rest) \in Nat
      <4>1. Len(__rxBuf) >= 5 /\ Len(rest) >= length
        BY <1>7 DEF ReqName, rest
      <4>2. __rxBuf[5] \in Int
        BY <1>l, <4>1
      <4>3. QED
        BY <2>2, <4>1, <4>2 DEF Signed
    <3>2. length \in Int
      BY <3>1 DEF Signed
    <3> HIDE DEF length
    <3>3. QED
      BY <2>2, <3>1, <3>2, SubSeqIn
  <2> HIDE DEF name
  <2>4. Drop(rest, Len(name)) \in Seq(Int) /\ Len(Drop(rest, Len(name))) <= BufCap
    <3>1. Len(name) \in Nat /\ Len(rest) \in Nat
      BY <2>2, <2>3
    <3>2. Drop(rest, Len(name)) \in Seq(Int) /\ Len(Drop(rest, Len(name))) <= Len(rest)
      BY <2>2, <3>1, DropFits
    <3>3. Len(Drop(rest, Len(name))) \in Nat
      BY <3>2
    <3>4. QED
      BY <1>l, <2>2, <3>1, <3>2, <3>3
  <2>5. Rx /\ port' \in [1..2 -> Int]
    BY <1>t, <2>1, <2>4
  <2>6. addr' \in [1..4 -> Int]
    <3>1. Resolved(name) \in [1..4 -> Int]
      BY <2>3 DEF Resolved
    <3>2. QED
      BY <2>1, <3>1 DEF SessionTypeOK
  <2>7. At /\ Counts
    BY <1>g, <1>j, <2>1 DEF At, SessionTypeOK
  <2>8. QED
    BY <1>a, <1>b, <1>c, <1>d, <1>n, <2>1, <2>5, <2>6, <2>7 DEF Name
<1>8. CASE ReqOtherKind
  BY <1>8, <1>a, <1>b, <1>g, <1>h, <1>n DEF ReqOtherKind, At, SessionTypeOK
<1>9. CASE Socket \/ ConnectRemote
  <2>1. LinkAnswer \in Seq(Int)
    BY LinkAnswerIs DEF SessionTypeOK
  <2>2. AnswerRequest => Tx /\ Counts /\ run' = "replySend"
    <3> SUFFICES ASSUME AnswerRequest PROVE Tx /\ Counts /\ run' = "replySend"
      OBVIOUS
    <3>1. Tx
      BY <1>l, <2>1, InsertFits DEF AnswerRequest, Tx
    <3>2. QED
      BY <1>k, <1>l, <3>1 DEF AnswerRequest, Tx
  <2>3. /\ UNCHANGED <<peers, local, __state, __linkflag, __rxBuf, addr, port, relay>>
        /\ AnswerRequest \/ (run' \in {"connect", "closeFailed"} /\ UNCHANGED <<__txBuf, unsent, result>>)
    BY <1>9 DEF Socket, ConnectRemote
  <2>4. Ends
    <3>1. \A fd \in {"open", "bad"} : NewConnection(fd) \in ConnectionType
      BY DEF NewConnection, ConnectionType
    <3>2. \A b \in BOOLEAN : [remote EXCEPT !.eof = b] \in ConnectionType
      BY TypesAre DEF ConnectionType
    <3>3. remote' \in ConnectionType
      BY <1>9, <3>1, <3>2, TypesAre DEF Socket, ConnectRemote
    <3>4. QED
      BY <2>3, <3>3, TypesAre DEF Ends
  <2>5. At
    BY <2>2, <2>3 DEF At, SessionTypeOK
  <2>6. QED
    BY <1>a, <1>c, <1>d, <1>e, <1>g, <1>n, <2>2, <2>3, <2>4, <2>5
<1>10. CASE LinkData
  <2>1. At /\ Counts
    BY <1>10, <1>k, <1>l DEF LinkData, At, SessionTypeOK
  <2>2. QED
    BY <1>10, <1>a, <1>b, <1>h, <1>n, <2>1 DEF LinkData
<1>11. CASE LinkSent
  <2>1. result["run"] \in {Failed} \cup 0..BufCap
    BY <1>11, TypesAre DEF LinkSent, Done
  <2>2. Rx
    <3>1. AfterSend(__rxBuf, result["run"]) \in Seq(Int)
          /\ Len(AfterSend(__rxBuf, result["run"])) <= Len(__rxBuf)
      BY <1>l, <2>1, AfterSendFits
    <3>2. Len(__rxBuf') \in Nat /\ __rxBuf' = AfterSend(__rxBuf, result["run"])
      BY <1>11, <3>1 DEF LinkSent
    <3>3. QED
      BY <1>l, <3>1, <3>2 DEF Rx
  <2>3. QED
    BY <1>11, <1>a, <1>b, <1>c, <1>d, <1>e, <1>j, <1>n, <2>2 DEF LinkSent
<1>12. CASE GetRelay \/ CloseRemote \/ CloseLocal
  <2>1. At /\ Counts
    BY <1>12, <1>g DEF GetRelay, CloseRemote, CloseLocal, At, SessionTypeOK
  <2>2. Ends
    <3>1. \A fd \in {"open", "closed", "none", "bad"} :
            [remote EXCEPT !.fd = fd] \in ConnectionType /\ [local EXCEPT !.fd = fd] \in ConnectionType
      BY TypesAre DEF ConnectionType
    <3>2. remote.fd \in {"open", "closed", "none", "bad"}
      BY TypesAre DEF ConnectionType
    <3>3. QED
      BY <1>12, <3>1, <3>2, TypesAre DEF GetRelay, CloseRemote, CloseLocal, Ends
  <2>3. QED
    BY <1>12, <1>a, <1>h, <1>n, <2>1, <2>2 DEF GetRelay, CloseRemote, CloseLocal
<1>13. CASE RelayStart
  BY <1>13, <1>a, <1>b, <1>g, <1>h, <1>n DEF RelayStart, RelayContinue, At, SessionTypeOK
<1>14. CASE RelayReceived
  <2>1. At
    BY <1>14 DEF RelayReceived, At, SessionTypeOK
  <2>2. Counts
    BY <1>14, <1>g, <1>k, <1>l DEF RelayReceived
  <2>3. Flags
    BY <1>14 DEF RelayReceived, Flags, SessionTypeOK
  <2>4. QED
    BY <1>14, <1>a, <1>b, <1>d, <1>e, <1>n, <2>1, <2>2, <2>3 DEF RelayReceived
<1>15. CASE RelaySent
  <2>1. result["relay"] \in {Failed} \cup 0..BufCap
    BY <1>15, TypesAre DEF RelaySent
  <2>2. Tx
    <3>1. AfterSend(__txBuf, result["relay"]) \in Seq(Int)
          /\ Len(AfterSend(__txBuf, result["relay"])) <= Len(__txBuf)
      BY <1>l, <2>1, AfterSendFits
    <3>2. Len(__txBuf') \in Nat /\ __txBuf' = AfterSend(__txBuf, result["relay"])
      BY <1>15, <3>1 DEF RelaySent
    <3>3. QED
      BY <1>l, <3>1, <3>2 DEF Tx
  <2>3. At /\ Counts
    BY <1>15, <1>i, <1>l DEF RelaySent, RelayContinue, At, Counts, SessionTypeOK
  <2>4. QED
    BY <1>15, <1>a, <1>b, <1>c, <1>d, <1>e, <1>n, <2>2, <2>3 DEF RelaySent
<1>16. CASE Transfer
  <2>1. UNCHANGED <<peers, __state, __linkflag, addr, port, run, relay>>
    BY <1>16, TransferIs
  <2>2. result \in [Loops -> {Pending, Failed} \cup 0..BufCap] /\ unsent \in [Loops -> 0..BufCap]
        /\ local \in ConnectionType /\ remote \in ConnectionType
    BY DEF SessionTypeOK
  <2>3. CASE RunReceives \/ RelayReceives
    <3>1. Ends /\ Rx /\ Tx
      BY <1>l, <2>2, <2>3 DEF RunReceives, RelayReceives, ReceivesInto, Reads, Ends, Rx, Tx
    <3>2. Counts
      BY <2>2, <2>3 DEF RunReceives, RelayReceives, ReceivesInto, Counts
    <3>3. QED
      BY <1>a, <1>c, <1>e, <1>f, <1>n, <2>1, <3>1, <3>2
  <2>4. ASSUME NEW k \in Loops, NEW cn, NEW cn2, NEW buf \in Seq(Int), Len(buf) \in 0..BufCap,
               SendsFrom(k, cn, buf, cn2)
        PROVE  Counts /\ (cn2 = cn \/ cn2 \in ConnectionType)
    <3>1. CASE result' = [result EXCEPT ![k] = Failed] /\ cn2 = cn /\ UNCHANGED unsent
      BY <2>2, <3>1 DEF Counts
    <3>2. ASSUME NEW n \in 1..unsent[k], Writes(cn, buf, unsent[k], n, cn2),
                 unsent' = [unsent EXCEPT ![k] = @ - n],
                 result' = IF n = unsent[k] THEN [result EXCEPT ![k] = Len(buf)] ELSE result
          PROVE  Counts /\ cn2 \in ConnectionType
      <4>1. unsent[k] - n \in 0..BufCap
        BY <1>l, <2>2
      <4>2. unsent' \in [Loops -> 0..BufCap]
        BY <2>2, <3>2, <4>1
      <4>3. result' \in [Loops -> {Pending, Failed} \cup 0..BufCap]
        BY <2>2, <2>4, <3>2
      <4>4. QED
        BY <3>2, <4>2, <4>3 DEF Counts, Writes
    <3>3. QED
      BY <2>4, <3>1, <3>2 DEF SendsFrom
  <2>5. Len(__rxBuf) \in 0..BufCap /\ Len(__txBuf) \in 0..BufCap
    BY <1>l
  <2>6. CASE RunAnswers \/ RunForwards \/ RelayForwards
    <3>1. Counts /\ Ends
      BY <1>l, <2>2, <2>4, <2>5, <2>6 DEF RunAnswers, RunForwards, RelayForwards, Ends
    <3>2. QED
      BY <1>a, <1>c, <1>d, <1>e, <1>f, <1>n, <2>1, <2>6, <3>1
         DEF RunAnswers, RunForwards, RelayForwards
  <2>7. ASSUME NEW k \in Loops, FindsNothing(k) PROVE Good
    <3>1. Counts
      BY <2>2, <2>7 DEF FindsNothing, Counts
    <3>2. QED
      BY <1>a, <1>b, <1>c, <1>d, <1>e, <1>f, <1>n, <2>1, <2>7, <3>1 DEF FindsNothing
  <2>8. QED
    BY <1>16, <2>3, <2>6, <2>7, TransferIs
<1>17. CASE HupReported
  <2>1. Ends
    BY <1>17, TypesAre DEF HupReported, Ends, ConnectionType
  <2>2. QED
    BY <1>17, <1>a, <1>f, <1>g, <1>h, <1>n, <2>1 DEF HupReported
<1>18. CASE LocalSends
  <2>1. PICK n \in Pieces :
          /\ local' = [local EXCEPT !.in = @ \o SubSeq(Stream, clientSent + 1, clientSent + n)]
          /\ clientSent' = clientSent + n
    BY <1>18 DEF LocalSends
  <2>2. UNCHANGED <<script, remoteSent, remote, session, run, relay, unsent, result>>
    BY <1>18 DEF LocalSends
  <2>3. clientSent \in Nat /\ n \in Nat \ {0} /\ clientSent + n <= Len(Stream)
    BY PiecesAre, TypesAre DEF SessionTypeOK
  <2>4. local.in \o SubSeq(Stream, clientSent + 1, clientSent + n) \in Seq(Int)
    <3>1. SubSeq(Stream, clientSent + 1, clientSent + n) \in Seq(Int)
      BY <2>3, TypesAre, SliceIs
    <3>2. QED
      BY <3>1, TypesAre, AppendIs
  <2>5. Ends
    BY <2>1, <2>2, <2>4, TypesAre DEF Ends, ConnectionType
  <2>6. Stream' = Stream
    BY <2>2 DEF Stream
  <2>7. Peer
    <3>1. Len(Stream) \in Nat /\ script \in Scripts /\ remoteSent \in 0..Len(RemoteData)
      BY TypesAre DEF SessionTypeOK
    <3>2. clientSent + n \in 0..Len(Stream)
      BY <2>3, <3>1
    <3>3. QED
      BY <2>1, <2>2, <2>6, <3>1, <3>2 DEF Peer
  <2>8. QED
    BY <1>f, <1>g, <1>h, <1>n, <2>2, <2>5, <2>7
<1>19. CASE RemoteSends
  <2>1. /\ remoteSent < Len(RemoteData)
        /\ remote' = [remote EXCEPT !.in = Append(@, RemoteData[remoteSent + 1])]
        /\ remoteSent' = remoteSent + 1
        /\ UNCHANGED <<script, clientSent, local, session, run, relay, unsent, result>>
    BY <1>19 DEF RemoteSends
  <2>2. Len(RemoteData) \in Nat
    BY RemoteAssumption
  <2>3. Append(remote.in, RemoteData[remoteSent + 1]) \in Seq(Int)
    BY <2>1, <2>2, TypesAre
  <2>4. Ends
    BY <2>1, <2>3, TypesAre DEF Ends, ConnectionType
  <2>5. Stream' = Stream
    BY <2>1 DEF Stream
  <2>6. Peer
    <3>1. script \in Scripts /\ remoteSent \in 0..Len(RemoteData) /\ clientSent \in 0..Len(Stream)
      BY TypesAre DEF SessionTypeOK
    <3>2. remoteSent + 1 \in 0..Len(RemoteData)
      BY <2>1, <2>2, <3>1
    <3>3. QED
      BY <2>1, <2>5, <3>1, <3>2 DEF Peer
  <2>7. QED
    BY <1>f, <1>g, <1>h, <1>n, <2>1, <2>4, <2>6
<1>20. CASE LocalShutsDown \/ RemoteShutsDown
  <2>1. Ends
    BY <1>20, TypesAre DEF LocalShutsDown, RemoteShutsDown, Ends, ConnectionType
  <2>2. QED
    BY <1>20, <1>a, <1>f, <1>g, <1>h, <1>n, <2>1 DEF LocalShutsDown, RemoteShutsDown
<1>21. QED
  BY <1>1, <1>2, <1>3, <1>4, <1>5, <1>6, <1>7, <1>8, <1>9, <1>10, <1>11, <1>12, <1>13, <1>14,
     <1>15, <1>16, <1>17, <1>18, <1>19, <1>20 DEF SessionNext, RunStep, RelayStep, Peers
-----------------------------------------------------------------------------
(* Where the coroutines and the descriptors stand.                         *)

\* Every step keeps Places.
LEMMA PlacesKept ==
  ASSUME SessionTypeOK, Places, Descriptors, Transfers, SessionNext
  PROVE  Places'
<1>0. result \in [Loops -> {Pending, Failed} \cup 0..BufCap] /\ "run" \in Loops /\ "relay" \in Loops
  BY DEF SessionTypeOK, Loops
<1>1. CASE LocalGone \/ AuthIgnored \/ Auth \/ AuthSent
  BY <1>0, <1>1 DEF LocalGone, AuthIgnored, Auth, AuthSent, HasData, Done, NextRound, Continue, Send,
     Returns, Places, session
<1>2. CASE ReqTooShort \/ ReqAddressMissing \/ ReqAddress \/ ReqName \/ ReqOtherKind
  BY <1>0, <1>2 DEF ReqTooShort, ReqAddressMissing, ReqAddress, ReqName, ReqOtherKind, HasData, Done,
     NextRound, Continue, Returns, Places, session
<1>3. CASE Socket \/ ConnectRemote \/ CloseFailed \/ ReplySent
  BY <1>0, <1>3 DEF Socket, ConnectRemote, CloseFailed, ReplySent, AnswerRequest, Done, NextRound,
     Continue, Send, Returns, Places, session
<1>4. CASE LinkData \/ LinkSent \/ GetRelay \/ CloseRemote \/ CloseLocal
  BY <1>0, <1>4 DEF LinkData, LinkSent, GetRelay, CloseRemote, CloseLocal, HasData, Done, NextRound,
     Continue, Send, Returns, Places, session
<1>5. CASE RelayStep
  BY <1>0, <1>5 DEF RelayStep, RelayStart, RelayReceived, RelaySent, RelayContinue, Send, Returns,
     Places, session
<1>6. CASE Transfer
  <2>1. /\ UNCHANGED <<__state, __linkflag, run, relay>>
        /\ relay \in {"none", "start"} => result'["relay"] = result["relay"]
    <3>1. ASSUME NEW k \in Loops, FindsNothing(k)
          PROVE  relay \in {"none", "start"} => result'["relay"] = result["relay"]
      BY <1>0, <3>1 DEF FindsNothing, Receiving, Sending, Place
    <3>2. QED
      BY <1>0, <1>6, <3>1, TransferIs DEF RunReceives, RelayReceives, RunAnswers, RunForwards,
         RelayForwards, ReceivesInto, SendsFrom
  <2>2. QED
    BY <2>1 DEF Places
<1>7. CASE HupReported \/ Peers
  BY <1>7 DEF HupReported, Peers, LocalSends, LocalShutsDown, RemoteSends, RemoteShutsDown, Places,
     session
<1>8. QED
  BY <1>1, <1>2, <1>3, <1>4, <1>5, <1>6, <1>7 DEF SessionNext, RunStep

\* Everything about a connection except what lies in it.
Status(cn) == <<cn.fd, cn.eof, cn.hup>>

\* Every step keeps Descriptors.
LEMMA DescriptorsKept ==
  ASSUME SessionTypeOK, Places, Descriptors, Transfers, SessionNext
  PROVE  Descriptors'
<1>0. local \in ConnectionType /\ remote \in ConnectionType
  BY TypesAre
<1>1. CASE LocalGone \/ AuthIgnored \/ Auth \/ AuthSent
  BY <1>0, <1>1 DEF LocalGone, AuthIgnored, Auth, AuthSent, HasData, Done, NextRound, Continue,
     Descriptors, Places, NewConnection, peers
<1>2. CASE ReqTooShort \/ ReqAddressMissing \/ ReqAddress \/ ReqName \/ ReqOtherKind
  BY <1>0, <1>2 DEF ReqTooShort, ReqAddressMissing, ReqAddress, ReqName, ReqOtherKind, HasData, Done,
     NextRound, Continue, Descriptors, Places, NewConnection, peers
<1>3. CASE Socket \/ ConnectRemote \/ CloseFailed \/ ReplySent
  BY <1>0, <1>3 DEF Socket, ConnectRemote, CloseFailed, ReplySent, AnswerRequest, Done, NextRound,
     Continue, Descriptors, Places, NewConnection, ConnectionType, peers
<1>4. CASE LinkData \/ LinkSent \/ GetRelay \/ CloseRemote \/ CloseLocal
  <2>1. CASE LinkData \/ LinkSent \/ GetRelay
    BY <1>0, <2>1 DEF LinkData, LinkSent, GetRelay, HasData, Done, NextRound, Continue, Descriptors,
       Places, NewConnection, peers
  <2>2. CASE CloseRemote
    <3>1. relay # "none" /\ remote.fd \in {"open", "bad"} /\ run' = "closeLocal" /\ run = "closeRemote"
          /\ UNCHANGED <<local, relay, remoteSent>>
      BY <2>2 DEF CloseRemote, Places, Descriptors, peers
    <3>2. CASE remote.fd = "open"
      <4>1. remote'.fd = "closed" /\ remote'.eof = remote.eof /\ remote'.hup = remote.hup
        BY <1>0, <2>2, <3>2 DEF CloseRemote, ConnectionType
      <4>2. QED
        BY <3>1, <4>1 DEF Descriptors
    <3>3. CASE remote.fd = "bad"
      <4>1. remote' = remote
        BY <1>0, <2>2, <3>3 DEF CloseRemote, ConnectionType
      <4>2. QED
        BY <3>1, <3>3, <4>1 DEF Descriptors
    <3>4. QED
      BY <3>1, <3>2, <3>3
  <2>3. CASE CloseLocal
    <3>1. local'.fd = "closed" /\ local'.eof = local.eof /\ local'.hup = local.hup
      BY <1>0, <2>3 DEF CloseLocal, ConnectionType
    <3>2. QED
      BY <2>3, <3>1 DEF CloseLocal, Descriptors, Places, peers
  <2>4. QED
    BY <1>4, <2>1, <2>2, <2>3
<1>5. CASE RelayStep
  BY <1>0, <1>5 DEF RelayStep, RelayStart, RelayReceived, RelaySent, RelayContinue, Descriptors,
     Places, NewConnection, peers
<1>6. CASE Transfer
  <2>1. UNCHANGED <<run, relay, remoteSent>>
    BY <1>6, TransferIs DEF peers
  <2>2. Status(local') = Status(local) /\ Status(remote') = Status(remote)
    BY <1>6, TransferIs DEF RunReceives, RelayReceives, RunAnswers, RunForwards, RelayForwards,
       FindsNothing, ReceivesInto, SendsFrom, Reads, Writes, Status
  <2>3. remote' = remote \/ (remote.fd = "open" /\ relay # "none")
    BY <1>6, TransferIs DEF RunReceives, RelayReceives, RunAnswers, RunForwards, RelayForwards,
       FindsNothing, ReceivesInto, SendsFrom, Places
  <2>4. QED
    BY <2>1, <2>2, <2>3 DEF Descriptors, Places, Status
<1>7. CASE HupReported
  <2>1. UNCHANGED <<run, relay, remoteSent>>
    BY <1>7 DEF HupReported, peers
  <2>2. CASE Unreported(local) /\ local' = [local EXCEPT !.hup = TRUE] /\ UNCHANGED remote
    BY <1>0, <2>1, <2>2 DEF Unreported, Descriptors, ConnectionType
  <2>3. CASE Unreported(remote) /\ remote' = [remote EXCEPT !.hup = TRUE] /\ UNCHANGED local
    <3>1. remote.eof
      BY <2>3 DEF Unreported
    <3>2. ~(remote.fd \in {"none", "bad"} \/ run \in {"connect", "closeFailed"})
      BY <3>1 DEF Descriptors, NewConnection
    <3>3. remote'.fd = remote.fd /\ remote'.eof
      BY <1>0, <2>3, <3>1 DEF ConnectionType
    <3>4. QED
      BY <2>1, <2>3, <3>2, <3>3 DEF Descriptors
  <2>4. QED
    BY <1>7, <2>2, <2>3 DEF HupReported
<1>8. CASE Peers
  BY <1>0, <1>8 DEF Peers, LocalSends, LocalShutsDown, RemoteSends, RemoteShutsDown, Connected,
     Descriptors, Places, ConnectionType, peers
<1>9. QED
  BY <1>1, <1>2, <1>3, <1>4, <1>5, <1>6, <1>7, <1>8 DEF SessionNext, RunStep
-----------------------------------------------------------------------------
(* The transfers.                                                          *)

\* A transfer that begins.
LEMMA SendBegins ==
  ASSUME NEW cn, NEW buf \in Seq(Int)
  PROVE  Underway(cn, buf, Len(buf), Pending)
BY DEF Underway

\* Nothing but the rest of a connection changes while one goes on.
LEMMA SameUnderway ==
  ASSUME NEW cn, NEW cn2, NEW buf, NEW l, NEW r, Underway(cn, buf, l, r),
         cn2.fd = cn.fd, cn.hup => cn2.hup
  PROVE  Underway(cn2, buf, l, r)
BY DEF Underway

\* A send that goes on is still under way.
LEMMA SendsUnderway ==
  ASSUME NEW cn \in ConnectionType, NEW cn2, NEW buf \in Seq(Int), NEW k \in Loops,
         SessionTypeOK, Underway(cn, buf, unsent[k], result[k]), SendsFrom(k, cn, buf, cn2)
  PROVE  Underway(cn2, buf, unsent'[k], result'[k])
<1>0. /\ result \in [Loops -> {Pending, Failed} \cup 0..BufCap] /\ unsent \in [Loops -> 0..BufCap]
      /\ BufCap \in Nat /\ Len(buf) \in Nat
  BY CapAssumption DEF SessionTypeOK
<1>1. CASE cn.hup /\ result' = [result EXCEPT ![k] = Failed] /\ cn2 = cn /\ UNCHANGED unsent
  BY <1>0, <1>1 DEF Underway
<1>2. ASSUME NEW n \in 1..unsent[k], Writes(cn, buf, unsent[k], n, cn2),
             unsent' = [unsent EXCEPT ![k] = @ - n],
             result' = IF n = unsent[k] THEN [result EXCEPT ![k] = Len(buf)] ELSE result
      PROVE  Underway(cn2, buf, unsent'[k], result'[k])
  <2>1. cn2.fd = "open" /\ result[k] = Pending /\ unsent[k] \in Nat /\ unsent[k] <= Len(buf)
    BY <1>0, <1>2 DEF SendsFrom, Writes, Underway
  <2>2. unsent'[k] = unsent[k] - n
    BY <1>0, <1>2
  <2>3. result'[k] = IF n = unsent[k] THEN Len(buf) ELSE Pending
    BY <1>0, <1>2, <2>1
  <2>4. QED
    BY <1>0, <1>2, <2>1, <2>2, <2>3 DEF Underway
<1>3. QED
  BY <1>1, <1>2 DEF SendsFrom

\* Every step keeps Transfers.
LEMMA TransfersKept ==
  ASSUME SessionTypeOK, Places, Descriptors, Transfers, SessionNext
  PROVE  Transfers'
<1>0. /\ local \in ConnectionType /\ remote \in ConnectionType
      /\ __rxBuf \in Seq(Int) /\ __txBuf \in Seq(Int)
      /\ result \in [Loops -> {Pending, Failed} \cup 0..BufCap] /\ unsent \in [Loops -> 0..BufCap]
      /\ "run" \in Loops /\ "relay" \in Loops /\ "run" # "relay"
  BY TypesAre DEF SessionTypeOK, Loops
<1>s. SessionTypeOK' /\ __rxBuf' \in Seq(Int) /\ __txBuf' \in Seq(Int)
  <2>1. SessionTypeOK'
    BY SessionTypesKept
  <2>2. QED
    BY <2>1 DEF SessionTypeOK
<1>1. CASE LocalGone \/ AuthIgnored \/ AuthSent
  BY <1>0, <1>1 DEF LocalGone, AuthIgnored, AuthSent, HasData, Done, NextRound, Continue, Returns,
     Transfers, Places, session
<1>2. CASE Auth
  <2>1. CASE run' = "thrown"
    BY <1>2, <2>1 DEF Auth, HasData, Places, Transfers
  <2>2. CASE run' = "authSend" /\ Send("run", __txBuf')
    <3>1. Underway(local', __txBuf', Len(__txBuf'), Pending)
      BY <1>s, SendBegins
    <3>2. unsent'["run"] = Len(__txBuf') /\ result'["run"] = Pending
      BY <1>0, <2>2 DEF Send, Returns
    <3>3. relay' = "none"
      BY <1>2 DEF Auth, HasData, Places
    <3>4. QED
      BY <2>2, <3>1, <3>2, <3>3 DEF Transfers
  <2>3. QED
    BY <1>2, <2>1, <2>2 DEF Auth
<1>3. CASE ReqTooShort \/ ReqAddressMissing \/ ReqAddress \/ ReqName \/ ReqOtherKind
  BY <1>0, <1>3 DEF ReqTooShort, ReqAddressMissing, ReqAddress, ReqName, ReqOtherKind, HasData, Done,
     NextRound, Continue, Returns, Transfers, Places
<1>4. CASE CloseFailed \/ ReplySent \/ LinkSent \/ GetRelay \/ CloseRemote \/ CloseLocal
  BY <1>0, <1>4 DEF CloseFailed, ReplySent, LinkSent, GetRelay, CloseRemote, CloseLocal, Done,
     NextRound, Continue, Returns, Transfers, Places, session
<1>5. CASE Socket \/ ConnectRemote
  <2>1. relay' = "none"
    BY <1>5 DEF Socket, ConnectRemote, Places
  <2>2. CASE AnswerRequest
    <3>1. Underway(local', __txBuf', Len(__txBuf'), Pending)
      BY <1>s, SendBegins
    <3>2. unsent'["run"] = Len(__txBuf') /\ result'["run"] = Pending /\ run' = "replySend"
      BY <1>0, <2>2 DEF AnswerRequest, Send, Returns
    <3>3. QED
      BY <2>1, <3>1, <3>2 DEF Transfers
  <2>3. CASE run' \in {"connect", "closeFailed"}
    BY <2>1, <2>3 DEF Transfers
  <2>4. QED
    BY <1>5, <2>2, <2>3 DEF Socket, ConnectRemote
<1>6. CASE LinkData
  <2>1. Underway(remote', __rxBuf', Len(__rxBuf'), Pending)
    BY <1>s, SendBegins
  <2>2. unsent'["run"] = Len(__rxBuf') /\ result'["run"] = Pending /\ run' = "linkSend"
        /\ UNCHANGED <<local, __txBuf, relay>>
        /\ unsent'["relay"] = unsent["relay"] /\ result'["relay"] = result["relay"]
    BY <1>0, <1>6 DEF LinkData, Send, Returns, session
  <2>3. QED
    BY <2>1, <2>2 DEF Transfers
<1>7. CASE RelayStart
  BY <1>0, <1>7 DEF RelayStart, RelayContinue, Transfers, session
<1>8. CASE RelayReceived \/ RelaySent
  <2>1. /\ run' = run /\ run \notin {"authSend", "replySend"} /\ UNCHANGED <<local, remote, __rxBuf>>
        /\ unsent'["run"] = unsent["run"] /\ result'["run"] = result["run"]
    BY <1>0, <1>8 DEF RelayReceived, RelaySent, Send, Returns, Places
  <2>2. run = "linkSend" => Underway(remote', __rxBuf', unsent'["run"], result'["run"])
    BY <2>1 DEF Transfers
  <2>3. relay' = "send" => Underway(local', __txBuf', unsent'["relay"], result'["relay"])
    <3>1. Underway(local', __txBuf', Len(__txBuf'), Pending)
      BY <1>s, SendBegins
    <3>2. relay' = "send" => unsent'["relay"] = Len(__txBuf') /\ result'["relay"] = Pending
      BY <1>0, <1>8 DEF RelayReceived, RelaySent, RelayContinue, Send, Returns
    <3>3. QED
      BY <3>1, <3>2
  <2>4. QED
    BY <2>1, <2>2, <2>3 DEF Transfers
<1>9. CASE Transfer
  <2>0. UNCHANGED <<run, relay>>
    BY <1>9, TransferIs
  <2>1. CASE RunReceives
    <3>1. /\ local'.fd = local.fd /\ local'.hup = local.hup /\ run = "recv" /\ UNCHANGED __txBuf
          /\ unsent'["relay"] = unsent["relay"] /\ result'["relay"] = result["relay"]
      BY <1>0, <2>1 DEF RunReceives, ReceivesInto, Reads
    <3>2. QED
      BY <2>0, <3>1, SameUnderway DEF Transfers
  <2>2. CASE RelayReceives
    <3>1. /\ remote'.fd = remote.fd /\ remote'.hup = remote.hup /\ relay = "recv"
          /\ UNCHANGED __rxBuf
          /\ unsent'["run"] = unsent["run"] /\ result'["run"] = result["run"]
      BY <1>0, <2>2 DEF RelayReceives, ReceivesInto, Reads
    <3>2. run \notin {"authSend", "replySend"}
      BY <3>1 DEF Places
    <3>3. QED
      BY <2>0, <3>1, <3>2, SameUnderway DEF Transfers
  <2>3. CASE RunAnswers
    <3>1. /\ run \in {"authSend", "replySend"} /\ SendsFrom("run", local, __txBuf, local')
          /\ UNCHANGED __txBuf /\ Underway(local, __txBuf, unsent["run"], result["run"])
      BY <2>3 DEF RunAnswers, Transfers
    <3>2. Underway(local', __txBuf, unsent'["run"], result'["run"])
      BY <1>0, <3>1, SendsUnderway
    <3>3. relay = "none"
      BY <3>1 DEF Places
    <3>4. QED
      BY <2>0, <3>1, <3>2, <3>3 DEF Transfers
  <2>4. CASE RunForwards
    <3>1. /\ run = "linkSend" /\ SendsFrom("run", remote, __rxBuf, remote')
          /\ UNCHANGED <<local, __rxBuf, __txBuf>>
          /\ Underway(remote, __rxBuf, unsent["run"], result["run"])
          /\ unsent'["relay"] = unsent["relay"] /\ result'["relay"] = result["relay"]
      BY <1>0, <2>4 DEF RunForwards, Transfers, SendsFrom
    <3>2. Underway(remote', __rxBuf, unsent'["run"], result'["run"])
      BY <1>0, <3>1, SendsUnderway
    <3>3. QED
      BY <2>0, <3>1, <3>2 DEF Transfers
  <2>5. CASE RelayForwards
    <3>1. /\ relay = "send" /\ SendsFrom("relay", local, __txBuf, local')
          /\ UNCHANGED <<remote, __rxBuf, __txBuf>>
          /\ Underway(local, __txBuf, unsent["relay"], result["relay"])
          /\ unsent'["run"] = unsent["run"] /\ result'["run"] = result["run"]
      BY <1>0, <2>5 DEF RelayForwards, Transfers, SendsFrom
    <3>2. Underway(local', __txBuf, unsent'["relay"], result'["relay"])
      BY <1>0, <3>1, SendsUnderway
    <3>3. run \notin {"authSend", "replySend"}
      BY <3>1 DEF Places
    <3>4. QED
      BY <2>0, <3>1, <3>2, <3>3 DEF Transfers
  <2>6. ASSUME NEW k \in Loops, FindsNothing(k) PROVE Transfers'
    <3>1. /\ UNCHANGED <<local, remote, __rxBuf, __txBuf, unsent>>
          /\ result' = [result EXCEPT ![k] = Failed] /\ Conn(k).fd # "open"
      BY <2>6 DEF FindsNothing
    <3>2. CASE k = "run"
      BY <1>0, <2>0, <3>1, <3>2 DEF Transfers, Underway, Conn, OnRemote, Place
    <3>3. CASE k = "relay"
      BY <1>0, <2>0, <3>1, <3>3 DEF Transfers, Underway, Conn, OnRemote, Place
    <3>4. QED
      BY <3>2, <3>3 DEF Loops
  <2>7. QED
    BY <1>9, <2>1, <2>2, <2>3, <2>4, <2>5, <2>6, TransferIs
<1>10. CASE HupReported \/ Peers
  <2>1. /\ UNCHANGED <<__rxBuf, __txBuf, run, relay, unsent, result>>
        /\ local'.fd = local.fd /\ (local.hup => local'.hup)
        /\ remote'.fd = remote.fd /\ (remote.hup => remote'.hup)
    BY <1>0, <1>10 DEF HupReported, Peers, LocalSends, LocalShutsDown, RemoteSends,
       RemoteShutsDown, session, ConnectionType
  <2>2. QED
    BY <2>1, SameUnderway DEF Transfers
<1>11. QED
  BY <1>1, <1>2, <1>3, <1>4, <1>5, <1>6, <1>7, <1>8, <1>9, <1>10
     DEF SessionNext, RunStep, RelayStep
-----------------------------------------------------------------------------
(* What stands in a buffer and on a connection as a part of a whole.       *)

\* What is read moves from the connection to the end of the buffer.
LEMMA ReadsStands ==
  ASSUME NEW whole, NEW b, NEW t, NEW cn \in ConnectionType, NEW buf \in Seq(Int),
         NEW r, NEW cn2, NEW buf2,
         Stands(whole, b, buf, cn.in, t), Reads(cn, buf, r, cn2, buf2)
  PROVE  Stands(whole, b, buf2, cn2.in, t)
<1> DEFINE n == Len(buf)
           l == Len(cn.in)
<1>1. n \in Nat /\ l \in Nat /\ b \in Nat /\ r \in Nat /\ r <= l /\ b + n + l = t
  BY CapAssumption DEF Stands, Reads, ConnectionType
<1>2. /\ Len(buf2) = n + r /\ Len(cn2.in) = l - r
      /\ \A i \in 1..n + r : buf2[i] = IF i <= n THEN buf[i] ELSE cn.in[i - n]
      /\ \A i \in 1..l - r : cn2.in[i] = cn.in[r + i]
  BY DEF Reads
<1>3. (\A i \in 1..n : buf[i] = whole[b + i]) /\ \A i \in 1..l : cn.in[i] = whole[b + n + i]
  BY DEF Stands, PartOf
<1> HIDE DEF n, l
<1>4. \A i \in 1..n + r : buf2[i] = whole[b + i]
  <2> TAKE i \in 1..n + r
  <2>1. CASE i <= n
    <3>1. i \in 1..n
      BY <1>1, <2>1
    <3>2. QED
      BY <1>2, <1>3, <2>1, <3>1
  <2>2. CASE ~(i <= n)
    <3>1. i - n \in 1..l /\ b + n + (i - n) = b + i
      BY <1>1, <2>2
    <3>2. QED
      BY <1>2, <1>3, <2>2, <3>1
  <2>3. QED
    BY <2>1, <2>2
<1>5. \A i \in 1..l - r : cn2.in[i] = whole[b + (n + r) + i]
  <2> TAKE i \in 1..l - r
  <2>1. r + i \in 1..l /\ b + n + (r + i) = b + (n + r) + i
    BY <1>1
  <2>2. QED
    BY <1>2, <1>3, <2>1
<1>6. b + (n + r) + (l - r) = t
  BY <1>1
<1>7. QED
  BY <1>1, <1>2, <1>4, <1>5, <1>6 DEF Stands, PartOf

\* Without the first n bytes, a buffer stands n further on.
LEMMA DropStands ==
  ASSUME NEW whole, NEW b, NEW t, NEW in \in Seq(Int), NEW buf \in Seq(Int), NEW n \in Nat,
         n <= Len(buf), Stands(whole, b, buf, in, t)
  PROVE  Stands(whole, b + n, Drop(buf, n), in, t)
<1> DEFINE rest == Drop(buf, n)
<1>1. /\ Len(rest) = Len(buf) - n /\ \A i \in 1..Len(buf) - n : rest[i] = buf[n + i]
  BY DropIs
<1>2. b \in Nat /\ Len(buf) \in Nat /\ b + Len(buf) + Len(in) = t
  BY DEF Stands
<1> HIDE DEF rest
<1>3. \A i \in 1..Len(rest) : rest[i] = whole[b + n + i]
  <2> TAKE i \in 1..Len(rest)
  <2>1. n + i \in 1..Len(buf) /\ b + (n + i) = b + n + i /\ i \in 1..Len(buf) - n
    BY <1>1, <1>2
  <2>2. QED
    BY <1>1, <2>1 DEF Stands, PartOf
<1>4. b + n + Len(rest) = b + Len(buf) /\ b + n \in Nat
  BY <1>1, <1>2
<1>5. Stands(whole, b + n, rest, in, t)
  BY <1>2, <1>3, <1>4 DEF Stands, PartOf
<1>6. QED
  BY <1>5 DEF rest

\* What arrives is what stands next in the whole.
LEMMA ArriveStands ==
  ASSUME NEW whole, NEW b, NEW t, NEW in \in Seq(Int), NEW buf \in Seq(Int),
         NEW more \in Seq(Int), Stands(whole, b, buf, in, t), PartOf(whole, more, t)
  PROVE  Stands(whole, b, buf, in \o more, t + Len(more))
<1> DEFINE all == in \o more
<1>1. /\ Len(all) = Len(in) + Len(more)
      /\ \A i \in 1..Len(in) + Len(more) : all[i] = IF i <= Len(in) THEN in[i] ELSE more[i - Len(in)]
  BY AppendIs
<1>2. b \in Nat /\ Len(buf) \in Nat /\ Len(in) \in Nat /\ Len(more) \in Nat
      /\ b + Len(buf) + Len(in) = t
  BY DEF Stands
<1> HIDE DEF all
<1>3. \A i \in 1..Len(all) : all[i] = whole[b + Len(buf) + i]
  <2> TAKE i \in 1..Len(all)
  <2>1. CASE i <= Len(in)
    <3>1. i \in 1..Len(in) /\ i \in 1..Len(in) + Len(more)
      BY <1>1, <1>2, <2>1
    <3>2. QED
      BY <1>1, <2>1, <3>1 DEF Stands, PartOf
  <2>2. CASE ~(i <= Len(in))
    <3>1. i \in 1..Len(in) + Len(more) /\ i - Len(in) \in 1..Len(more)
          /\ t + (i - Len(in)) = b + Len(buf) + i
      BY <1>1, <1>2, <2>2
    <3>2. QED
      BY <1>1, <2>2, <3>1 DEF PartOf
  <2>3. QED
    BY <2>1, <2>2
<1>4. b + Len(buf) + Len(all) = t + Len(more)
  BY <1>1, <1>2
<1>5. Stands(whole, b, buf, all, t + Len(more))
  BY <1>2, <1>3, <1>4 DEF Stands, PartOf
<1>6. QED
  BY <1>5 DEF all

\* What goes out continues what has gone out.
LEMMA WritesStands ==
  ASSUME NEW whole, NEW k \in Nat, NEW t, NEW in \in Seq(Int), NEW cn \in ConnectionType,
         NEW buf \in Seq(Int), NEW l \in Nat, l <= Len(buf), NEW n \in 1..l, NEW cn2,
         Writes(cn, buf, l, n, cn2), PartOf(whole, cn.out, k),
         Stands(whole, k + Len(cn.out) + l - Len(buf), buf, in, t)
  PROVE  /\ PartOf(whole, cn2.out, k) /\ k + Len(cn2.out) <= t
         /\ Stands(whole, k + Len(cn2.out) + (l - n) - Len(buf), buf, in, t)
<1> DEFINE o == Len(cn.out)
           s == Len(buf)
           b == k + o + l - s
<1>1. /\ Len(cn2.out) = o + n
      /\ \A i \in 1..o + n : cn2.out[i] = IF i <= o THEN cn.out[i] ELSE buf[s - l + i - o]
  BY DEF Writes
<1>2. o \in Nat /\ s \in Nat /\ n \in Nat /\ b \in Nat /\ Len(in) \in Nat /\ b + s + Len(in) = t
      /\ l <= s
  BY DEF ConnectionType, Stands
<1>3. (\A i \in 1..o : cn.out[i] = whole[k + i]) /\ (\A i \in 1..s : buf[i] = whole[b + i])
  BY DEF PartOf, Stands
<1>4. Stands(whole, b, buf, in, t) /\ b = k + o + l - s
  OBVIOUS
<1> HIDE DEF o, s, b
<1>5. \A i \in 1..o + n : cn2.out[i] = whole[k + i]
  <2> TAKE i \in 1..o + n
  <2>1. CASE i <= o
    BY <1>1, <1>2, <1>3, <2>1
  <2>2. CASE ~(i <= o)
    <3>1. s - l + i - o \in 1..s /\ b + (s - l + i - o) = k + i
      BY <1>2, <1>4, <2>2
    <3>2. QED
      BY <1>1, <1>3, <2>2, <3>1
  <2>3. QED
    BY <2>1, <2>2
<1>6. k + (o + n) <= t /\ k + (o + n) + (l - n) - s = b
  BY <1>2, <1>4
<1>7. Stands(whole, k + Len(cn2.out) + (l - n) - s, buf, in, t)
  BY <1>1, <1>4, <1>6
<1>8. PartOf(whole, cn2.out, k) /\ k + Len(cn2.out) <= t
  BY <1>1, <1>5, <1>6 DEF PartOf
<1>9. QED
  BY <1>7, <1>8 DEF s

\* After a send that was begun with an empty remainder, or not at all.
LEMMA SentStands ==
  ASSUME NEW whole, NEW k \in Nat, NEW t, NEW in \in Seq(Int), NEW cn \in ConnectionType,
         NEW buf \in Seq(Int), NEW l \in Nat, NEW r, r \in {Failed} \cup Nat,
         NEW buf2, buf2 = AfterSend(buf, r), NEW b, b = k + Len(cn.out) + Len(buf2) - Len(buf2),
         NEW a, a = k + Len(cn.out) + l - Len(buf),
         Stands(whole, a, buf, in, t), Underway(cn, buf, l, r),
         r = Failed => cn.fd # "open"
  PROVE  /\ Stands(whole, b, buf2, in, t)
         /\ cn.fd = "open" => buf2 = <<>>
<1>1. Len(cn.out) \in Nat /\ Len(buf) \in Nat /\ r # Pending
  BY DEF ConnectionType, Pending, Failed
<1>2. CASE r = Len(buf) /\ l = 0
  <2>1. AfterSend(buf, r) = Drop(buf, Len(buf)) /\ Drop(buf, Len(buf)) = <<>>
    <3>1. r # Failed
      BY <1>1, <1>2 DEF Failed
    <3>2. Drop(buf, Len(buf)) = <<>>
      BY <1>1 DEF Drop
    <3>3. QED
      BY <1>2, <3>1, <3>2 DEF AfterSend
  <2>2. Stands(whole, k + Len(cn.out) + l - Len(buf) + Len(buf), Drop(buf, Len(buf)), in, t)
    <3>1. Stands(whole, a, buf, in, t) /\ a \in Int /\ Len(buf) \in Nat /\ Len(buf) <= Len(buf)
      BY <1>1
    <3>2. Stands(whole, a + Len(buf), Drop(buf, Len(buf)), in, t)
      BY <3>1, DropStands
    <3>3. QED
      BY <3>2
  <2>3. k + Len(cn.out) + l - Len(buf) + Len(buf) = k + Len(cn.out) + Len(<<>>) - Len(<<>>)
    <3> DEFINE o == Len(cn.out)
               s == Len(buf)
               z == Len(<<>>)
    <3>1. z = 0 /\ o \in Nat /\ s \in Nat /\ l = 0
      BY <1>1, <1>2
    <3> HIDE DEF o, s, z
    <3>2. k + o + l - s + s = k + o + z - z
      BY <3>1
    <3>3. QED
      BY <3>2 DEF o, s, z
  <2>4. QED
    BY <2>1, <2>2, <2>3
<1>3. CASE r = Failed /\ cn.fd # "open"
  <2>1. l = Len(buf) /\ AfterSend(buf, r) = buf
    BY <1>3 DEF Underway, AfterSend
  <2>2. QED
    BY <1>3, <2>1
<1>4. QED
  BY <1>1, <1>2, <1>3 DEF Underway
\* The same, of what passes through a buffer.
LEMMA ReadsPass ==
  \A whole, k, cn, cn2, buf2, r, t :
  \A src \in ConnectionType : \A buf \in Seq(Int) :
    Passes(whole, k, cn, buf, src.in, Len(buf), t) /\ Reads(src, buf, r, cn2, buf2)
    /\ k \in Nat /\ Len(cn.out) \in Nat
      => Passes(whole, k, cn, buf2, cn2.in, Len(buf2), t)
<1> TAKE whole, k, cn, cn2, buf2, r, t
<1> TAKE src \in ConnectionType
<1> TAKE buf \in Seq(Int)
<1> HAVE /\ Passes(whole, k, cn, buf, src.in, Len(buf), t) /\ Reads(src, buf, r, cn2, buf2)
         /\ k \in Nat /\ Len(cn.out) \in Nat
<1>1. Len(buf) \in Nat /\ Len(buf2) \in Nat
  BY DEF Reads
<1>2. /\ k + Len(cn.out) + Len(buf) - Len(buf) = k + Len(cn.out)
      /\ k + Len(cn.out) + Len(buf2) - Len(buf2) = k + Len(cn.out)
  BY <1>1
<1>3. ASSUME ~cn.hup PROVE Stands(whole, k + Len(cn.out), buf2, cn2.in, t)
  <2>1. Stands(whole, k + Len(cn.out), buf, src.in, t)
    BY <1>2, <1>3 DEF Passes
  <2>2. QED
    BY <2>1, ReadsStands
<1>4. QED
  BY <1>2, <1>3 DEF Passes

\* n more of the bytes that have to go out have gone.
LEMMA WritesPass ==
  ASSUME NEW whole, NEW k \in Nat, NEW cn2, NEW t, NEW cn \in ConnectionType,
         NEW buf \in Seq(Int), NEW in \in Seq(Int), NEW l \in Nat, NEW n \in 1..l,
         Passes(whole, k, cn, buf, in, l, t), Writes(cn, buf, l, n, cn2),
         l <= Len(buf), ~cn.hup
  PROVE  Passes(whole, k, cn2, buf, in, l - n, t)
<1>1. Stands(whole, k + Len(cn.out) + l - Len(buf), buf, in, t) /\ PartOf(whole, cn.out, k)
  BY DEF Passes
<1>2. /\ PartOf(whole, cn2.out, k) /\ k + Len(cn2.out) <= t
      /\ Stands(whole, k + Len(cn2.out) + (l - n) - Len(buf), buf, in, t)
  BY <1>1, WritesStands
<1>3. QED
  BY <1>2 DEF Passes

\* Without an error a send leaves nothing in its buffer.
LEMMA SentAll ==
  ASSUME NEW cn, NEW buf \in Seq(Int), NEW l, NEW r, r \in Nat, Underway(cn, buf, l, r)
  PROVE  AfterSend(buf, r) = <<>>
<1>1. r # Failed /\ r # Pending /\ Len(buf) \in Nat
  BY DEF Pending, Failed
<1>2. r = Len(buf)
  BY <1>1 DEF Underway
<1>3. Drop(buf, Len(buf)) = <<>>
  BY <1>1 DEF Drop
<1>4. QED
  BY <1>1, <1>2, <1>3 DEF AfterSend

\* What is left in the buffer once a send is over.
LEMMA SentPass ==
  ASSUME NEW whole, NEW k \in Nat, NEW t, NEW cn \in ConnectionType,
         NEW buf \in Seq(Int), NEW in \in Seq(Int), NEW l \in Nat, NEW r, r \in {Failed} \cup Nat,
         Passes(whole, k, cn, buf, in, l, t), Underway(cn, buf, l, r)
  PROVE  /\ Passes(whole, k, cn, AfterSend(buf, r), in, Len(AfterSend(buf, r)), t)
         /\ ~cn.hup /\ cn.fd = "open" => AfterSend(buf, r) = <<>>
<1>1. CASE cn.hup
  BY <1>1 DEF Passes
<1>2. CASE ~cn.hup
  <2>1. r = Failed => cn.fd # "open"
    BY <1>2 DEF Underway, Pending, Failed
  <2>2. Stands(whole, k + Len(cn.out) + l - Len(buf), buf, in, t)
    BY <1>2 DEF Passes
  <2>3. PICK a, b, buf2 :
             /\ buf2 = AfterSend(buf, r) /\ b = k + Len(cn.out) + Len(buf2) - Len(buf2)
             /\ a = k + Len(cn.out) + l - Len(buf)
    OBVIOUS
  <2>4. Stands(whole, a, buf, in, t)
    BY <2>2, <2>3
  <2>5. Stands(whole, b, buf2, in, t)
    BY <2>1, <2>3, <2>4, SentStands
  <2>6. cn.fd = "open" => buf2 = <<>>
    BY <2>1, <2>3, SentAll
  <2>7. QED
    BY <1>2, <2>3, <2>5, <2>6 DEF Passes
<1>3. QED
  BY <1>1, <1>2

\* More bytes come in on the other connection.
LEMMA ArrivePass ==
  ASSUME NEW whole, NEW k \in Nat, NEW cn, NEW l, NEW t \in Nat,
         NEW buf \in Seq(Int), NEW in \in Seq(Int), NEW more \in Seq(Int),
         Passes(whole, k, cn, buf, in, l, t), PartOf(whole, more, t), Len(cn.out) \in Nat
  PROVE  Passes(whole, k, cn, buf, in \o more, l, t + Len(more))
<1>1. k + Len(cn.out) <= t + Len(more)
  BY DEF Passes
<1>2. ASSUME ~cn.hup
      PROVE  Stands(whole, k + Len(cn.out) + l - Len(buf), buf, in \o more, t + Len(more))
  <2>1. Stands(whole, k + Len(cn.out) + l - Len(buf), buf, in, t)
    BY <1>2 DEF Passes
  <2>2. QED
    BY <2>1, ArriveStands
<1>3. QED
  BY <1>1, <1>2 DEF Passes

\* Nothing has gone out yet, and the first n units of buf are not to.
LEMMA DropPass ==
  ASSUME NEW whole, NEW k \in Nat, NEW cn, NEW t \in Nat,
         NEW buf \in Seq(Int), NEW in \in Seq(Int), NEW n \in Nat,
         Passes(whole, k, cn, buf, in, Len(buf), t), n <= Len(buf), cn.out = <<>>, ~cn.hup
  PROVE  /\ Passes(whole, k + n, cn, Drop(buf, n), in, Len(Drop(buf, n)), t)
         /\ k + n <= t
<1> DEFINE rest == Drop(buf, n)
<1>1. Len(cn.out) = 0 /\ Len(rest) \in Nat /\ Len(buf) \in Nat
  BY DropIs
<1>2. k + Len(cn.out) + Len(buf) - Len(buf) = k /\ k + n + Len(cn.out) + Len(rest) - Len(rest) = k + n
  <2> HIDE DEF rest
  <2>1. QED
    BY <1>1
<1>3. Stands(whole, k, buf, in, t)
  BY <1>2 DEF Passes
<1>4. Stands(whole, k + n, rest, in, t)
  BY <1>3, DropStands
<1>5. k + n <= t /\ k + n + Len(cn.out) <= t
  <2>1. k + n + Len(rest) + Len(in) = t
    BY <1>4 DEF Stands
  <2> HIDE DEF rest
  <2>2. QED
    BY <1>1, <2>1
<1>6. PartOf(whole, cn.out, k + n)
  BY <1>1 DEF PartOf
<1> HIDE DEF rest
<1>7. Passes(whole, k + n, cn, rest, in, Len(rest), t) /\ k + n <= t
  BY <1>2, <1>4, <1>5, <1>6 DEF Passes
<1>8. QED
  BY <1>7 DEF rest
-----------------------------------------------------------------------------
(* What goes to the client.                                                *)

\* Two sequences joined.
LEMMA JoinIs ==
  ASSUME NEW s \in Seq(Int), NEW n \in Nat, Len(s) = n, NEW more \in Seq(Int)
  PROVE  /\ s \o more \in Seq(Int) /\ Len(s \o more) = n + Len(more)
         /\ \A i \in 1..n : (s \o more)[i] = s[i]
         /\ \A i \in 1..Len(more) : (s \o more)[n + i] = more[i]
<1>1. /\ s \o more \in Seq(Int) /\ Len(s \o more) = Len(s) + Len(more)
      /\ \A i \in 1..Len(s) + Len(more) :
           (s \o more)[i] = IF i <= Len(s) THEN s[i] ELSE more[i - Len(s)]
  BY AppendIs, Zenon
<1> DEFINE all == s \o more
           l == Len(more)
<1>2. l \in Nat /\ all \in Seq(Int) /\ Len(all) = n + l
      /\ \A i \in 1..n + l : all[i] = IF i <= n THEN s[i] ELSE more[i - n]
  BY <1>1
<1> HIDE DEF all, l
<1>3. \A i \in 1..n : all[i] = s[i]
  BY <1>2
<1>4. \A i \in 1..l : all[n + i] = more[i]
  <2> TAKE i \in 1..l
  <2>1. n + i \in 1..n + l /\ ~(n + i <= n) /\ (n + i) - n = i
    BY <1>2
  <2>2. QED
    BY <1>2, <2>1
<1>5. QED
  BY <1>2, <1>3, <1>4 DEF all, l

\* all is s, t and u, one behind the other.
Joined(s, t, u, all) ==
  /\ all \in Seq(Int) /\ Len(all) = 12 + Len(u)
  /\ \A i \in 1..2 : all[i] = s[i]
  /\ \A i \in 1..10 : all[2 + i] = t[i]
  /\ \A i \in 1..Len(u) : all[12 + i] = u[i]

\* Three sequences joined.
LEMMA JoinedIs ==
  \A s, t, u \in Seq(Int) : Len(s) = 2 /\ Len(t) = 10 => Joined(s, t, u, s \o t \o u)
<1> TAKE s, t, u \in Seq(Int)
<1> HAVE Len(s) = 2 /\ Len(t) = 10
<1>1. 2 \in Nat /\ 12 \in Nat
  OBVIOUS
<1>2. s \o t \in Seq(Int) /\ Len(s \o t) = 2 + Len(t)
  BY <1>1, JoinIs, Zenon
<1>3. \A i \in 1..2 : (s \o t)[i] = s[i]
  BY <1>1, JoinIs, Zenon
<1>4. \A i \in 1..Len(t) : (s \o t)[2 + i] = t[i]
  BY <1>1, JoinIs, Zenon
<1>5. Len(s \o t) = 12
  BY <1>2
<1>6. s \o t \o u \in Seq(Int) /\ Len(s \o t \o u) = 12 + Len(u)
  BY <1>1, <1>2, <1>5, JoinIs, Zenon
<1>7. \A i \in 1..12 : (s \o t \o u)[i] = (s \o t)[i]
  BY <1>1, <1>2, <1>5, JoinIs, Zenon
<1>8. \A i \in 1..Len(u) : (s \o t \o u)[12 + i] = u[i]
  BY <1>1, <1>2, <1>5, JoinIs, Zenon
<1>9. \A i \in 1..2 : i \in 1..12
  OBVIOUS
<1>10. \A i \in 1..10 : 2 + i \in 1..12 /\ i \in 1..Len(t)
  OBVIOUS
<1>11. \A i \in 1..2 : (s \o t \o u)[i] = s[i]
  BY <1>3, <1>7, <1>9, Zenon
<1>12. \A i \in 1..10 : (s \o t \o u)[2 + i] = t[i]
  BY <1>4, <1>7, <1>10, Zenon
<1>13. QED
  BY <1>6, <1>8, <1>11, <1>12 DEF Joined

\* The answers are the parts that they are joined from.
LEMMA AnswersAre ==
  ASSUME NEW m \in {0, 255}, NEW link \in Seq(Int), Len(link) = 10
  PROVE  Joined(MethodAnswer(m), link, RemoteData, MethodAnswer(m) \o link \o RemoteData)
<1>1. MethodAnswer(m) \in Seq(Int) /\ Len(MethodAnswer(m)) = 2
  BY DEF MethodAnswer
<1>2. QED
  BY <1>1, RemoteAssumption, JoinedIs

\* The same of the answers of this session.
LEMMA AnswersIs ==
  ASSUME SessionTypeOK, NEW m \in {0, 255}
  PROVE  Joined(MethodAnswer(m), LinkAnswer, RemoteData, Answers(m))
<1>1. LinkAnswer \in Seq(Int) /\ Len(LinkAnswer) = 10
  BY LinkAnswerIs DEF SessionTypeOK
<1>2. QED
  BY <1>1, AnswersAre DEF Answers

\* Another whole that agrees as far as it matters.
LEMMA AgreeStands ==
  ASSUME NEW whole, NEW other, NEW b, NEW buf \in Seq(Int), NEW in \in Seq(Int), NEW t,
         \A i \in 1..t : other[i] = whole[i], Stands(whole, b, buf, in, t)
  PROVE  Stands(other, b, buf, in, t)
<1> DEFINE n == Len(buf)
           l == Len(in)
<1>1. b \in Nat /\ n \in Nat /\ l \in Nat /\ t = b + n + l
  BY DEF Stands
<1>2. (\A i \in 1..n : buf[i] = whole[b + i]) /\ (\A i \in 1..l : in[i] = whole[b + n + i])
  BY DEF Stands, PartOf
<1> HIDE DEF n, l
<1>3. \A i \in 1..n : b + i \in 1..t
  BY <1>1
<1>4. \A i \in 1..l : b + n + i \in 1..t
  BY <1>1
<1>5. (\A i \in 1..n : buf[i] = other[b + i]) /\ (\A i \in 1..l : in[i] = other[b + n + i])
  BY <1>2, <1>3, <1>4
<1>6. QED
  BY <1>1, <1>5 DEF Stands, PartOf, n, l

\* Two sequences that agree have the same parts.
LEMMA AgreePartOf ==
  ASSUME NEW whole, NEW other, NEW s \in Seq(Int), NEW t \in Int, Len(s) <= t,
         \A i \in 1..t : other[i] = whole[i], PartOf(whole, s, 0)
  PROVE  PartOf(other, s, 0)
<1>1. \A i \in 1..Len(s) : i \in 1..t /\ 0 + i = i
  OBVIOUS
<1>2. QED
  BY <1>1 DEF PartOf

\* What may still change of a sequence does not matter yet.
LEMMA AgreePass ==
  ASSUME NEW whole, NEW other, NEW l, NEW cn, NEW cn2,
         NEW buf \in Seq(Int), NEW in \in Seq(Int), NEW t \in Nat,
         \A i \in 1..t : other[i] = whole[i],
         Passes(whole, 0, cn, buf, in, l, t), cn.out \in Seq(Int),
         cn2.out = cn.out, cn.hup => cn2.hup
  PROVE  Passes(other, 0, cn2, buf, in, l, t)
<1>1. Len(cn.out) <= t /\ 0 + Len(cn.out) <= t /\ PartOf(whole, cn.out, 0)
  BY DEF Passes
<1>2. PartOf(other, cn.out, 0)
  BY <1>1, AgreePartOf
<1>3. ASSUME ~cn2.hup
      PROVE  Stands(other, 0 + Len(cn2.out) + l - Len(buf), buf, in, t)
  <2>1. Stands(whole, 0 + Len(cn.out) + l - Len(buf), buf, in, t)
    BY <1>3 DEF Passes
  <2>2. QED
    BY <2>1, AgreeStands
<1>4. QED
  BY <1>1, <1>2, <1>3 DEF Passes

\* Nothing, the method or both answers have been given.
LEMMA AnsweredIs ==
  ASSUME SessionTypeOK
  PROVE  Answered \in Nat /\ (Answered = 0 \/ Answered = 2 \/ Answered >= 12)
<1>1. Len(RemoteData) \in Nat
  BY RemoteAssumption
<1>2. remoteSent \in Nat
  BY <1>1 DEF SessionTypeOK
<1>3. QED
  BY <1>2 DEF Answered

\* Nothing has changed that matters to the client; the address may change as
\* long as it has not gone out.
LEMMA SameToClient ==
  ASSUME SessionTypeOK, SessionTypeOK', NEW m \in {0, 255}, ToClient(m),
         addr' = addr \/ Answered <= 2, Answered' = Answered,
         local'.out = local.out, local.hup => local'.hup, __txBuf' = __txBuf,
         remote'.in = remote.in, TxUnsent' = TxUnsent, TxIdle' => TxIdle
  PROVE  ToClient(m)'
<1>1. /\ local.out \in Seq(Int) /\ __txBuf \in Seq(Int) /\ remote.in \in Seq(Int)
      /\ addr \in [1..4 -> Int]
  BY TypesAre DEF SessionTypeOK
<1>2. LinkAnswer' \in Seq(Int) /\ Len(LinkAnswer') = 10
  <2>1. addr' \in [1..4 -> Int]
    BY DEF SessionTypeOK
  <2>2. QED
    BY <2>1, LinkAnswerOf DEF LinkAnswer
<1>3. \A i \in 1..Answered : Answers(m)'[i] = Answers(m)[i]
  <2>1. CASE addr' = addr
    BY <2>1 DEF Answers, LinkAnswer
  <2>2. CASE Answered <= 2
    <3>1. \A i \in 1..2 : Answers(m)[i] = MethodAnswer(m)[i]
      BY AnswersIs DEF Joined
    <3>2. \A i \in 1..2 : Answers(m)'[i] = MethodAnswer(m)[i]
      <4>1. Joined(MethodAnswer(m), LinkAnswer', RemoteData, Answers(m)')
        BY <1>2, AnswersAre DEF Answers
      <4>2. QED
        BY <4>1 DEF Joined
    <3>3. \A i \in 1..Answered : i \in 1..2
      BY <2>2, AnsweredIs
    <3>4. QED
      BY <3>1, <3>2, <3>3
  <2>3. QED
    BY <2>1, <2>2
<1>4. Passes(Answers(m), 0, local, __txBuf, remote.in, TxUnsent, Answered)
  BY DEF ToClient
<1>5. Passes(Answers(m)', 0, local', __txBuf, remote.in, TxUnsent, Answered)
  <2>1. Answered \in Nat
    BY AnsweredIs
  <2>2. local.out \in Seq(Int)
    BY <1>1
  <2>3. __txBuf \in Seq(Int)
    BY <1>1
  <2>4. remote.in \in Seq(Int)
    BY <1>1
  <2>5. QED
    BY <1>3, <1>4, <2>1, <2>2, <2>3, <2>4, AgreePass, SMTT(30)
<1>6. QED
  BY <1>5 DEF ToClient

\* What SameToClient asks for.
QuietToClient ==
  /\ addr' = addr \/ Answered <= 2
  /\ Answered' = Answered
  /\ local'.out = local.out /\ (local.hup => local'.hup)
  /\ __txBuf' = __txBuf /\ remote'.in = remote.in
  /\ TxUnsent' = TxUnsent /\ (TxIdle' => TxIdle)

\* The steps that do nothing with what goes to the client.
LEMMA QuietSteps ==
  ASSUME SessionTypeOK, Places, Descriptors, Transfers, SessionNext
  PROVE  \/ QuietToClient
         \/ Auth /\ run' = "authSend"
         \/ AuthSent \/ ReplySent \/ RelaySent \/ RemoteSends
         \/ (Socket \/ ConnectRemote) /\ AnswerRequest
         \/ Transfer /\ (RelayReceives \/ RunAnswers \/ RelayForwards)
<1>0. /\ result \in [Loops -> {Pending, Failed} \cup 0..BufCap] /\ unsent \in [Loops -> 0..BufCap]
      /\ "run" \in Loops /\ "relay" \in Loops /\ "run" # "relay"
      /\ local \in ConnectionType /\ remote \in ConnectionType
  BY DEF SessionTypeOK, Loops
<1>1. CASE LocalGone \/ AuthIgnored \/ ReqTooShort \/ ReqAddressMissing \/ ReqOtherKind
  BY <1>0, <1>1 DEF LocalGone, AuthIgnored, ReqTooShort, ReqAddressMissing, ReqOtherKind, HasData, Done,
     NextRound, Continue, Returns, session, peers, QuietToClient, Answered, Replied, Greeted, TxUnsent,
     TxIdle
<1>2. CASE ReqAddress \/ ReqName
  <2>1. Answered = 2
    BY <1>2 DEF ReqAddress, ReqName, HasData, Done, Places, Answered, Replied, Greeted
  <2>2. QED
    BY <1>0, <1>2, <2>1 DEF ReqAddress, ReqName, HasData, Done, NextRound, Continue, Returns, peers,
       QuietToClient, Answered, Replied, Greeted, TxUnsent, TxIdle
<1>3. CASE Auth
  <2>1. CASE run' = "thrown"
    BY <1>0, <1>3, <2>1 DEF Auth, HasData, Done, peers, QuietToClient, Answered, Replied, Greeted,
       TxUnsent, TxIdle
  <2>2. QED
    BY <1>3, <2>1 DEF Auth
<1>4. CASE Socket \/ ConnectRemote \/ CloseFailed
  <2>1. CASE AnswerRequest
    BY <1>4, <2>1 DEF AnswerRequest, CloseFailed, NextRound, Continue
  <2>2. CASE ~AnswerRequest
    <3>1. remote.in = <<>> /\ remote'.in = <<>>
      BY <1>0, <1>4, <2>2 DEF Socket, ConnectRemote, CloseFailed, Descriptors, Places, NewConnection,
         SessionTypeOK
    <3>2. QED
      BY <1>0, <1>4, <2>2, <3>1 DEF Socket, ConnectRemote, CloseFailed, NextRound, Continue, Returns,
         session, peers, QuietToClient, Answered, Replied, Greeted, TxUnsent, TxIdle
  <2>3. QED
    BY <2>1, <2>2
<1>5. CASE LinkData \/ LinkSent \/ GetRelay \/ CloseRemote \/ CloseLocal
  BY <1>0, <1>5 DEF LinkData, LinkSent, GetRelay, CloseRemote, CloseLocal, HasData, Done, NextRound,
     Continue, Send, Returns, session, peers, Places, QuietToClient, Answered, Replied, Greeted,
     TxUnsent, TxIdle, ConnectionType
<1>6. CASE RelayStart \/ RelayReceived
  BY <1>0, <1>6 DEF RelayStart, RelayReceived, RelayContinue, Send, Returns, session, peers, Places,
     QuietToClient, Answered, Replied, Greeted, TxUnsent, TxIdle
<1>7. CASE HupReported \/ LocalSends \/ LocalShutsDown \/ RemoteShutsDown
  BY <1>0, <1>7 DEF HupReported, LocalSends, LocalShutsDown, RemoteShutsDown, session, peers,
     ConnectionType, QuietToClient, Answered, Replied, Greeted, TxUnsent, TxIdle
<1>8. CASE Transfer
  <2>1. UNCHANGED <<peers, __state, __linkflag, addr, port, run, relay>>
    BY <1>8, TransferIs
  <2>2. CASE RunReceives \/ RunForwards
    BY <1>0, <2>1, <2>2 DEF RunReceives, RunForwards, ReceivesInto, SendsFrom, Reads, Writes, peers,
       Places, QuietToClient, Answered, Replied, Greeted, TxUnsent, TxIdle
  <2>3. ASSUME NEW k \in Loops, FindsNothing(k) PROVE QuietToClient
    BY <1>0, <2>1, <2>3 DEF FindsNothing, Loops, peers, QuietToClient, Answered, Replied, Greeted,
       TxUnsent, TxIdle, Pending, Failed
  <2>4. QED
    BY <1>8, <2>2, <2>3, TransferIs
<1>9. QED
  BY <1>1, <1>2, <1>3, <1>4, <1>5, <1>6, <1>7, <1>8 DEF SessionNext, RunStep, RelayStep, Peers

\* The types of what a coroutine waits for.
LEMMA LoopTypes ==
  ASSUME SessionTypeOK, NEW k \in Loops
  PROVE  /\ unsent \in [Loops -> Nat] /\ unsent[k] \in Nat /\ BufCap \in Nat
         /\ unsent[k] <= BufCap
         /\ result \in [Loops -> {Pending, Failed} \cup 0..BufCap]
         /\ result[k] \in {Pending, Failed} \cup Nat
<1>1. unsent \in [Loops -> 0..BufCap] /\ result \in [Loops -> {Pending, Failed} \cup 0..BufCap]
  BY DEF SessionTypeOK
<1>2. unsent[k] \in 0..BufCap /\ result[k] \in {Pending, Failed} \cup 0..BufCap
  BY <1>1
<1>3. BufCap \in Nat /\ 0..BufCap \subseteq Nat
  BY CapAssumption
<1>4. QED
  BY <1>1, <1>2, <1>3

\* WritesPass for the client.
LEMMA AnswerWrites ==
  ASSUME local \in ConnectionType, __txBuf \in Seq(Int), remote.in \in Seq(Int),
         NEW whole, NEW l \in Nat, NEW n \in 1..l, NEW t,
         Passes(whole, 0, local, __txBuf, remote.in, l, t),
         Writes(local, __txBuf, l, n, local'), l <= Len(__txBuf), ~local.hup
  PROVE  Passes(whole, 0, local', __txBuf, remote.in, l - n, t)
BY WritesPass

\* A send to the client goes on.
LEMMA SendsToClient ==
  ASSUME SessionTypeOK, NEW m \in {0, 255}, ToClient(m), NEW k \in Loops,
         SendsFrom(k, local, __txBuf, local'), TxUnsent = unsent[k], TxUnsent' = unsent'[k],
         unsent[k] <= Len(__txBuf), ~TxIdle', Answers(m)' = Answers(m), Answered' = Answered,
         UNCHANGED <<__txBuf, remote>>
  PROVE  ToClient(m)'
<1>0. /\ local \in ConnectionType /\ __txBuf \in Seq(Int) /\ remote.in \in Seq(Int)
      /\ unsent \in [Loops -> Nat] /\ unsent[k] \in Nat /\ 0 \in Nat
  BY TypesAre, LoopTypes
<1>1. CASE local.hup /\ local' = local /\ UNCHANGED unsent
  BY <1>1 DEF ToClient
<1>2. ASSUME NEW n \in 1..unsent[k], ~local.hup, Writes(local, __txBuf, unsent[k], n, local'),
             unsent' = [unsent EXCEPT ![k] = @ - n]
      PROVE  ToClient(m)'
  <2>1. Passes(Answers(m), 0, local, __txBuf, remote.in, unsent[k], Answered)
    BY DEF ToClient
  <2>2. Passes(Answers(m), 0, local', __txBuf, remote.in, unsent[k] - n, Answered)
    BY <1>0, <1>2, <2>1, AnswerWrites, SMTT(30)
  <2>3. TxUnsent' = unsent[k] - n
    BY <1>0, <1>2
  <2>4. QED
    BY <2>2, <2>3 DEF ToClient
<1>3. QED
  BY <1>1, <1>2 DEF SendsFrom

\* A send to the client has ended.
LEMMA SentToClient ==
  ASSUME SessionTypeOK, NEW m \in {0, 255}, ToClient(m), NEW k \in Loops,
         result[k] # Pending, Underway(local, __txBuf, unsent[k], result[k]), local.fd = "open",
         TxUnsent = unsent[k], __txBuf' = AfterSend(__txBuf, result[k]),
         TxUnsent' = Len(__txBuf'), Answers(m)' = Answers(m), Answered' = Answered,
         UNCHANGED <<local, remote>>
  PROVE  ToClient(m)'
<1>0. /\ local \in ConnectionType /\ __txBuf \in Seq(Int) /\ remote.in \in Seq(Int)
      /\ unsent[k] \in Nat /\ result[k] \in {Failed} \cup Nat /\ 0 \in Nat
  BY TypesAre, LoopTypes
<1>1. Passes(Answers(m), 0, local, __txBuf, remote.in, unsent[k], Answered)
  BY DEF ToClient
<1>2. /\ Passes(Answers(m), 0, local, AfterSend(__txBuf, result[k]), remote.in,
                Len(AfterSend(__txBuf, result[k])), Answered)
      /\ ~local.hup /\ local.fd = "open" => AfterSend(__txBuf, result[k]) = <<>>
  BY <1>0, <1>1, SentPass
<1>3. QED
  BY <1>2 DEF ToClient

\* An answer is put into the empty buffer and begins to be sent.
LEMMA AnswerBegins ==
  ASSUME SessionTypeOK, NEW m \in {0, 255}, NEW bytes \in Seq(Int),
         Len(bytes) <= BufCap,
         Len(local.out) <= Answered, PartOf(Answers(m)', local.out, 0),
         ~local.hup => __txBuf = <<>> /\ Len(local.out) = Answered /\ remote'.in = <<>>,
         __txBuf' = Insert(__txBuf, bytes), TxUnsent' = Len(__txBuf'), ~TxIdle', UNCHANGED local,
         PartOf(Answers(m)', bytes, Answered), Answered' = Answered + Len(bytes)
  PROVE  ToClient(m)'
<1>0. /\ __txBuf \in Seq(Int) /\ local.out \in Seq(Int) /\ BufCap \in Nat /\ Answered \in Nat
  BY TypesAre, AnsweredIs
<1>1. 0 + Len(local.out) <= Answered' /\ PartOf(Answers(m)', local'.out, 0)
  BY <1>0
<1>2. ASSUME ~local.hup
      PROVE  Stands(Answers(m)', 0 + Len(local'.out) + TxUnsent' - Len(__txBuf'), __txBuf', remote'.in,
                  Answered')
  <2>1. __txBuf' = bytes
    <3>1. __txBuf = <<>> /\ Len(__txBuf) + Len(bytes) <= BufCap /\ Len(__txBuf) <= BufCap
      BY <1>0, <1>2
    <3>2. Insert(__txBuf, bytes) = __txBuf \o bytes
      BY <1>0, <3>1, InsertFits
    <3>3. QED
      BY <3>1, <3>2
  <2>2. 0 + Len(local'.out) + TxUnsent' - Len(__txBuf') = Answered
    BY <1>0, <1>2, <2>1
  <2>3. PartOf(Answers(m)', <<>>, Answered + Len(bytes)) /\ Len(<<>>) = 0
    BY DEF PartOf
  <2>4. Answered + Len(bytes) + Len(<<>>) = Answered'
    BY <1>0, <2>3
  <2>5. Stands(Answers(m)', Answered, bytes, <<>>, Answered')
    BY <1>0, <2>3, <2>4 DEF Stands
  <2>6. QED
    BY <1>2, <2>1, <2>2, <2>5
<1>3. QED
  BY <1>1, <1>2 DEF ToClient, Passes

\* Before the first answer.
LEMMA AuthAnswers ==
  ASSUME SessionTypeOK, SessionTypeOK', Places, Descriptors, NEW m \in {0, 255}, ToClient(m),
         Auth, run' = "authSend"
  PROVE  \E new \in {0, 255} : ToClient(new)'
<1>0. __state = "SOCK_INIT" /\ run = "recv" /\ relay = "none" /\ UNCHANGED <<__state, relay, local, remote, peers>>
  BY DEF Auth, HasData, Done, Places
<1>1. PICK new \in {0, 255} :
        /\ __txBuf' = Insert(__txBuf, MethodAnswer(new))
        /\ unsent' = [unsent EXCEPT !["run"] = Len(__txBuf')]
        /\ result' = [result EXCEPT !["run"] = Pending]
  BY DEF Auth, Send, Returns
<1>2. Answered = 0 /\ Answered' = 2 /\ TxIdle /\ ~TxIdle'
  BY <1>0 DEF Answered, Replied, Greeted, TxIdle
<1>3. unsent \in [Loops -> Nat] /\ "run" \in Loops
  BY LoopTypes DEF Loops
<1>4. TxUnsent' = Len(__txBuf')
  BY <1>1, <1>3 DEF TxUnsent
<1>5. /\ MethodAnswer(new) \in Seq(Int) /\ Len(MethodAnswer(new)) = 2
      /\ Len(MethodAnswer(new)) <= BufCap /\ Answered' = Answered + Len(MethodAnswer(new))
  BY <1>2, AnswerAssumption, CapAssumption DEF MethodAnswer
<1>6. PartOf(Answers(new)', MethodAnswer(new), Answered)
  <2>1. LinkAnswer' \in Seq(Int) /\ Len(LinkAnswer') = 10
    <3>1. addr' \in [1..4 -> Int]
      BY DEF SessionTypeOK
    <3>2. QED
      BY <3>1, LinkAnswerOf DEF LinkAnswer
  <2>2. Joined(MethodAnswer(new), LinkAnswer', RemoteData, Answers(new)')
    BY <2>1, AnswersAre DEF Answers
  <2>3. \A i \in 1..2 : Answers(new)'[i] = MethodAnswer(new)[i]
    BY <2>2 DEF Joined
  <2>4. \A i \in 1..2 : Answered + i = i
    BY <1>2
  <2>5. QED
    BY <1>5, <2>3, <2>4 DEF PartOf
<1>7. Len(local.out) = 0 /\ PartOf(Answers(new)', local.out, 0)
  <2>1. Len(local.out) \in Nat
    BY TypesAre
  <2>2. Len(local.out) = 0
    BY <1>2, <2>1 DEF ToClient, Passes
  <2>3. QED
    BY <2>2 DEF PartOf
<1>8. ~local.hup => __txBuf = <<>> /\ Len(local.out) = Answered /\ remote'.in = <<>>
  BY <1>0, <1>2, <1>7 DEF ToClient, Descriptors, NewConnection
<1>9. Len(local.out) <= Answered /\ UNCHANGED local
  BY <1>0, <1>2, <1>7
<1>10. ToClient(new)'
  BY <1>1, <1>2, <1>4, <1>5, <1>6, <1>7, <1>8, <1>9, AnswerBegins, Zenon
<1>11. QED
  BY <1>10

\* The answer to the request.
LEMMA RequestAnswers ==
  ASSUME SessionTypeOK, SessionTypeOK', Places, Descriptors, NEW m \in {0, 255}, ToClient(m),
         Socket \/ ConnectRemote, AnswerRequest
  PROVE  ToClient(m)'
<1>0. /\ __state = "SOCK_REQ" /\ run \in {"socket", "connect"} /\ relay = "none" /\ run' = "replySend"
      /\ UNCHANGED <<__state, relay, local, peers, addr>>
  BY DEF Socket, ConnectRemote, AnswerRequest, Places
<1>1. /\ __txBuf' = Insert(__txBuf, LinkAnswer)
      /\ unsent' = [unsent EXCEPT !["run"] = Len(__txBuf')]
  BY DEF AnswerRequest, Send
<1>2. Answered = 2 /\ Answered' = 12 /\ TxIdle /\ ~TxIdle'
  BY <1>0 DEF Answered, Replied, Greeted, TxIdle, Descriptors, peers
<1>3. unsent \in [Loops -> Nat] /\ "run" \in Loops
  BY LoopTypes DEF Loops
<1>4. TxUnsent' = Len(__txBuf')
  BY <1>0, <1>1, <1>3 DEF TxUnsent
<1>5. LinkAnswer \in Seq(Int) /\ Len(LinkAnswer) = 10 /\ Len(LinkAnswer) <= BufCap
      /\ Answered' = Answered + Len(LinkAnswer)
  <2>1. LinkAnswer \in Seq(Int) /\ Len(LinkAnswer) = 10
    BY LinkAnswerIs DEF SessionTypeOK
  <2>2. QED
    BY <1>2, <2>1, AnswerAssumption, CapAssumption
<1>6. Answers(m)' = Answers(m)
  BY <1>0 DEF Answers, LinkAnswer
<1>7. PartOf(Answers(m)', LinkAnswer, Answered)
  <2>1. \A i \in 1..10 : Answers(m)[2 + i] = LinkAnswer[i]
    <3>1. Joined(MethodAnswer(m), LinkAnswer, RemoteData, Answers(m))
      BY AnswersIs
    <3>2. QED
      BY <3>1 DEF Joined
  <2>2. QED
    BY <1>2, <1>5, <1>6, <2>1 DEF PartOf
<1>8. Len(local.out) <= Answered /\ PartOf(Answers(m)', local.out, 0)
  BY <1>2, <1>6, TypesAre DEF ToClient, Passes
<1>9. remote.in = <<>> /\ remote'.in = <<>>
  BY <1>0, TypesAre DEF Socket, ConnectRemote, AnswerRequest, Descriptors, NewConnection, ConnectionType
<1>10. ~local.hup => __txBuf = <<>> /\ Len(local.out) = Answered
  <2> SUFFICES ASSUME ~local.hup
               PROVE  __txBuf = <<>> /\ Len(local.out) = Answered
    OBVIOUS
  <2>1. __txBuf = <<>>
    BY <1>2 DEF ToClient
  <2>2. TxUnsent = Len(__txBuf)
    BY <1>0 DEF TxUnsent
  <2>3. Stands(Answers(m), 0 + Len(local.out) + TxUnsent - Len(__txBuf), __txBuf, remote.in, Answered)
    BY DEF ToClient, Passes
  <2>4. 0 + Len(local.out) + Len(<<>>) - Len(<<>>) + Len(<<>>) + Len(<<>>) = Answered /\ Len(<<>>) = 0
        /\ Len(local.out) \in Nat
    BY <1>9, <2>1, <2>2, <2>3, TypesAre DEF Stands
  <2>5. QED
    BY <2>1, <2>4
<1>11. UNCHANGED local
  BY <1>0
<1>12. QED
  BY <1>1, <1>2, <1>4, <1>5, <1>7, <1>8, <1>9, <1>10, <1>11, AnswerBegins, Zenon

\* ArrivePass for the client.
LEMMA AnswerArrives ==
  ASSUME __txBuf \in Seq(Int), remote.in \in Seq(Int), Len(local.out) \in Nat,
         NEW whole, NEW more \in Seq(Int), NEW l, NEW t \in Nat,
         Passes(whole, 0, local, __txBuf, remote.in, l, t), PartOf(whole, more, t)
  PROVE  Passes(whole, 0, local, __txBuf, remote.in \o more, l, t + Len(more))
BY ArrivePass

\* Bytes from the remote side.
LEMMA RemoteAnswers ==
  ASSUME SessionTypeOK, Places, Descriptors, NEW m \in {0, 255}, ToClient(m), RemoteSends
  PROVE  ToClient(m)'
<1> DEFINE t == 12 + remoteSent
           more == <<RemoteData[remoteSent + 1]>>
<1>0. remoteSent \in Nat /\ remoteSent < Len(RemoteData) /\ RemoteData \in Seq(Int)
      /\ Len(RemoteData) \in Nat
  BY RemoteAssumption DEF SessionTypeOK, RemoteSends
<1>1. more \in Seq(Int) /\ Len(more) = 1 /\ t \in Nat /\ 0 \in Nat
  BY <1>0
<1>2. Replied /\ Replied' /\ Answered = t /\ Answered' = t + 1
  <2>1. Replied
    BY DEF RemoteSends, Connected, Descriptors, Replied
  <2>2. Replied' /\ remoteSent' = remoteSent + 1
    BY <2>1 DEF RemoteSends, Replied
  <2>3. QED
    BY <1>0, <2>1, <2>2 DEF Answered
<1>3. remote'.in = remote.in \o more
  <2>1. remote.in \in Seq(Int) /\ remote \in ConnectionType
    BY TypesAre
  <2>2. RemoteData[remoteSent + 1] \in Int
    BY <1>0
  <2>3. Append(remote.in, RemoteData[remoteSent + 1]) = remote.in \o more
    BY <2>1, <2>2
  <2>4. remote'.in = Append(remote.in, RemoteData[remoteSent + 1])
    BY <2>1 DEF RemoteSends, ConnectionType
  <2>5. QED
    BY <2>3, <2>4
<1>4. PartOf(Answers(m), more, t)
  <2>1. \A i \in 1..Len(RemoteData) : Answers(m)[12 + i] = RemoteData[i]
    <3>1. Joined(MethodAnswer(m), LinkAnswer, RemoteData, Answers(m))
      BY AnswersIs
    <3>2. QED
      BY <3>1 DEF Joined
  <2>2. Answers(m)[12 + (remoteSent + 1)] = RemoteData[remoteSent + 1] /\ 12 + (remoteSent + 1) = t + 1
    BY <1>0, <2>1
  <2>3. QED
    BY <1>1, <2>2 DEF PartOf
<1>5. /\ __txBuf \in Seq(Int) /\ remote.in \in Seq(Int) /\ Len(local.out) \in Nat
  BY TypesAre
<1>6. UNCHANGED <<local, __txBuf, __rxBuf, run, relay, unsent, result, addr>>
  BY DEF RemoteSends, session
<1>7. Passes(Answers(m), 0, local, __txBuf, remote.in, TxUnsent, t)
  BY <1>2 DEF ToClient
<1> HIDE DEF t, more
<1>8. Passes(Answers(m), 0, local, __txBuf, remote.in \o more, TxUnsent, t + Len(more))
  <2>1. t \in Nat
    BY <1>1
  <2>2. more \in Seq(Int)
    BY <1>1
  <2>3. __txBuf \in Seq(Int)
    BY <1>5
  <2>4. remote.in \in Seq(Int)
    BY <1>5
  <2>5. Len(local.out) \in Nat
    BY <1>5
  <2>6. QED
    BY <1>4, <1>7, <2>1, <2>2, <2>3, <2>4, <2>5, AnswerArrives
<1>9. TxUnsent' = TxUnsent /\ (TxIdle' <=> TxIdle) /\ Answers(m)' = Answers(m)
  BY <1>6 DEF TxUnsent, TxIdle, Answers, LinkAnswer
<1>10. Passes(Answers(m)', 0, local', __txBuf', remote'.in, TxUnsent', Answered')
  BY <1>1, <1>2, <1>3, <1>6, <1>8, <1>9
<1>11. QED
  BY <1>6, <1>9, <1>10 DEF ToClient

\* What handleRLink() receives goes behind what is in __txBuf.
LEMMA AnswerReads ==
  ASSUME remote \in ConnectionType, __txBuf \in Seq(Int), Len(local.out) \in Nat,
         NEW whole, NEW r, NEW t,
         Passes(whole, 0, local, __txBuf, remote.in, Len(__txBuf), t),
         Reads(remote, __txBuf, r, remote', __txBuf')
  PROVE  Passes(whole, 0, local, __txBuf', remote'.in, Len(__txBuf'), t)
BY ReadsPass

\* A receive of handleRLink() keeps ToClient.
LEMMA RelayReads ==
  ASSUME SessionTypeOK, Places, Descriptors, NEW m \in {0, 255}, ToClient(m), RelayReceives,
         UNCHANGED <<peers, __state, addr, run, relay>>
  PROVE  ToClient(m)'
<1>0. relay = "recv" /\ relay' = "recv" /\ run' = run /\ run \notin {"authSend", "replySend"}
      /\ local' = local
  BY DEF RelayReceives, Places
<1>1. TxUnsent = Len(__txBuf) /\ TxUnsent' = Len(__txBuf')
  BY <1>0 DEF TxUnsent
<1>2. Answers(m)' = Answers(m) /\ Answered' = Answered
  BY DEF Answers, LinkAnswer, Answered, Replied, Greeted, peers
<1>3. PICK r \in 0..BufCap : Reads(remote, __txBuf, r, remote', __txBuf')
                             /\ result' = [result EXCEPT !["relay"] = r]
  BY DEF RelayReceives, ReceivesInto
<1>4. ~TxIdle'
  <2>1. result'["relay"] = r
    BY <1>3, LoopTypes DEF Loops
  <2>2. QED
    BY <1>0, <2>1, CapAssumption DEF TxIdle, Pending
<1>5. Passes(Answers(m), 0, local, __txBuf, remote.in, Len(__txBuf), Answered)
  BY <1>1 DEF ToClient
<1>6. Passes(Answers(m), 0, local, __txBuf', remote'.in, Len(__txBuf'), Answered)
  <2>1. remote \in ConnectionType
    BY TypesAre
  <2>2. __txBuf \in Seq(Int)
    BY TypesAre
  <2>3. Len(local.out) \in Nat
    BY TypesAre
  <2>4. QED
    <3>1. Reads(remote, __txBuf, r, remote', __txBuf')
      BY <1>3
    <3>2. QED
      BY <1>5, <2>1, <2>2, <2>3, <3>1, AnswerReads
<1>7. QED
  BY <1>0, <1>1, <1>2, <1>4, <1>6 DEF ToClient

\* Every step keeps ToClient, with the same method unless it is chosen now.
LEMMA ToClientKept ==
  ASSUME SessionTypeOK, Places, Descriptors, Transfers, SessionNext, NEW m \in {0, 255}, ToClient(m)
  PROVE  \E new \in {0, 255} : ToClient(new)'
<1>0. SessionTypeOK' /\ "run" \in Loops /\ "relay" \in Loops
  BY SessionTypesKept DEF Loops
<1>1. CASE QuietToClient
  BY <1>0, <1>1, SameToClient DEF QuietToClient
<1>2. CASE Auth /\ run' = "authSend"
  BY <1>0, <1>2, AuthAnswers
<1>3. CASE AuthSent
  <2>1. /\ run = "authSend" /\ __state = "SOCK_INIT" /\ relay = "none" /\ result["run"] # Pending
        /\ __state' = "SOCK_REQ" /\ __txBuf' = AfterSend(__txBuf, result["run"])
        /\ UNCHANGED <<local, remote, addr, relay, peers>>
    BY <1>3 DEF AuthSent, Done, Places
  <2>2. run' \in {"recv", "get", "closeLocal"}
    BY <1>3 DEF AuthSent, NextRound, Continue
  <2>3. Underway(local, __txBuf, unsent["run"], result["run"]) /\ local.fd = "open"
    BY <2>1 DEF Transfers, Descriptors
  <2>4. TxUnsent = unsent["run"] /\ TxUnsent' = Len(__txBuf')
    BY <2>1, <2>2 DEF TxUnsent
  <2>5. Answers(m)' = Answers(m) /\ Answered' = Answered
    BY <2>1, <2>2 DEF Answers, LinkAnswer, Answered, Replied, Greeted
  <2>6. ToClient(m)'
    BY <1>0, <2>1, <2>3, <2>4, <2>5, SentToClient
  <2>7. QED
    BY <2>6
<1>4. CASE ReplySent
  <2>1. /\ run = "replySend" /\ relay = "none" /\ result["run"] # Pending
        /\ relay' = "start" /\ __txBuf' = AfterSend(__txBuf, result["run"])
        /\ UNCHANGED <<local, remote, addr, peers>>
    BY <1>4 DEF ReplySent, Done, Places
  <2>2. run' \in {"recv", "get"}
    BY <1>4 DEF ReplySent, Continue
  <2>3. Underway(local, __txBuf, unsent["run"], result["run"]) /\ local.fd = "open"
    BY <2>1 DEF Transfers, Descriptors
  <2>4. TxUnsent = unsent["run"] /\ TxUnsent' = Len(__txBuf')
    BY <2>1, <2>2 DEF TxUnsent
  <2>5. Answers(m)' = Answers(m) /\ Answered' = Answered
    BY <2>1, <2>2 DEF Answers, LinkAnswer, Answered, Replied, peers
  <2>6. ToClient(m)'
    BY <1>0, <2>1, <2>3, <2>4, <2>5, SentToClient
  <2>7. QED
    BY <2>6
<1>5. CASE RelaySent
  <2>1. /\ relay = "send" /\ result["relay"] # Pending /\ run \notin {"authSend", "replySend", "done"}
        /\ relay' \in {"recv", "done"} /\ __txBuf' = AfterSend(__txBuf, result["relay"])
        /\ UNCHANGED <<local, remote, addr, run, peers>>
    BY <1>5 DEF RelaySent, RelayContinue, Places
  <2>2. Underway(local, __txBuf, unsent["relay"], result["relay"]) /\ local.fd = "open"
    BY <2>1 DEF Transfers, Descriptors
  <2>3. TxUnsent = unsent["relay"] /\ TxUnsent' = Len(__txBuf')
    BY <2>1 DEF TxUnsent
  <2>4. Answers(m)' = Answers(m) /\ Answered' = Answered
    BY <2>1 DEF Answers, LinkAnswer, Answered, Replied, peers
  <2>5. ToClient(m)'
    BY <1>0, <2>1, <2>2, <2>3, <2>4, SentToClient
  <2>6. QED
    BY <2>5
<1>6. CASE RemoteSends
  BY <1>6, RemoteAnswers
<1>7. CASE (Socket \/ ConnectRemote) /\ AnswerRequest
  BY <1>0, <1>7, RequestAnswers
<1>8. CASE Transfer /\ (RelayReceives \/ RunAnswers \/ RelayForwards)
  <2>1. UNCHANGED <<peers, __state, addr, run, relay>>
    BY <1>8, TransferIs
  <2>2. Answers(m)' = Answers(m) /\ Answered' = Answered
    BY <2>1 DEF Answers, LinkAnswer, Answered, Replied, Greeted, peers
  <2>3. CASE RelayReceives
    BY <2>1, <2>3, RelayReads
  <2>4. CASE RunAnswers
    <3>1. run \in {"authSend", "replySend"} /\ UNCHANGED <<__txBuf, remote>>
          /\ SendsFrom("run", local, __txBuf, local')
      BY <2>4 DEF RunAnswers
    <3>2. unsent["run"] <= Len(__txBuf)
      BY <3>1 DEF Transfers, Underway
    <3>3. TxUnsent = unsent["run"] /\ TxUnsent' = unsent'["run"] /\ ~TxIdle'
      BY <2>1, <3>1 DEF TxUnsent, TxIdle
    <3>4. ToClient(m)'
      BY <1>0, <2>2, <3>1, <3>2, <3>3, SendsToClient
    <3>5. QED
      BY <3>4
  <2>5. CASE RelayForwards
    <3>1. relay = "send" /\ UNCHANGED <<__txBuf, remote>>
          /\ SendsFrom("relay", local, __txBuf, local') /\ run \notin {"authSend", "replySend"}
      BY <2>5 DEF RelayForwards, Places
    <3>2. unsent["relay"] <= Len(__txBuf)
      BY <3>1 DEF Transfers, Underway
    <3>3. TxUnsent = unsent["relay"] /\ TxUnsent' = unsent'["relay"] /\ ~TxIdle'
      BY <2>1, <3>1 DEF TxUnsent, TxIdle
    <3>4. ToClient(m)'
      BY <1>0, <2>2, <3>1, <3>2, <3>3, SendsToClient
    <3>5. QED
      BY <3>4
  <2>6. QED
    BY <1>8, <2>3, <2>4, <2>5
<1>9. QED
  BY <1>1, <1>2, <1>3, <1>4, <1>5, <1>6, <1>7, <1>8, QuietSteps
-----------------------------------------------------------------------------
(* A side that has gone.                                                   *)

\* Who has gone does not come back.
LEMMA OneGoneKept ==
  ASSUME SessionTypeOK, Places, Descriptors, Transfers, SessionNext, OneGone
  PROVE  OneGone'
<1>0. local \in ConnectionType /\ remote \in ConnectionType
  BY TypesAre
<1>1. CASE Socket \/ ConnectRemote \/ CloseFailed
  <2>1. remote = NewConnection(remote.fd) /\ remote.fd # "bad" /\ UNCHANGED local
    BY <1>1 DEF Socket, ConnectRemote, CloseFailed, Descriptors, Places
  <2>2. local.eof
    BY <2>1 DEF OneGone, NewConnection
  <2>3. QED
    BY <2>1, <2>2 DEF OneGone
<1>2. CASE CloseRemote \/ CloseLocal
  <2>1. CASE CloseRemote
    <3>1. UNCHANGED local /\ remote'.eof = remote.eof /\ (remote.fd = "bad" => remote'.fd = "bad")
      BY <1>0, <2>1 DEF CloseRemote, ConnectionType
    <3>2. QED
      BY <3>1 DEF OneGone
  <2>2. CASE CloseLocal
    <3>1. UNCHANGED remote /\ local'.eof = local.eof
      BY <1>0, <2>2 DEF CloseLocal, ConnectionType
    <3>2. QED
      BY <3>1 DEF OneGone
  <2>3. QED
    BY <1>2, <2>1, <2>2
<1>3. CASE LocalGone \/ AuthIgnored \/ Auth \/ AuthSent \/ ReqTooShort \/ ReqAddressMissing
           \/ ReqAddress \/ ReqName \/ ReqOtherKind \/ ReplySent \/ LinkData \/ LinkSent \/ GetRelay
           \/ RelayStep
  <2>1. UNCHANGED <<local, remote>>
    BY <1>3 DEF LocalGone, AuthIgnored, Auth, AuthSent, ReqTooShort, ReqAddressMissing, ReqAddress,
       ReqName, ReqOtherKind, ReplySent, LinkData, LinkSent, GetRelay, RelayStep, RelayStart,
       RelayReceived, RelaySent
  <2>2. QED
    BY <2>1 DEF OneGone
<1>4. CASE Transfer
  <2>1. Status(local') = Status(local) /\ Status(remote') = Status(remote)
    BY <1>4, TransferIs DEF RunReceives, RelayReceives, RunAnswers, RunForwards, RelayForwards,
       FindsNothing, ReceivesInto, SendsFrom, Reads, Writes, Status
  <2>2. QED
    BY <2>1 DEF OneGone, Status
<1>5. CASE HupReported \/ Peers
  <2>1. /\ local'.eof = local.eof \/ local'.eof
        /\ remote'.eof = remote.eof \/ remote'.eof
        /\ remote'.fd = remote.fd
    BY <1>0, <1>5 DEF HupReported, Peers, LocalSends, LocalShutsDown, RemoteSends, RemoteShutsDown,
       ConnectionType
  <2>2. QED
    BY <2>1 DEF OneGone
<1>6. QED
  BY <1>1, <1>2, <1>3, <1>4, <1>5 DEF SessionNext, RunStep

\* Every step keeps RelayGone.
LEMMA RelayGoneKept ==
  ASSUME SessionTypeOK, Places, Descriptors, Transfers, RelayGone, NEW m \in {0, 255}, ToClient(m),
         SessionNext
  PROVE  RelayGone'
<1>0. OneGone => OneGone'
  BY OneGoneKept
<1>1. result \in [Loops -> {Pending, Failed} \cup 0..BufCap] /\ "run" \in Loops /\ "relay" \in Loops
      /\ Pending \notin {Failed, 0}
  BY LoopTypes DEF Loops, Pending, Failed
<1>2. CASE result'["relay"] = result["relay"] /\ relay' = relay
  BY <1>0, <1>2 DEF RelayGone
<1>3. CASE relay' # "recv"
  BY <1>3 DEF RelayGone
<1>4. CASE result'["relay"] = Pending
  BY <1>1, <1>4 DEF RelayGone
<1>5. CASE RunStep \/ RelayStep \/ HupReported \/ Peers
  <2>1. CASE RunStep
    <3>1. UNCHANGED relay \/ relay' = "start"
      BY <2>1 DEF RunStep, LocalGone, AuthIgnored, Auth, AuthSent, ReqTooShort, ReqAddressMissing,
         ReqAddress, ReqName, ReqOtherKind, Socket, ConnectRemote, CloseFailed, ReplySent, LinkData,
         LinkSent, GetRelay, CloseRemote, CloseLocal
    <3>2. UNCHANGED result \/ result' = [result EXCEPT !["run"] = Pending]
      BY <2>1 DEF RunStep, LocalGone, AuthIgnored, Auth, AuthSent, ReqTooShort, ReqAddressMissing,
         ReqAddress, ReqName, ReqOtherKind, Socket, ConnectRemote, CloseFailed, ReplySent, LinkData,
         LinkSent, GetRelay, CloseRemote, CloseLocal, AnswerRequest, Send, Returns, NextRound
    <3>3. result'["relay"] = result["relay"]
      BY <1>1, <3>2
    <3>4. QED
      BY <1>2, <1>3, <3>1, <3>3
  <2>2. CASE RelayStep
    BY <1>1, <1>2, <1>3, <1>4, <2>2 DEF RelayStep, RelayStart, RelayReceived, RelaySent, Returns,
       Places
  <2>3. CASE HupReported \/ Peers
    BY <1>2, <2>3 DEF HupReported, Peers, LocalSends, LocalShutsDown, RemoteSends, RemoteShutsDown
  <2>4. QED
    BY <1>5, <2>1, <2>2, <2>3
<1>6. CASE Transfer
  <2>0. UNCHANGED <<run, relay>>
    BY <1>6, TransferIs
  <2>1. CASE RunReceives \/ RunAnswers \/ RunForwards \/ FindsNothing("run")
    <3>1. result'["relay"] = result["relay"]
      BY <1>1, <2>1 DEF RunReceives, RunAnswers, RunForwards, FindsNothing, ReceivesInto, SendsFrom
    <3>2. QED
      BY <1>2, <2>0, <3>1
  <2>2. CASE RelayForwards
    BY <1>3, <2>0, <2>2 DEF RelayForwards
  <2>3. CASE FindsNothing("relay")
    <3> SUFFICES ASSUME relay' = "recv" PROVE OneGone'
      BY DEF RelayGone
    <3>1. relay = "recv" /\ remote.fd # "open"
      BY <2>0, <2>3 DEF FindsNothing, Conn, OnRemote, Place
    <3>2. remote.fd = "bad"
      BY <3>1 DEF Descriptors, Places
    <3>3. QED
      BY <1>0, <3>2 DEF OneGone
  <2>4. CASE RelayReceives
    <3> SUFFICES ASSUME result'["relay"] \in {Failed, 0} PROVE OneGone
      BY <1>0 DEF RelayGone
    <3>1. PICK r \in 0..BufCap :
            (r = 0 => Len(__txBuf) = BufCap \/ remote.eof) /\ result' = [result EXCEPT !["relay"] = r]
      BY <2>4 DEF RelayReceives, ReceivesInto
    <3>2. r = 0
      BY <1>1, <3>1, CapAssumption DEF Failed
    <3>3. TxIdle
      BY <2>4 DEF RelayReceives, ReceivesInto, TxIdle, Places
    <3>4. CASE local.hup
      BY <3>4 DEF Descriptors, OneGone
    <3>5. CASE ~local.hup
      <4>1. __txBuf = <<>>
        BY <3>3, <3>5 DEF ToClient
      <4>2. Len(__txBuf) # BufCap
        BY <4>1, CapAssumption
      <4>3. QED
        BY <3>1, <3>2, <4>2 DEF OneGone
    <3>6. QED
      BY <3>4, <3>5
  <2>5. QED
    BY <1>6, <2>1, <2>2, <2>3, <2>4, TransferIs DEF Loops
<1>7. QED
  BY <1>5, <1>6 DEF SessionNext
-----------------------------------------------------------------------------
(* What goes to the remote side.                                           *)

\* The steps that take something of the greeting or the request.
Takes == Auth \/ ReqAddressMissing \/ ReqAddress \/ ReqName

QuietToRemote ==
  /\ UNCHANGED <<script, clientSent, __rxBuf>>
  /\ remote'.out = remote.out /\ (remote.hup => remote'.hup)
  /\ local'.in = local.in /\ RxUnsent' = RxUnsent

\* The steps that do nothing with what goes to the remote side, and the others.
LEMMA QuietRemoteSteps ==
  ASSUME SessionTypeOK, Places, Descriptors, Transfers, SessionNext
  PROVE  QuietToRemote \/ Takes \/ LinkSent \/ LocalSends \/ (Transfer /\ (RunReceives \/ RunForwards))
<1>0. /\ unsent \in [Loops -> 0..BufCap]
      /\ "run" \in Loops /\ "relay" \in Loops /\ "run" # "relay"
      /\ local \in ConnectionType /\ remote \in ConnectionType
  BY DEF SessionTypeOK, Loops
<1>1. CASE LocalGone \/ AuthIgnored \/ ReqTooShort \/ ReqOtherKind
  BY <1>0, <1>1 DEF LocalGone, AuthIgnored, ReqTooShort, ReqOtherKind, HasData, Done,
     NextRound, Continue, session, peers, QuietToRemote, RxUnsent
<1>2. CASE Socket \/ ConnectRemote \/ CloseFailed
  <2>1. remote = NewConnection(remote.fd)
    BY <1>2 DEF Socket, ConnectRemote, CloseFailed, Descriptors, Places
  <2>2. remote'.out = remote.out /\ ~remote.hup
    BY <1>0, <1>2, <2>1 DEF Socket, ConnectRemote, CloseFailed, NewConnection
  <2>3. run' # "linkSend" /\ run # "linkSend" /\ UNCHANGED <<script, clientSent, __rxBuf, local>>
    BY <1>2 DEF Socket, ConnectRemote, CloseFailed, AnswerRequest, NextRound, Continue, peers, session
  <2>4. QED
    BY <2>2, <2>3 DEF QuietToRemote, RxUnsent
<1>3. CASE AuthSent \/ ReplySent \/ LinkData \/ GetRelay
  BY <1>0, <1>3 DEF AuthSent, ReplySent, LinkData, GetRelay, HasData, Done, NextRound, Continue, Send,
     Returns, session, peers, QuietToRemote, RxUnsent
<1>4. CASE CloseRemote \/ CloseLocal
  BY <1>0, <1>4 DEF CloseRemote, CloseLocal, session, peers, QuietToRemote, RxUnsent, ConnectionType
<1>5. CASE RelayStep
  <2>1. UNCHANGED <<peers, local, remote, __rxBuf, run>>
    BY <1>5 DEF RelayStep, RelayStart, RelayReceived, RelaySent, session
  <2>2. unsent'["run"] = unsent["run"]
    BY <1>0, <1>5 DEF RelayStep, RelayStart, RelayReceived, RelaySent, Send
  <2>3. QED
    BY <2>1, <2>2 DEF QuietToRemote, RxUnsent, peers
<1>6. CASE HupReported \/ LocalShutsDown \/ RemoteSends \/ RemoteShutsDown
  BY <1>0, <1>6 DEF HupReported, LocalShutsDown, RemoteSends, RemoteShutsDown, session, peers,
     ConnectionType, QuietToRemote, RxUnsent
<1>7. CASE Transfer
  <2>1. UNCHANGED <<peers, __state, __linkflag, addr, port, run, relay>>
    BY <1>7, TransferIs
  <2>2. CASE RelayReceives
    BY <1>0, <2>1, <2>2 DEF RelayReceives, ReceivesInto, Reads, peers, QuietToRemote, RxUnsent
  <2>3. CASE RelayForwards \/ RunAnswers
    <3>1. UNCHANGED <<remote, __rxBuf>> /\ local'.in = local.in
      BY <2>3 DEF RunAnswers, RelayForwards, SendsFrom, Writes
    <3>2. RxUnsent' = RxUnsent
      BY <1>0, <2>1, <2>3, <3>1 DEF RunAnswers, RelayForwards, SendsFrom, RxUnsent
    <3>3. QED
      BY <2>1, <3>1, <3>2 DEF QuietToRemote, peers
  <2>4. ASSUME NEW k \in Loops, FindsNothing(k) PROVE QuietToRemote
    BY <2>1, <2>4 DEF FindsNothing, peers, QuietToRemote, RxUnsent
  <2>5. QED
    BY <1>7, <2>2, <2>3, <2>4, TransferIs
<1>8. QED
  BY <1>1, <1>2, <1>3, <1>4, <1>5, <1>6, <1>7 DEF SessionNext, RunStep, Peers, Takes

\* To drop bytes twice is to drop them at once.
LEMMA DropDrop ==
  ASSUME NEW buf \in Seq(Int), NEW a \in Nat, NEW b \in Nat, a + b <= Len(buf)
  PROVE  Drop(Drop(buf, a), b) = Drop(buf, a + b)
BY DEF Drop

\* The port is taken as a whole or not.
LEMMA TakePortIs ==
  ASSUME __rxBuf \in Seq(Int), NEW a \in 0..Len(__rxBuf), TakePort(Drop(__rxBuf, a))
  PROVE  \E n \in 0..Len(__rxBuf) : __rxBuf' = Drop(__rxBuf, n)
<1> DEFINE rest == Drop(__rxBuf, a)
<1>1. Len(rest) = Len(__rxBuf) - a /\ a \in Nat /\ a <= Len(__rxBuf) /\ Len(__rxBuf) \in Nat
  BY DropIs
<1>2. CASE __rxBuf' = rest
  BY <1>2
<1>3. CASE Len(rest) >= 2 /\ __rxBuf' = Drop(rest, 2)
  <2> HIDE DEF rest
  <2>1. a + 2 \in 0..Len(__rxBuf) /\ a + 2 <= Len(__rxBuf) /\ 2 \in Nat
    BY <1>1, <1>3
  <2>2. Drop(rest, 2) = Drop(__rxBuf, a + 2)
    BY <1>1, <2>1, DropDrop DEF rest
  <2>3. QED
    BY <1>3, <2>1, <2>2
<1>4. QED
  BY <1>2, <1>3 DEF TakePort, FieldArrives

\* Before the relay nothing has gone to a remote side.
LEMMA TakesIs ==
  ASSUME SessionTypeOK, Places, Descriptors, Takes
  PROVE  /\ remote.out = <<>> /\ ~remote.hup /\ run = "recv" /\ run' # "linkSend"
         /\ UNCHANGED <<peers, local, remote, relay, __state>> /\ relay = "none"
         /\ __state \in {"SOCK_INIT", "SOCK_REQ"} /\ result["run"] # Pending /\ result["run"] > 0
         /\ \E n \in 0..Len(__rxBuf) : __rxBuf' = Drop(__rxBuf, n)
<1>0. __rxBuf \in Seq(Int) /\ Len(__rxBuf) \in Nat /\ 0 <= Len(__rxBuf)
  BY TypesAre
<1>1. /\ run = "recv" /\ UNCHANGED <<peers, local, remote, relay, __state>>
      /\ __state \in {"SOCK_INIT", "SOCK_REQ"} /\ result["run"] # Pending /\ result["run"] > 0
  BY DEF Takes, Auth, ReqAddressMissing, ReqAddress, ReqName, HasData, Done, peers
<1>2. relay = "none" /\ remote = NewConnection(remote.fd)
  BY <1>1 DEF Places, Descriptors
<1>3. remote.out = <<>> /\ ~remote.hup
  BY <1>2 DEF NewConnection
<1>4. run' # "linkSend"
  BY DEF Takes, Auth, ReqAddressMissing, ReqAddress, ReqName, NextRound, Continue
<1>5. \E n \in 0..Len(__rxBuf) : __rxBuf' = Drop(__rxBuf, n)
  <2>1. CASE Auth
    <3> DEFINE methods == Drop(__rxBuf, 2)
               arrived == SubSeq(methods, 1, Min({__rxBuf[2], Len(methods)}))
    <3>1. Len(__rxBuf) >= 3 /\ 2 \in 0..Len(__rxBuf)
      BY <1>0, <2>1 DEF Auth
    <3>2. methods \in Seq(Int) /\ Len(methods) = Len(__rxBuf) - 2 /\ __rxBuf[2] \in Int
      BY <1>0, <3>1, DropIs
    <3>3. CASE __rxBuf' = methods
      BY <3>1, <3>3
    <3>4. CASE __rxBuf' = Drop(methods, Len(arrived))
      <4>1. Min({__rxBuf[2], Len(methods)}) \in Int
            /\ Min({__rxBuf[2], Len(methods)}) <= Len(methods)
        BY <3>2, MinIs
      <4> HIDE DEF methods
      <4>2. Len(arrived) \in 0..Len(methods)
        BY <3>2, <4>1, SubSeqIn
      <4> HIDE DEF arrived
      <4>3. Drop(methods, Len(arrived)) = Drop(__rxBuf, 2 + Len(arrived))
        BY <1>0, <3>1, <3>2, <4>2, DropDrop DEF methods
      <4>4. 2 + Len(arrived) \in 0..Len(__rxBuf)
        BY <1>0, <3>2, <4>2
      <4>5. QED
        BY <3>4, <4>3, <4>4
    <3>5. QED
      BY <2>1, <3>3, <3>4 DEF Auth
  <2>2. CASE ReqAddressMissing
    <3>1. 4 \in 0..Len(__rxBuf) /\ 5 \in 0..Len(__rxBuf)
      BY <1>0, <2>2 DEF ReqAddressMissing
    <3>2. QED
      BY <2>2, <3>1 DEF ReqAddressMissing
  <2>3. CASE ReqAddress
    <3>1. Len(__rxBuf) >= 8 /\ 8 \in 0..Len(__rxBuf) /\ TakePort(Drop(__rxBuf, 8))
      BY <1>0, <2>3 DEF ReqAddress
    <3>2. QED
      BY <1>0, <3>1, TakePortIs
  <2>4. CASE ReqName
    <3> DEFINE rest == Drop(__rxBuf, 5)
               length == Signed(__rxBuf[5])
               name == IF length < 0 THEN rest ELSE SubSeq(rest, 1, length)
    <3>1. Len(__rxBuf) >= 5 /\ 5 \in 0..Len(__rxBuf) /\ Len(rest) >= length
          /\ TakePort(Drop(rest, Len(name)))
      <4>1. Len(__rxBuf) >= 5 /\ Len(rest) >= length
        BY <2>4 DEF ReqName
      <4>2. TakePort(Drop(rest, Len(name)))
        BY <2>4 DEF ReqName
      <4>3. 5 \in 0..Len(__rxBuf)
        BY <1>0, <4>1
      <4>4. QED
        BY <4>1, <4>2, <4>3
    <3>2. rest \in Seq(Int) /\ Len(rest) = Len(__rxBuf) - 5 /\ length \in Int
      <4>1. __rxBuf[5] \in Int
        BY <1>0, <3>1
      <4>2. length \in Int
        BY <4>1 DEF Signed
      <4>3. QED
        BY <1>0, <3>1, <4>2, DropIs
    <3> HIDE DEF rest, length
    <3>3. Len(name) \in 0..Len(rest)
      BY <3>1, <3>2, SubSeqIn
    <3> HIDE DEF name
    <3>4. Drop(rest, Len(name)) = Drop(__rxBuf, 5 + Len(name)) /\ 5 + Len(name) \in 0..Len(__rxBuf)
      <4>1. Len(name) \in Nat /\ 5 \in Nat /\ 5 + Len(name) <= Len(__rxBuf)
        BY <1>0, <3>2, <3>3
      <4>2. Drop(rest, Len(name)) = Drop(__rxBuf, 5 + Len(name))
        BY <1>0, <4>1, DropDrop DEF rest
      <4>3. QED
        BY <4>1, <4>2
    <3>5. QED
      BY <1>0, <3>1, <3>4, TakePortIs
  <2>5. QED
    BY <2>1, <2>2, <2>3, <2>4 DEF Takes
<1>6. QED
  BY <1>1, <1>2, <1>3, <1>4, <1>5

\* What is taken is part of the greeting or of the request.
LEMMA TakesToRemote ==
  ASSUME SessionTypeOK, Places, Descriptors, Takes, NEW k \in 0..clientSent, ToRemote(k),
         NEW n \in 0..Len(__rxBuf), __rxBuf' = Drop(__rxBuf, n)
  PROVE  ToRemote(k + n)' /\ k + n \in 0..clientSent'
<1>1. /\ remote.out = <<>> /\ ~remote.hup /\ run = "recv" /\ run' # "linkSend"
      /\ UNCHANGED <<peers, local, remote>>
  BY TakesIs
<1>2. RxUnsent = Len(__rxBuf) /\ RxUnsent' = Len(__rxBuf')
  BY <1>1 DEF RxUnsent
<1>3. clientSent \in Nat
  BY TypesAre
<1>4. k \in Nat /\ n \in Nat /\ n <= Len(__rxBuf)
  BY <1>3, TypesAre
<1>5. __rxBuf \in Seq(Int)
  BY TypesAre
<1>6. local.in \in Seq(Int)
  BY TypesAre
<1>7. Passes(Stream, k, remote, __rxBuf, local.in, Len(__rxBuf), clientSent)
  BY <1>2 DEF ToRemote
<1>8. /\ Passes(Stream, k + n, remote, Drop(__rxBuf, n), local.in, Len(Drop(__rxBuf, n)), clientSent)
      /\ k + n <= clientSent
  BY <1>1, <1>3, <1>4, <1>5, <1>6, <1>7, DropPass
<1>9. Stream' = Stream /\ clientSent' = clientSent
  BY <1>1 DEF Stream, peers
<1>10. QED
  BY <1>1, <1>2, <1>3, <1>4, <1>8, <1>9 DEF ToRemote

\* Every other step goes on with the same bytes.
LEMMA ToRemoteKept ==
  ASSUME SessionTypeOK, Places, Descriptors, Transfers, SessionNext, ~Takes,
         NEW k \in 0..clientSent, ToRemote(k)
  PROVE  ToRemote(k)' /\ k \in 0..clientSent'
<1>0. /\ __rxBuf \in Seq(Int) /\ local \in ConnectionType /\ remote \in ConnectionType
      /\ local.in \in Seq(Int) /\ clientSent \in Nat /\ k \in Nat /\ Len(remote.out) \in Nat
      /\ "run" \in Loops /\ unsent["run"] \in Nat /\ result["run"] \in {Pending, Failed} \cup Nat
      /\ unsent \in [Loops -> Nat]
  BY TypesAre, LoopTypes DEF Loops
<1>1. Passes(Stream, k, remote, __rxBuf, local.in, RxUnsent, clientSent)
  BY DEF ToRemote
<1>2. CASE QuietToRemote
  BY <1>1, <1>2 DEF QuietToRemote, ToRemote, Passes, Stream
<1>3. CASE LinkSent
  <2>1. /\ run = "linkSend" /\ run' # "linkSend" /\ result["run"] # Pending
        /\ __rxBuf' = AfterSend(__rxBuf, result["run"]) /\ UNCHANGED <<peers, local, remote>>
    BY <1>3 DEF LinkSent, Done, NextRound, Continue
  <2>2. Underway(remote, __rxBuf, unsent["run"], result["run"])
    BY <2>1 DEF Transfers
  <2>3. Passes(Stream, k, remote, AfterSend(__rxBuf, result["run"]), local.in,
               Len(AfterSend(__rxBuf, result["run"])), clientSent)
    <3>1. Passes(Stream, k, remote, __rxBuf, local.in, unsent["run"], clientSent)
      BY <1>1, <2>1 DEF RxUnsent
    <3>2. result["run"] \in {Failed} \cup Nat
      BY <1>0, <2>1
    <3>3. remote \in ConnectionType
      BY <1>0
    <3>4. __rxBuf \in Seq(Int)
      BY <1>0
    <3>5. local.in \in Seq(Int)
      BY <1>0
    <3>6. k \in Nat /\ unsent["run"] \in Nat
      BY <1>0
    <3>7. QED
      BY <2>2, <3>1, <3>2, <3>3, <3>4, <3>5, <3>6, SentPass, Zenon
  <2>4. QED
    BY <2>1, <2>3 DEF ToRemote, RxUnsent, Stream, peers
<1>4. CASE LocalSends
  <2>1. PICK n \in Pieces :
          /\ local' = [local EXCEPT !.in = @ \o SubSeq(Stream, clientSent + 1, clientSent + n)]
          /\ clientSent' = clientSent + n
          /\ UNCHANGED <<script, remote, __rxBuf, run, unsent>>
    BY <1>4 DEF LocalSends, session
  <2>2. n \in Nat \ {0} /\ clientSent + n <= Len(Stream) /\ Stream \in Seq(Int)
    BY PiecesAre, TypesAre DEF SessionTypeOK
  <2> DEFINE more == SubSeq(Stream, clientSent + 1, clientSent + n)
  <2>3. more \in Seq(Int) /\ Len(more) = n /\ \A i \in 1..n : more[i] = Stream[clientSent + i]
    BY <1>0, <2>2, SliceIs
  <2>4. local'.in = local.in \o more
    BY <1>0, <2>1 DEF ConnectionType
  <2> HIDE DEF more
  <2>5. PartOf(Stream, more, clientSent)
    BY <2>3 DEF PartOf
  <2>6. Passes(Stream, k, remote, __rxBuf, local.in \o more, RxUnsent, clientSent + Len(more))
    <3>1. more \in Seq(Int)
      BY <2>3
    <3>2. __rxBuf \in Seq(Int)
      BY <1>0
    <3>3. local.in \in Seq(Int)
      BY <1>0
    <3>4. k \in Nat
      BY <1>0
    <3>5. clientSent \in Nat
      BY <1>0
    <3>6. Len(remote.out) \in Nat
      BY <1>0
    <3>7. QED
      BY <1>1, <2>5, <3>1, <3>2, <3>3, <3>4, <3>5, <3>6, ArrivePass
  <2>7. RxUnsent' = RxUnsent /\ Stream' = Stream /\ clientSent' = clientSent + Len(more)
    BY <2>1, <2>3 DEF RxUnsent, Stream
  <2>8. k \in 0..clientSent'
    BY <1>0, <2>1, <2>2
  <2>9. QED
    BY <2>1, <2>4, <2>6, <2>7, <2>8 DEF ToRemote
<1>5. CASE Transfer /\ (RunReceives \/ RunForwards)
  <2>1. UNCHANGED <<peers, run>>
    BY <1>5, TransferIs
  <2>2. Stream' = Stream /\ clientSent' = clientSent
    BY <2>1 DEF Stream, peers
  <2>3. CASE RunReceives
    <3>1. run = "recv" /\ remote' = remote
      BY <2>3 DEF RunReceives
    <3>2. RxUnsent = Len(__rxBuf) /\ RxUnsent' = Len(__rxBuf')
      BY <2>1, <3>1 DEF RxUnsent
    <3>3. PICK r : Reads(local, __rxBuf, r, local', __rxBuf')
      BY <2>3 DEF RunReceives, ReceivesInto
    <3>4. Passes(Stream, k, remote, __rxBuf', local'.in, Len(__rxBuf'), clientSent)
      <4>1. __rxBuf \in Seq(Int)
        BY <1>0
      <4>2. local \in ConnectionType
        BY <1>0
      <4>3. k \in Nat
        BY <1>0
      <4>4. Len(remote.out) \in Nat
        BY <1>0
      <4>5. Passes(Stream, k, remote, __rxBuf, local.in, Len(__rxBuf), clientSent)
        BY <1>1, <3>2
      <4>6. QED
        BY <3>3, <4>1, <4>2, <4>3, <4>4, <4>5, ReadsPass
    <3>5. QED
      BY <2>2, <3>1, <3>2, <3>4 DEF ToRemote
  <2>4. CASE RunForwards
    <3>1. run = "linkSend" /\ UNCHANGED <<__rxBuf, local>> /\ unsent["run"] <= Len(__rxBuf)
          /\ SendsFrom("run", remote, __rxBuf, remote')
      BY <2>4 DEF RunForwards, Transfers, Underway
    <3>2. RxUnsent = unsent["run"] /\ RxUnsent' = unsent'["run"]
      BY <2>1, <3>1 DEF RxUnsent
    <3>3. CASE remote.hup /\ remote' = remote /\ UNCHANGED unsent
      BY <1>1, <2>2, <3>1, <3>2, <3>3 DEF ToRemote
    <3>4. ASSUME NEW n \in 1..unsent["run"], ~remote.hup,
                 Writes(remote, __rxBuf, unsent["run"], n, remote'),
                 unsent' = [unsent EXCEPT !["run"] = @ - n]
          PROVE  ToRemote(k)'
      <4>1. Passes(Stream, k, remote', __rxBuf, local.in, unsent["run"] - n, clientSent)
        <5>1. __rxBuf \in Seq(Int)
          BY <1>0
        <5>2. remote \in ConnectionType
          BY <1>0
        <5>3. local.in \in Seq(Int)
          BY <1>0
        <5>4. k \in Nat
          BY <1>0
        <5>5. unsent["run"] \in Nat
          BY <1>0
        <5>6. Passes(Stream, k, remote, __rxBuf, local.in, unsent["run"], clientSent)
          BY <1>1, <3>2
        <5>7. QED
          BY <3>1, <3>4, <5>1, <5>2, <5>3, <5>4, <5>5, <5>6, WritesPass
      <4>2. unsent'["run"] = unsent["run"] - n
        BY <1>0, <3>4
      <4>3. QED
        BY <2>2, <3>1, <3>2, <4>1, <4>2 DEF ToRemote
    <3>5. ToRemote(k)'
      BY <3>1, <3>3, <3>4 DEF SendsFrom
    <3>6. QED
      BY <2>2, <3>5
  <2>5. QED
    BY <1>5, <2>3, <2>4
<1>6. ToRemote(k)'
  BY <1>2, <1>3, <1>4, <1>5, QuietRemoteSteps
<1>7. clientSent' \in Nat /\ clientSent <= clientSent'
  <2>1. CASE LocalSends
    <3>1. PICK n \in Pieces : clientSent' = clientSent + n
      BY <2>1 DEF LocalSends
    <3>2. n \in Nat
      BY PiecesAre DEF SessionTypeOK
    <3>3. QED
      BY <1>0, <3>1, <3>2
  <2>2. CASE ~LocalSends
    <3>1. clientSent' = clientSent
      BY <2>2, QuietRemoteSteps, TransferIs DEF QuietToRemote, LinkSent, peers
    <3>2. QED
      BY <1>0, <3>1
  <2>3. QED
    BY <2>1, <2>2
<1>8. QED
  BY <1>0, <1>6, <1>7
-----------------------------------------------------------------------------
(* A polite client.                                                        *)

\* What a polite client sends begins with a greeting and a request that fit.
LEMMA PoliteScript ==
  ASSUME script \in Scripts, script.polite
  PROVE  /\ script.ends[1] \in Nat /\ script.ends[2] \in Nat
         /\ 0 < script.ends[1] /\ script.ends[1] < script.ends[2] /\ script.ends[2] <= Len(Stream)
         /\ script.ends[1] <= BufCap /\ script.ends[2] - script.ends[1] <= BufCap
         /\ Greeting(SubSeq(Stream, 1, script.ends[1]))
         /\ Request(SubSeq(Stream, script.ends[1] + 1, script.ends[2]))
         /\ \A i \in DOMAIN script.ends : i \in Nat \ {0}
<1>1. /\ script.ends \in Seq(1..Len(Stream)) /\ Len(script.ends) >= 2
      /\ \A i, j \in DOMAIN script.ends : i < j => script.ends[i] < script.ends[j]
      /\ script.ends[1] <= BufCap /\ script.ends[2] - script.ends[1] <= BufCap
      /\ Greeting(SubSeq(Stream, 1, script.ends[1]))
      /\ Request(SubSeq(Stream, script.ends[1] + 1, script.ends[2]))
  BY ScriptsAssumption DEF Stream
<1>2. DOMAIN script.ends = 1..Len(script.ends) /\ Len(script.ends) \in Nat
  BY <1>1
<1>3. 1 \in DOMAIN script.ends /\ 2 \in DOMAIN script.ends
  BY <1>1, <1>2
<1>4. script.ends[1] \in 1..Len(Stream) /\ script.ends[2] \in 1..Len(Stream)
  BY <1>1, <1>2, <1>3
<1>5. script.ends[1] < script.ends[2]
  BY <1>1, <1>3
<1>6. Len(Stream) \in Nat
  BY StreamIs
<1>7. QED
  BY <1>1, <1>2, <1>4, <1>5, <1>6

\* It sends the greeting and then the request, and no more before the answer.
LEMMA PoliteSends ==
  ASSUME SessionTypeOK, script.polite, NEW m \in {0, 255}, ToClient(m), NEW k, Polite(k), ~Replied,
         NEW n \in Pieces
  PROVE  /\ clientSent = k /\ k \in {0, script.ends[1]}
         /\ clientSent + n = IF k = 0 THEN script.ends[1] ELSE script.ends[2]
<1>0. /\ script.ends[1] \in Nat /\ script.ends[2] \in Nat /\ 0 < script.ends[1]
      /\ script.ends[1] < script.ends[2] /\ \A i \in DOMAIN script.ends : i \in Nat \ {0}
  BY PoliteScript DEF SessionTypeOK
<1>1. PICK i \in DOMAIN script.ends :
        n = script.ends[i] - clientSent /\ clientSent = MessageEnd(i - 1)
        /\ Len(local.out) >= AnswersBefore(i)
  BY <1>0 DEF Pieces, MessageEnd
<1>2. i \in Nat \ {0} /\ Len(local.out) \in Nat /\ Len(local.out) <= Answered
      /\ clientSent \in Nat
  <2>1. i \in Nat \ {0}
    BY <1>0, <1>1
  <2>2. Len(local.out) \in Nat /\ clientSent \in Nat
    BY TypesAre
  <2>3. 0 + Len(local.out) <= Answered /\ Answered \in Nat
    BY AnsweredIs DEF ToClient, Passes
  <2>4. QED
    BY <2>1, <2>2, <2>3
<1>3. /\ k \in {0, script.ends[1], script.ends[2]} /\ (k = 0 <=> ~Greeted)
      /\ clientSent \in {k, IF k = 0 THEN script.ends[1] ELSE script.ends[2]}
  BY DEF Polite
<1>4. CASE k = 0
  <2>1. Answered = 0
    BY <1>3, <1>4 DEF Answered
  <2>2. i = 1
    BY <1>1, <1>2, <2>1 DEF AnswersBefore
  <2>3. clientSent = 0 /\ n = script.ends[1] - 0
    BY <1>1, <2>2 DEF MessageEnd
  <2>4. QED
    BY <1>0, <1>4, <2>3
<1>5. CASE k # 0
  <2>1. Answered = 2
    BY <1>3, <1>5 DEF Answered
  <2>2. i \in {1, 2}
    BY <1>1, <1>2, <2>1 DEF AnswersBefore
  <2>3. clientSent \in {script.ends[1], script.ends[2]}
    BY <1>3, <1>5
  <2>4. i # 1
    <3> SUFFICES ASSUME i = 1 PROVE FALSE
      OBVIOUS
    <3>1. clientSent = 0
      BY <1>1 DEF MessageEnd
    <3>2. QED
      BY <1>0, <2>3, <3>1
  <2>5. clientSent = script.ends[1] /\ n = script.ends[2] - clientSent
    <3>1. i = 2 /\ i - 1 = 1
      BY <2>2, <2>4
    <3>2. QED
      BY <1>1, <3>1 DEF MessageEnd
  <2>6. k = script.ends[1]
    BY <1>0, <1>3, <1>5, <2>5
  <2>7. QED
    BY <1>0, <2>5, <2>6
<1>6. QED
  BY <1>4, <1>5

\* Two sequences with the same members are one.
LEMMA SameSeq ==
  ASSUME NEW s \in Seq(Int), NEW t \in Seq(Int), Len(s) = Len(t), \A i \in 1..Len(s) : s[i] = t[i]
  PROVE  s = t
OBVIOUS

\* A port that is all there is leaves nothing.
LEMMA TakePortAll ==
  ASSUME NEW rest \in Seq(Int), Len(rest) = 2, TakePort(rest)
  PROVE  __rxBuf' = <<>>
<1>1. Drop(rest, 2) = <<>>
  BY DEF Drop
<1>2. QED
  BY <1>1 DEF TakePort, FieldArrives

\* It has all of a message in its buffer when it looks at it.
LEMMA WholeMessage ==
  ASSUME SessionTypeOK, Places, Descriptors, script.polite, NEW k, Polite(k), ToRemote(k),
         Done("recv"), result["run"] > 0, __state # "SOCK_LINKED"
  PROVE  /\ __rxBuf # <<>> /\ clientSent = k + Len(__rxBuf)
         /\ __rxBuf = SubSeq(Stream, k + 1, clientSent)
         /\ k = (IF __state = "SOCK_INIT" THEN 0 ELSE script.ends[1])
         /\ clientSent = IF __state = "SOCK_INIT" THEN script.ends[1] ELSE script.ends[2]
<1>0. /\ script.ends[1] \in Nat /\ script.ends[2] \in Nat /\ 0 < script.ends[1]
      /\ script.ends[1] < script.ends[2]
  BY PoliteScript DEF SessionTypeOK
<1>1. run = "recv" /\ relay = "none" /\ ~Replied /\ (Greeted <=> __state # "SOCK_INIT")
      /\ remote = NewConnection(remote.fd) /\ result["run"] # Pending
  BY DEF Done, Places, Descriptors, Replied, Greeted
<1>2. Len(remote.out) = 0 /\ ~remote.hup /\ RxUnsent = Len(__rxBuf)
  BY <1>1 DEF NewConnection, RxUnsent
<1>3. /\ k \in {0, script.ends[1], script.ends[2]} /\ (k = 0 <=> __state = "SOCK_INIT")
      /\ clientSent \in {k, IF k = 0 THEN script.ends[1] ELSE script.ends[2]}
      /\ local.in = <<>> /\ __rxBuf # <<>>
  BY <1>1 DEF Polite
<1>4. __rxBuf \in Seq(Int) /\ Stream \in Seq(Int) /\ clientSent \in 0..Len(Stream) /\ Len(Stream) \in Nat
  BY TypesAre
<1>5. Len(__rxBuf) \in Nat \ {0} /\ k \in Nat
  BY <1>0, <1>3, <1>4
<1>6. /\ k + Len(__rxBuf) = clientSent /\ \A i \in 1..Len(__rxBuf) : __rxBuf[i] = Stream[k + i]
  <2> DEFINE b == k + Len(remote.out) + RxUnsent - Len(__rxBuf)
  <2>1. b = k
    BY <1>2, <1>5
  <2>2. Stands(Stream, b, __rxBuf, local.in, clientSent)
    BY <1>2 DEF ToRemote, Passes
  <2> HIDE DEF b
  <2>3. Stands(Stream, k, __rxBuf, <<>>, clientSent)
    BY <1>3, <2>1, <2>2
  <2>4. k + Len(__rxBuf) + Len(<<>>) = clientSent /\ Len(<<>>) = 0
    BY <2>3 DEF Stands
  <2>5. QED
    BY <1>5, <2>3, <2>4 DEF Stands, PartOf
<1>7. __rxBuf = SubSeq(Stream, k + 1, clientSent)
  <2>1. /\ SubSeq(Stream, k + 1, k + Len(__rxBuf)) \in Seq(Int)
        /\ Len(SubSeq(Stream, k + 1, k + Len(__rxBuf))) = Len(__rxBuf)
        /\ \A i \in 1..Len(__rxBuf) : SubSeq(Stream, k + 1, k + Len(__rxBuf))[i] = Stream[k + i]
    BY <1>4, <1>5, <1>6, SliceIs
  <2>2. QED
    BY <1>4, <1>6, <2>1, SameSeq
<1>8. QED
  BY <1>0, <1>3, <1>5, <1>6, <1>7

\* A whole greeting is answered and taken out of the buffer.
LEMMA GreetingTaken ==
  ASSUME SessionTypeOK, Places, Descriptors, script.polite, NEW k, Polite(k), ToRemote(k)
  PROVE  /\ ~AuthIgnored
         /\ Auth => run' = "authSend" /\ __rxBuf' = <<>>
<1> SUFFICES ASSUME AuthIgnored \/ Auth
             PROVE  ~AuthIgnored /\ run' = "authSend" /\ __rxBuf' = <<>>
  OBVIOUS
<1>1. HasData("SOCK_INIT")
  BY DEF AuthIgnored, Auth
<1>2. __rxBuf = SubSeq(Stream, 1, script.ends[1])
  <2>1. __rxBuf = SubSeq(Stream, 0 + 1, script.ends[1])
    BY <1>1, WholeMessage DEF HasData
  <2>2. QED
    BY <2>1
<1>3. Greeting(__rxBuf)
  BY <1>2, PoliteScript DEF SessionTypeOK
<1>4. __rxBuf \in Seq(Int) /\ Len(__rxBuf) \in Nat
  BY TypesAre
<1>5. Len(__rxBuf) > 2 /\ __rxBuf[1] = 5 /\ __rxBuf[2] = Len(__rxBuf) - 2
  BY <1>3 DEF Greeting
<1>6. ~AuthIgnored
  BY <1>4, <1>5 DEF AuthIgnored
<1> DEFINE methods == Drop(__rxBuf, 2)
           arrived == SubSeq(methods, 1, Min({__rxBuf[2], Len(methods)}))
<1>7. methods \in Seq(Int) /\ Len(methods) = Len(__rxBuf) - 2 /\ Len(methods) \in Nat
  BY <1>4, <1>5, DropIs
<1>8. Min({__rxBuf[2], Len(methods)}) = Len(methods)
  BY <1>5, <1>7, MinIs
<1>9. run' = "authSend" /\ __rxBuf' = Drop(methods, Len(arrived))
  <2>1. ~(__rxBuf[2] > Len(methods))
    BY <1>5, <1>7
  <2>2. Auth
    BY <1>6
  <2>3. QED
    BY <2>1, <2>2 DEF Auth
<1> HIDE DEF methods
<1>10. Len(arrived) = Len(methods)
  BY <1>7, <1>8, SubSeqIn
<1>11. Drop(methods, Len(methods)) = <<>>
  BY <1>7 DEF Drop
<1>12. QED
  BY <1>6, <1>9, <1>10, <1>11

\* A whole request is taken out of the buffer.
LEMMA RequestTaken ==
  ASSUME SessionTypeOK, Places, Descriptors, script.polite, NEW k, Polite(k), ToRemote(k)
  PROVE  /\ ~ReqTooShort /\ ~ReqAddressMissing /\ ~ReqOtherKind
         /\ ReqAddress \/ ReqName => __rxBuf' = <<>>
<1> SUFFICES ASSUME HasData("SOCK_REQ")
             PROVE  /\ ~ReqTooShort /\ ~ReqAddressMissing /\ ~ReqOtherKind
                    /\ ReqAddress \/ ReqName => __rxBuf' = <<>>
  BY DEF ReqTooShort, ReqAddressMissing, ReqOtherKind, ReqAddress, ReqName
<1>1. __rxBuf = SubSeq(Stream, script.ends[1] + 1, script.ends[2])
  BY WholeMessage DEF HasData
<1>2. Request(__rxBuf)
  BY <1>1, PoliteScript DEF SessionTypeOK
<1>3. __rxBuf \in Seq(Int) /\ Len(__rxBuf) \in Nat
  BY TypesAre
<1>4. CASE Len(__rxBuf) = 10 /\ __rxBuf[4] = 1
  <2>1. ~ReqTooShort /\ ~ReqAddressMissing /\ ~ReqOtherKind /\ ~ReqName
    BY <1>4 DEF ReqTooShort, ReqAddressMissing, ReqOtherKind, ReqName
  <2>2. ASSUME ReqAddress PROVE __rxBuf' = <<>>
    <3>1. TakePort(Drop(__rxBuf, 8)) /\ Len(Drop(__rxBuf, 8)) = 2 /\ Drop(__rxBuf, 8) \in Seq(Int)
      <4>1. Drop(__rxBuf, 8) \in Seq(Int) /\ Len(Drop(__rxBuf, 8)) = Len(__rxBuf) - 8
        <5>1. 8 \in Nat /\ 8 <= Len(__rxBuf)
          BY <1>4
        <5>2. QED
          BY <1>3, <5>1, DropIs
      <4>2. TakePort(Drop(__rxBuf, 8))
        BY <2>2 DEF ReqAddress
      <4>3. QED
        BY <1>4, <4>1, <4>2
    <3>2. QED
      BY <3>1, TakePortAll
  <2>3. QED
    BY <2>1, <2>2
<1>5. CASE /\ Len(__rxBuf) > 7 /\ __rxBuf[4] = 3 /\ __rxBuf[5] = Len(__rxBuf) - 7 /\ __rxBuf[5] <= 127
  <2>1. Signed(__rxBuf[5]) = Len(__rxBuf) - 7
    BY <1>3, <1>5 DEF Signed
  <2>2. ~ReqTooShort /\ ~ReqAddressMissing /\ ~ReqOtherKind /\ ~ReqAddress
    BY <1>3, <1>5, <2>1 DEF ReqTooShort, ReqAddressMissing, ReqOtherKind, ReqAddress
  <2>3. ASSUME ReqName PROVE __rxBuf' = <<>>
    <3> DEFINE rest == Drop(__rxBuf, 5)
               length == Signed(__rxBuf[5])
               name == IF length < 0 THEN rest ELSE SubSeq(rest, 1, length)
    <3>1. TakePort(Drop(rest, Len(name)))
      BY <2>3 DEF ReqName
    <3>2. rest \in Seq(Int) /\ Len(rest) = Len(__rxBuf) - 5
      <4>1. 5 \in Nat /\ 5 <= Len(__rxBuf)
        BY <1>3, <1>5
      <4>2. QED
        BY <1>3, <4>1, DropIs
    <3>3. length = Len(__rxBuf) - 7 /\ length \in Nat /\ length <= Len(rest)
      <4>1. length = Len(__rxBuf) - 7
        BY <2>1
      <4>2. Len(__rxBuf) > 7
        BY <1>5
      <4> HIDE DEF rest, length
      <4>3. QED
        BY <1>3, <3>2, <4>1, <4>2
    <3> HIDE DEF rest, length
    <3>4. Len(name) = length
      <4>1. ~(length < 0) /\ length \in Int
        BY <3>3
      <4>2. Len(SubSeq(rest, 1, length)) = length
        BY <3>2, <3>3, <4>1, SubSeqIn
      <4>3. QED
        BY <4>1, <4>2
    <3> HIDE DEF name
    <3>5. Drop(rest, Len(name)) \in Seq(Int) /\ Len(Drop(rest, Len(name))) = 2
      <4>1. Drop(rest, length) \in Seq(Int) /\ Len(Drop(rest, length)) = Len(rest) - length
        BY <3>2, <3>3, DropIs
      <4>2. QED
        BY <1>3, <3>2, <3>3, <3>4, <4>1
    <3>6. QED
      BY <3>1, <3>5, TakePortAll
  <2>4. QED
    BY <2>2, <2>3
<1>6. QED
  BY <1>2, <1>4, <1>5 DEF Request

\* A whole message is taken at once.
LEMMA PoliteTakes ==
  ASSUME SessionTypeOK, Places, Descriptors, script.polite, NEW k, Polite(k), ToRemote(k), Takes
  PROVE  \E n \in 0..Len(__rxBuf) : __rxBuf' = Drop(__rxBuf, n) /\ Polite(k + n)'
<1>0. /\ run = "recv" /\ UNCHANGED <<script, clientSent, local, remote, relay, __state>>
      /\ relay = "none" /\ __state \in {"SOCK_INIT", "SOCK_REQ"} /\ Done("recv") /\ result["run"] > 0
  BY TakesIs DEF peers, Done
<1>1. __rxBuf \in Seq(Int) /\ Len(__rxBuf) \in 0..Len(__rxBuf)
  BY TypesAre
<1>2. __rxBuf' = <<>>
  BY GreetingTaken, RequestTaken, <1>0 DEF Takes
<1>3. Drop(__rxBuf, Len(__rxBuf)) = <<>>
  BY <1>1 DEF Drop
<1> PICK n \in 0..Len(__rxBuf) : n = Len(__rxBuf)
  BY <1>1
<1>4. __linkflag /\ __linkflag'
  BY <1>0 DEF Places, Takes, Auth, ReqAddressMissing, ReqAddress, ReqName
<1>5. /\ script.ends[1] \in Nat /\ script.ends[2] \in Nat /\ 0 < script.ends[1]
      /\ script.ends[1] < script.ends[2]
  BY PoliteScript DEF SessionTypeOK
<1>6. CASE __state = "SOCK_INIT"
  <2>1. run' = "authSend"
    BY <1>0, <1>6, GreetingTaken DEF Takes, ReqAddressMissing, ReqAddress, ReqName, HasData
  <2>2. k + n = script.ends[1] /\ clientSent = script.ends[1]
    BY <1>0, <1>6, WholeMessage
  <2>3. Polite(k + n)'
    BY <1>0, <1>2, <1>4, <1>5, <1>6, <2>1, <2>2 DEF Polite, Greeted, Replied
  <2>4. QED
    BY <1>2, <1>3, <2>3
<1>7. CASE __state = "SOCK_REQ"
  <2>1. run' = "socket" \/ (run' = "recv" /\ result'["run"] = Pending)
    <3>1. "run" \in Loops /\ result \in [Loops -> {Pending, Failed} \cup 0..BufCap]
      BY LoopTypes DEF Loops
    <3>2. ReqAddress \/ ReqName
      BY <1>0, <1>7, RequestTaken DEF Takes, Auth, HasData
    <3>3. QED
      BY <1>4, <3>1, <3>2 DEF ReqAddress, ReqName, NextRound, Continue, Returns
  <2>2. k + n = script.ends[2] /\ clientSent = script.ends[2]
    BY <1>0, <1>7, WholeMessage
  <2>3. Polite(k + n)'
    BY <1>0, <1>2, <1>4, <1>5, <1>7, <2>1, <2>2 DEF Polite, Greeted, Replied, Pending, Failed
  <2>4. QED
    BY <1>2, <1>3, <2>3
<1>8. QED
  BY <1>0, <1>6, <1>7

\* The bytes of a message that has arrived fit into the buffer.
LEMMA PoliteReceives ==
  ASSUME SessionTypeOK, SessionTypeOK', Places, Descriptors, script.polite, NEW k \in Nat, Polite(k),
         ToRemote(k), RunReceives, UNCHANGED <<peers, __state, __linkflag, run, relay>>
  PROVE  Polite(k)'
<1>0. /\ script.ends[1] \in Nat /\ script.ends[2] \in Nat /\ 0 < script.ends[1]
      /\ script.ends[1] < script.ends[2] /\ script.ends[1] <= BufCap
      /\ script.ends[2] - script.ends[1] <= BufCap
  BY PoliteScript DEF SessionTypeOK
<1>1. /\ run = "recv" /\ run' = "recv" /\ result["run"] = Pending /\ UNCHANGED remote
      /\ local.fd = "open"
  BY DEF RunReceives, ReceivesInto
<1>2. PICK r \in 0..BufCap :
        /\ Reads(local, __rxBuf, r, local', __rxBuf')
        /\ r = Len(local.in) \/ Len(__rxBuf') = BufCap
        /\ r = 0 => Len(__rxBuf) = BufCap \/ local.eof
        /\ result' = [result EXCEPT !["run"] = r]
  BY DEF RunReceives, ReceivesInto
<1>3. result'["run"] = r /\ r # Pending /\ r # Failed
  BY <1>2, LoopTypes, CapAssumption DEF Loops, Pending, Failed
<1>4. local'.eof = local.eof /\ Len(__rxBuf') = Len(__rxBuf) + r /\ Len(local'.in) = Len(local.in) - r
      /\ local'.in \in Seq(Int) /\ local.in \in Seq(Int) /\ __rxBuf \in Seq(Int) /\ __rxBuf' \in Seq(Int)
  BY <1>2, TypesAre DEF Reads, ConnectionType
<1>5. __rxBuf = <<>> \/ (__state = "SOCK_LINKED" /\ OneGone)
  BY <1>1 DEF Polite
<1>6. OneGone' <=> OneGone
  BY <1>1, <1>4 DEF OneGone
<1>7. r = 0 => OneGone
  <2>1. Len(<<>>) = 0 /\ BufCap # 0
    BY CapAssumption
  <2>2. QED
    BY <1>2, <1>5, <2>1 DEF OneGone
<1>8. ASSUME __state # "SOCK_LINKED"
      PROVE  local'.in = <<>> /\ (IF __rxBuf' # <<>> THEN r > 0 ELSE r = 0 /\ local'.eof)
  <2>1. relay = "none" /\ ~Replied /\ remote = NewConnection(remote.fd) /\ __rxBuf = <<>>
    BY <1>1, <1>5, <1>8 DEF Places, Descriptors, Replied
  <2>2. Len(remote.out) = 0 /\ ~remote.hup /\ RxUnsent = Len(__rxBuf) /\ Len(__rxBuf) = 0
    BY <1>1, <2>1 DEF NewConnection, RxUnsent
  <2>3. k + Len(local.in) = clientSent
    <3>1. Stands(Stream, k + Len(remote.out) + RxUnsent - Len(__rxBuf), __rxBuf, local.in, clientSent)
      BY <2>2 DEF ToRemote, Passes
    <3>2. k + Len(remote.out) + RxUnsent - Len(__rxBuf) + Len(__rxBuf) + Len(local.in) = clientSent
      BY <3>1 DEF Stands
    <3>3. Len(local.in) \in Nat
      BY <1>4
    <3>4. QED
      BY <2>2, <3>2, <3>3
  <2>4. Len(local.in) <= BufCap
    <3>1. k \in {0, script.ends[1], script.ends[2]}
          /\ clientSent \in {k, IF k = 0 THEN script.ends[1] ELSE script.ends[2]}
      BY <2>1 DEF Polite
    <3>2. BufCap \in Nat /\ Len(local.in) \in Nat
      BY <1>4, CapAssumption
    <3>3. QED
      BY <1>0, <2>3, <3>1, <3>2
  <2>5. r = Len(local.in)
    <3>1. BufCap \in Nat /\ Len(local.in) \in Nat /\ r <= Len(local.in)
      BY <1>2, <1>4, CapAssumption DEF Reads
    <3>2. QED
      BY <1>2, <1>4, <2>2, <2>4, <3>1
  <2>6. Len(local'.in) = 0 /\ Len(__rxBuf') = r
    BY <1>4, <2>2, <2>5
  <2>7. local'.in = <<>>
    BY <1>4, <2>6
  <2>8. CASE r = 0
    <3>1. __rxBuf' = <<>> /\ Len(__rxBuf) # BufCap
      BY <1>4, <2>2, <2>6, <2>8, CapAssumption
    <3>2. QED
      BY <1>2, <1>4, <2>7, <2>8, <3>1
  <2>9. CASE r # 0
    <3>1. __rxBuf' # <<>> /\ r > 0
      BY <1>2, <2>6, <2>9, CapAssumption
    <3>2. QED
      BY <2>7, <3>1
  <2>10. QED
    BY <2>8, <2>9
<1>9. QED
  BY <1>1, <1>3, <1>6, <1>7, <1>8 DEF Polite, Greeted, Replied, peers

\* Every step but those that take a message keeps Polite, with the same k.
LEMMA PoliteKept ==
  ASSUME SessionTypeOK, SessionTypeOK', Places, Descriptors, Transfers, RelayGone, script.polite,
         NEW m \in {0, 255}, ToClient(m), NEW k \in 0..clientSent, Polite(k), ToRemote(k),
         SessionNext, ~Takes
  PROVE  Polite(k)'
<1>0. /\ result \in [Loops -> {Pending, Failed} \cup 0..BufCap] /\ "run" \in Loops /\ "relay" \in Loops
      /\ "run" # "relay" /\ local \in ConnectionType /\ remote \in ConnectionType
      /\ k \in Nat /\ result["run"] \in {Pending, Failed} \cup Nat
      /\ result["relay"] \in {Pending, Failed} \cup Nat
  BY TypesAre, LoopTypes DEF Loops
<1>1. OneGone => OneGone'
  BY OneGoneKept
<1>2. ~AuthIgnored /\ ~ReqTooShort /\ ~ReqOtherKind
  BY GreetingTaken, RequestTaken, Zenon DEF SessionTypeOK
<1>3. CASE LocalGone
  <2>1. OneGone
    BY <1>0, <1>3 DEF LocalGone, Done, Polite, Pending, Failed
  <2>2. /\ run = "recv" /\ run' \in {"get", "closeLocal"}
        /\ UNCHANGED <<script, clientSent, local, remote, __state, __rxBuf, relay>>
    BY <1>3 DEF LocalGone, Done, Continue, peers
  <2>3. QED
    BY <1>1, <2>1, <2>2 DEF Polite, Greeted, Replied
<1>4. CASE AuthSent
  <2>1. /\ run = "authSend" /\ run' = "recv" /\ result'["run"] = Pending /\ __state = "SOCK_INIT"
        /\ __state' = "SOCK_REQ" /\ relay = "none" /\ __linkflag /\ __rxBuf = <<>>
        /\ UNCHANGED <<script, clientSent, local, remote, __rxBuf, relay, __linkflag>>
    BY <1>0, <1>4 DEF AuthSent, Done, NextRound, Continue, Returns, Places, Polite, peers
  <2>2. QED
    BY <2>1 DEF Polite, Greeted, Replied, Pending, Failed
<1>5. CASE Socket \/ ConnectRemote \/ CloseFailed
  <2>1. /\ run \in {"socket", "connect", "closeFailed"} /\ __state = "SOCK_REQ" /\ relay = "none"
        /\ __linkflag /\ __rxBuf = <<>>
        /\ UNCHANGED <<script, clientSent, local, __state, __rxBuf, relay, __linkflag>>
    BY <1>5 DEF Socket, ConnectRemote, CloseFailed, Places, Polite, peers, session
  <2>2. run' \in {"connect", "closeFailed", "replySend"} \/ (run' = "recv" /\ result'["run"] = Pending)
    BY <1>0, <1>5, <2>1 DEF Socket, ConnectRemote, CloseFailed, AnswerRequest, NextRound, Continue,
       Returns
  <2>3. QED
    BY <2>1, <2>2 DEF Polite, Greeted, Replied, Pending, Failed
<1>6. CASE ReplySent
  <2>1. /\ run = "replySend" /\ run' = "recv" /\ result'["run"] = Pending /\ __rxBuf = <<>>
        /\ relay' = "start" /\ __state' = "SOCK_LINKED" /\ __linkflag /\ __state # "SOCK_INIT"
        /\ UNCHANGED <<script, clientSent, local, remote, __rxBuf, __linkflag>>
    BY <1>0, <1>6 DEF ReplySent, Done, Continue, Returns, Places, Polite, peers
  <2>2. QED
    BY <2>1 DEF Polite, Greeted, Replied, Pending, Failed
<1>7. CASE LinkData \/ GetRelay \/ CloseRemote \/ CloseLocal
  <2>1. /\ run \in {"recv", "get", "closeRemote", "closeLocal"}
        /\ run' \in {"linkSend", "closeRemote", "closeLocal", "done"}
        /\ UNCHANGED <<script, clientSent, __state, __rxBuf, relay, __linkflag>>
    BY <1>7 DEF LinkData, GetRelay, CloseRemote, CloseLocal, HasData, Done, peers, session
  <2>2. QED
    BY <1>1, <2>1 DEF Polite, Greeted, Replied
<1>8. CASE LinkSent
  <2>1. /\ run = "linkSend" /\ run' \in {"recv", "get"} /\ result'["run"] = Pending
        /\ __state = "SOCK_LINKED" /\ relay # "none" /\ result["run"] # Pending
        /\ __rxBuf' = AfterSend(__rxBuf, result["run"])
        /\ UNCHANGED <<script, clientSent, local, remote, __state, relay, __linkflag>>
    BY <1>0, <1>8 DEF LinkSent, Done, NextRound, Continue, Returns, Places, peers
  <2>2. __rxBuf' = <<>> \/ OneGone
    <3>1. Underway(remote, __rxBuf, unsent["run"], result["run"])
      BY <2>1 DEF Transfers
    <3>2. remote.fd \in {"open", "bad"} /\ (remote.hup => remote.eof)
      BY <2>1 DEF Descriptors
    <3>3. CASE result["run"] = Failed
      BY <2>1, <3>1, <3>2, <3>3, <1>0 DEF Underway, OneGone, Failed, Pending
    <3>4. CASE result["run"] # Failed
      <4>1. result["run"] = Len(__rxBuf)
        BY <2>1, <3>1, <3>4 DEF Underway
      <4>2. __rxBuf' = Drop(__rxBuf, Len(__rxBuf)) /\ __rxBuf \in Seq(Int)
        BY <2>1, <3>4, <4>1, TypesAre DEF AfterSend
      <4>3. Drop(__rxBuf, Len(__rxBuf)) = <<>>
        BY <4>2 DEF Drop
      <4>4. QED
        BY <4>2, <4>3
    <3>5. QED
      BY <3>3, <3>4
  <2>3. QED
    BY <1>1, <2>1, <2>2 DEF Polite, Greeted, Replied, Pending, Failed
<1>9. CASE RelayStep
  <2>1. /\ UNCHANGED <<script, clientSent, local, remote, __state, __rxBuf, run>>
        /\ relay # "none" /\ relay' # "none" /\ __state = "SOCK_LINKED"
    BY <1>9 DEF RelayStep, RelayStart, RelayReceived, RelaySent, RelayContinue, peers, session, Places
  <2>2. result'["run"] = result["run"]
    BY <1>0, <1>9 DEF RelayStep, RelayStart, RelayReceived, RelaySent, Send, Returns
  <2>3. ~__linkflag' => ~__linkflag \/ OneGone
    BY <1>0, <1>9 DEF RelayStep, RelayStart, RelayReceived, RelaySent, session, RelayGone, Pending, Failed
  <2>4. QED
    BY <1>1, <2>1, <2>2, <2>3 DEF Polite, Greeted, Replied
<1>10. CASE HupReported \/ LocalShutsDown \/ RemoteSends \/ RemoteShutsDown
  <2>1. /\ UNCHANGED <<script, clientSent, __state, __rxBuf, run, relay, result, __linkflag>>
        /\ local'.in = local.in /\ (local.eof => local'.eof)
    <3>1. UNCHANGED <<script, clientSent, __state, __rxBuf, run, relay, result, __linkflag>>
      BY <1>10 DEF HupReported, LocalShutsDown, RemoteSends, RemoteShutsDown, peers, session
    <3>2. \/ local' = local
          \/ local' = [local EXCEPT !.hup = TRUE]
          \/ local' = [local EXCEPT !.eof = TRUE]
      BY <1>10 DEF HupReported, LocalShutsDown, RemoteSends, RemoteShutsDown
    <3>3. local'.in = local.in
      BY <1>0, <3>2 DEF ConnectionType
    <3>4. local'.eof = local.eof \/ local'.eof = TRUE
      BY <1>0, <3>2 DEF ConnectionType
    <3>5. QED
      BY <3>1, <3>3, <3>4
  <2>2. QED
    BY <1>1, <2>1 DEF Polite, Greeted, Replied
<1>11. CASE LocalSends
  <2>1. PICK n \in Pieces : clientSent' = clientSent + n
    BY <1>11 DEF LocalSends
  <2>2. /\ UNCHANGED <<script, __state, __rxBuf, run, relay, result, __linkflag>>
        /\ ~local.eof /\ (Replied' <=> Replied) /\ (Greeted' <=> Greeted)
    BY <1>11 DEF LocalSends, session, Replied, Greeted
  <2>3. CASE Replied
    <3>1. __state # "SOCK_LINKED" => run # "recv"
      BY <2>3 DEF Places, Replied
    <3>2. QED
      BY <1>1, <2>2, <2>3, <3>1 DEF Polite
  <2>4. CASE ~Replied
    <3>1. clientSent = k /\ k \in {0, script.ends[1]}
          /\ clientSent' = IF k = 0 THEN script.ends[1] ELSE script.ends[2]
      <4>1. /\ clientSent = k /\ k \in {0, script.ends[1]}
            /\ clientSent + n = IF k = 0 THEN script.ends[1] ELSE script.ends[2]
        BY <2>1, <2>4, PoliteSends
      <4>2. QED
        BY <2>1, <4>1
    <3>2. ~(__state # "SOCK_LINKED" /\ run = "recv" /\ result["run"] # Pending)
      <4> SUFFICES ASSUME __state # "SOCK_LINKED", run = "recv", result["run"] # Pending
                   PROVE  FALSE
        OBVIOUS
      <4>1. __rxBuf # <<>> /\ result["run"] > 0
        BY <2>2 DEF Polite
      <4>2. clientSent = k + Len(__rxBuf)
        BY <4>1, WholeMessage DEF Done
      <4>3. Len(__rxBuf) \in Nat \ {0}
        BY <4>1, TypesAre
      <4>4. QED
        BY <1>0, <3>1, <4>2, <4>3
    <3>3. QED
      BY <1>1, <2>2, <2>4, <3>1, <3>2 DEF Polite
  <2>5. QED
    BY <2>3, <2>4
<1>12. CASE Transfer
  <2>1. UNCHANGED <<peers, __state, __linkflag, addr, port, run, relay>>
    BY <1>12, TransferIs
  <2>2. CASE RunReceives
    BY <1>0, <2>1, <2>2, PoliteReceives
  <2>3. CASE RunAnswers \/ RunForwards
    <3>1. run # "recv" /\ UNCHANGED __rxBuf
      BY <2>3 DEF RunAnswers, RunForwards
    <3>2. QED
      BY <1>1, <2>1, <3>1 DEF Polite, Greeted, Replied, peers
  <2>4. CASE RelayReceives \/ RelayForwards \/ FindsNothing("relay")
    <3>1. UNCHANGED __rxBuf /\ local'.in = local.in /\ local'.eof = local.eof
      BY <2>4 DEF RelayReceives, RelayForwards, FindsNothing, SendsFrom, Writes
    <3>2. result'["run"] = result["run"]
      BY <1>0, <2>4 DEF RelayReceives, RelayForwards, FindsNothing, ReceivesInto, SendsFrom
    <3>3. QED
      BY <1>1, <2>1, <3>1, <3>2 DEF Polite, Greeted, Replied, peers
  <2>5. CASE FindsNothing("run")
    <3>1. run # "recv" /\ UNCHANGED __rxBuf
      BY <2>5 DEF FindsNothing, Conn, OnRemote, Place, Descriptors
    <3>2. QED
      BY <1>1, <2>1, <3>1 DEF Polite, Greeted, Replied, peers
  <2>6. QED
    BY <1>12, <2>2, <2>3, <2>4, <2>5, TransferIs DEF Loops
<1>13. QED
  BY <1>2, <1>3, <1>4, <1>5, <1>6, <1>7, <1>8, <1>9, <1>10, <1>11, <1>12
     DEF SessionNext, RunStep, Peers, Takes

\* SessionInv holds at first.
LEMMA InitSessionInv == SessionInit => SessionInv
<1> SUFFICES ASSUME SessionInit PROVE SessionInv
  OBVIOUS
<1>1. SessionTypeOK
  BY InitTypes
<1>2. Places /\ Descriptors /\ Transfers /\ RelayGone
  BY DEF SessionInit, Places, Descriptors, Transfers, RelayGone, NewConnection, Loops
<1>3. Len(<<>>) = 0 /\ \A whole, b : PartOf(whole, <<>>, b)
  BY DEF PartOf
<1>4. Answered = 0 /\ TxUnsent = Len(__txBuf) /\ RxUnsent = Len(__rxBuf) /\ ~Greeted /\ ~Replied
      /\ clientSent = 0 /\ __txBuf = <<>> /\ __rxBuf = <<>>
      /\ local.out = <<>> /\ local.in = <<>> /\ remote.out = <<>> /\ remote.in = <<>>
  BY DEF SessionInit, Answered, TxUnsent, RxUnsent, Greeted, Replied, NewConnection
<1>5. \A whole : Stands(whole, 0 + Len(<<>>) + Len(<<>>) - Len(<<>>), <<>>, <<>>, 0)
  BY <1>3 DEF Stands
<1>6. ToClient(0)
  BY <1>3, <1>4, <1>5 DEF ToClient, Passes
<1>7. ToRemote(0)
  BY <1>3, <1>4, <1>5 DEF ToRemote, Passes
<1>8. script.polite => Polite(0)
  <2> SUFFICES ASSUME script.polite PROVE Polite(0)
    OBVIOUS
  <2>1. script.ends[1] > 0 /\ script.ends[2] > 0 /\ script.ends[1] \in Nat /\ script.ends[2] \in Nat
    <3>1. script \in Scripts
      BY <1>1 DEF SessionTypeOK
    <3>2. /\ script.ends[1] \in Nat /\ script.ends[2] \in Nat
          /\ 0 < script.ends[1] /\ script.ends[1] < script.ends[2]
      BY <3>1, PoliteScript
    <3>3. QED
      BY <3>2
  <2>2. /\ run = "recv" /\ result["run"] = Pending /\ __linkflag /\ __state = "SOCK_INIT"
    BY DEF SessionInit, Loops
  <2>3. QED
    BY <1>4, <2>1, <2>2 DEF Polite, Pending, Failed
<1>9. QED
  BY <1>1, <1>2, <1>4, <1>6, <1>7, <1>8 DEF SessionInv

\* Every step keeps SessionInv.
LEMMA NextSessionInv == SessionInv /\ [SessionNext]_sessionVars => SessionInv'
<1> SUFFICES ASSUME SessionInv, [SessionNext]_sessionVars PROVE SessionInv'
  OBVIOUS
<1>1. SessionTypeOK /\ Places /\ Descriptors /\ Transfers /\ RelayGone
  BY DEF SessionInv
<1>2. PICK m \in {0, 255} : ToClient(m)
  BY DEF SessionInv
<1>3. PICK k \in 0..clientSent : ToRemote(k) /\ (script.polite => Polite(k))
  BY DEF SessionInv
<1>4. CASE SessionNext
  <2>1. SessionTypeOK' /\ Places' /\ Descriptors' /\ Transfers' /\ RelayGone'
    BY <1>1, <1>2, <1>4, SessionTypesKept, PlacesKept, DescriptorsKept, TransfersKept, RelayGoneKept
  <2>2. \E new \in {0, 255} : ToClient(new)'
    BY <1>1, <1>2, <1>4, ToClientKept
  <2>3. script' = script
    BY <1>1, <1>4, QuietRemoteSteps, TakesIs, TransferIs DEF QuietToRemote, LinkSent, LocalSends, peers
  <2>4. \E new \in 0..clientSent' : ToRemote(new)' /\ (script'.polite => Polite(new)')
    <3>1. CASE ~Takes
      <4>1. ToRemote(k)' /\ k \in 0..clientSent'
        BY <1>1, <1>3, <1>4, <3>1, ToRemoteKept
      <4>2. script.polite => Polite(k)'
        BY <1>1, <1>2, <1>3, <1>4, <2>1, <3>1, PoliteKept
      <4>3. QED
        BY <2>3, <4>1, <4>2
    <3>2. CASE Takes
      <4>1. PICK n \in 0..Len(__rxBuf) :
              __rxBuf' = Drop(__rxBuf, n) /\ (script.polite => Polite(k + n)')
        <5>1. CASE script.polite
          BY <1>1, <1>3, <3>2, <5>1, PoliteTakes
        <5>2. CASE ~script.polite
          BY <1>1, <3>2, <5>2, TakesIs
        <5>3. QED
          BY <5>1, <5>2
      <4>2. ToRemote(k + n)' /\ k + n \in 0..clientSent'
        BY <1>1, <1>3, <3>2, <4>1, TakesToRemote
      <4>3. QED
        BY <2>3, <4>1, <4>2
    <3>3. QED
      BY <3>1, <3>2
  <2>5. QED
    BY <2>1, <2>2, <2>4 DEF SessionInv
<1>5. CASE UNCHANGED sessionVars
  <2>1. UNCHANGED <<script, clientSent, remoteSent, local, remote, __state, __linkflag, __rxBuf, __txBuf,
                    addr, port, run, relay, unsent, result>>
    BY <1>5 DEF sessionVars, peers, session
  <2>2. SessionTypeOK' /\ Places' /\ Descriptors' /\ Transfers' /\ RelayGone'
    BY <1>1, <2>1 DEF SessionTypeOK, Places, Descriptors, Transfers, RelayGone, OneGone, Stream
  <2>3. ToClient(m)'
    BY <1>2, <2>1 DEF ToClient, Answers, LinkAnswer, TxUnsent, TxIdle, Answered, Replied, Greeted
  <2>4. ToRemote(k)' /\ (script'.polite => Polite(k)') /\ k \in 0..clientSent'
    BY <1>3, <2>1 DEF ToRemote, RxUnsent, Stream, Polite, OneGone, Replied, Greeted
  <2>5. QED
    BY <2>2, <2>3, <2>4 DEF SessionInv
<1>6. QED
  BY <1>4, <1>5

\* SessionInv holds throughout.
THEOREM SessionInvariance == SessionSpec => []SessionInv
<1>1. SessionInit => SessionInv
  BY InitSessionInv
<1>2. SessionInv /\ [SessionNext]_sessionVars => SessionInv'
  BY NextSessionInv
<1>3. QED
  BY <1>1, <1>2, PTL DEF SessionSpec

\* For any clients, data and size of the buffers: no transfer is under way on a
\* closed descriptor, handleRLink() does not outlive run(), and run() leaves no
\* descriptor open unless it throws.
THEOREM NothingIsUsedAfterClose == SessionSpec => []NothingAfterClose
<1>1. SessionInv => NothingAfterClose
  <2> SUFFICES ASSUME SessionInv PROVE NothingAfterClose
    OBVIOUS
  <2>1. SessionTypeOK /\ Places /\ Descriptors
    BY DEF SessionInv
  <2>2. \A k \in Loops : Receiving(k) \/ Sending(k) => Conn(k).fd # "closed"
    BY <2>1 DEF Receiving, Sending, Conn, OnRemote, Place, Loops, Places, Descriptors
  <2>3. /\ run \in {"done", "thrown"} => relay \in {"none", "done"}
        /\ run = "done" => local.fd = "closed" /\ remote.fd # "open"
    BY <2>1 DEF Places, Descriptors
  <2>4. QED
    BY <2>1, <2>2, <2>3 DEF NothingAfterClose
<1>2. QED
  BY <1>1, SessionInvariance, PTL

\* A sequence that agrees with a longer one is a prefix of it.
LEMMA PrefixIs ==
  ASSUME NEW s \in Seq(Int), NEW t \in Seq(Int), Len(s) <= Len(t), \A i \in 1..Len(s) : s[i] = t[i]
  PROVE  IsPrefix(s, t)
BY DEF IsPrefix

\* For any clients, data and size of the buffers: what the client is given is a
\* prefix of the answer to its methods, the answer to its request and what the
\* remote side has sent, although two coroutines send it from one buffer.
THEOREM AnswersAreInOrder == SessionSpec => []AnswersInOrder
<1>1. SessionInv => AnswersInOrder
  <2> SUFFICES ASSUME SessionInv PROVE AnswersInOrder
    OBVIOUS
  <2>1. SessionTypeOK
    BY DEF SessionInv
  <2>2. PICK m \in {0, 255} : ToClient(m)
    BY DEF SessionInv
  <2> DEFINE seen == SubSeq(RemoteData, 1, remoteSent)
             all == MethodAnswer(m) \o LinkAnswer \o seen
  <2>3. /\ remoteSent \in Nat /\ seen \in Seq(Int) /\ Len(seen) = remoteSent
        /\ \A i \in 1..remoteSent : seen[i] = RemoteData[i] /\ i \in 1..Len(RemoteData)
    <3>1. RemoteData \in Seq(Int) /\ Len(RemoteData) \in Nat
      BY RemoteAssumption
    <3>2. remoteSent \in 0..Len(RemoteData)
      BY <2>1 DEF SessionTypeOK
    <3>3. QED
      BY <3>1, <3>2
  <2>4. LinkAnswer \in Seq(Int) /\ Len(LinkAnswer) = 10
    BY <2>1, LinkAnswerIs DEF SessionTypeOK
  <2>5. MethodAnswer(m) \in Seq(Int) /\ Len(MethodAnswer(m)) = 2
    BY DEF MethodAnswer
  <2> HIDE DEF seen
  <2>6. Joined(MethodAnswer(m), LinkAnswer, seen, all)
    BY <2>3, <2>4, <2>5, JoinedIs
  <2>7. Joined(MethodAnswer(m), LinkAnswer, RemoteData, Answers(m))
    BY <2>1, AnswersIs
  <2> HIDE DEF all
  <2>8. \A i \in 1..12 + remoteSent : all[i] = Answers(m)[i]
    <3> DEFINE method == MethodAnswer(m)
               wide == Answers(m)
    <3>0. /\ \A i \in 1..2 : all[i] = method[i] /\ wide[i] = method[i]
          /\ \A i \in 1..10 : all[2 + i] = LinkAnswer[i] /\ wide[2 + i] = LinkAnswer[i]
          /\ \A i \in 1..remoteSent : all[12 + i] = seen[i]
          /\ \A i \in 1..Len(RemoteData) : wide[12 + i] = RemoteData[i]
      BY <2>3, <2>6, <2>7 DEF Joined
    <3> HIDE DEF method, wide
    <3>00. \A j \in 1..remoteSent : all[12 + j] = wide[12 + j]
      <4> TAKE j \in 1..remoteSent
      <4>1. seen[j] = RemoteData[j] /\ j \in 1..Len(RemoteData)
        BY <2>3
      <4>2. all[12 + j] = seen[j] /\ wide[12 + j] = RemoteData[j]
        BY <3>0, <4>1
      <4>3. QED
        BY <4>1, <4>2
    <3> SUFFICES \A i \in 1..12 + remoteSent : all[i] = wide[i]
      BY DEF wide
    <3> TAKE i \in 1..12 + remoteSent
    <3>1. CASE i \in 1..2
      BY <3>0, <3>1
    <3>2. CASE i - 2 \in 1..10
      <4>1. i = 2 + (i - 2)
        OBVIOUS
      <4>2. QED
        BY <3>0, <3>2, <4>1
    <3>3. CASE i - 12 \in 1..remoteSent
      <4>1. i = 12 + (i - 12)
        OBVIOUS
      <4>2. QED
        BY <3>00, <3>3, <4>1
    <3>4. remoteSent \in Nat
      BY <2>3
    <3>5. i \in 1..2 \/ i - 2 \in 1..10 \/ i - 12 \in 1..remoteSent
      BY <3>4
    <3>6. QED
      BY <3>1, <3>2, <3>3, <3>5
  <2>9. local.out \in Seq(Int) /\ Len(local.out) <= 12 + remoteSent /\ PartOf(Answers(m), local.out, 0)
    <3>1. 0 + Len(local.out) <= Answered /\ Len(local.out) \in Nat /\ local.out \in Seq(Int)
          /\ PartOf(Answers(m), local.out, 0)
      <4>1. local.out \in Seq(Int)
        BY <2>1, TypesAre
      <4>2. 0 + Len(local.out) <= Answered /\ PartOf(Answers(m), local.out, 0)
        BY <2>2 DEF ToClient, Passes
      <4>3. QED
        BY <4>1, <4>2
    <3>2. Answered <= 12 + remoteSent
      BY <2>3 DEF Answered
    <3>3. Answered \in Nat
      BY <2>1, AnsweredIs
    <3>4. QED
      BY <2>3, <3>1, <3>2, <3>3
  <2>10. all \in Seq(Int) /\ Len(all) = 12 + remoteSent
    BY <2>3, <2>6 DEF Joined
  <2>11. \A i \in 1..Len(local.out) : local.out[i] = all[i]
    <3>1. \A i \in 1..Len(local.out) : i \in 1..12 + remoteSent /\ 0 + i = i
      BY <2>3, <2>9
    <3>2. QED
      BY <2>8, <2>9, <3>1 DEF PartOf
  <2>12. IsPrefix(local.out, all)
    <3> DEFINE out == local.out
    <3>1. out \in Seq(Int)
      BY <2>9
    <3>2. all \in Seq(Int)
      BY <2>10
    <3>3. Len(out) <= Len(all)
      BY <2>9, <2>10
    <3>4. \A i \in 1..Len(out) : out[i] = all[i]
      BY <2>11
    <3> HIDE DEF out
    <3>5. IsPrefix(out, all)
      BY <3>1, <3>2, <3>3, <3>4, PrefixIs
    <3>6. QED
      BY <3>5 DEF out
  <2>13. QED
    BY <2>12 DEF AnswersInOrder, all, seen
<1>2. QED
  BY <1>1, SessionInvariance, PTL

\* For any clients, data and size of the buffers: what the remote side is given is
\* a run of the client's bytes, of a polite client what follows its request.
THEOREM RelayIsInOrder == SessionSpec => []RelayedInOrder
<1>1. SessionInv => RelayedInOrder
  <2> SUFFICES ASSUME SessionInv PROVE RelayedInOrder
    OBVIOUS
  <2>1. SessionTypeOK /\ Places /\ Descriptors
    BY DEF SessionInv
  <2>2. PICK k \in 0..clientSent : ToRemote(k) /\ (script.polite => Polite(k))
    BY DEF SessionInv
  <2>3. /\ Stream \in Seq(Int) /\ Len(Stream) \in Nat /\ clientSent \in 0..Len(Stream)
        /\ remote.out \in Seq(Int) /\ Len(remote.out) \in Nat
    <3>1. /\ Stream \in Seq(Int) /\ Len(Stream) \in Nat /\ clientSent \in 0..Len(Stream)
          /\ remote.out \in Seq(Int)
      BY <2>1, TypesAre
    <3>2. QED
      BY <3>1
  <2>4. k \in 0..Len(Stream) /\ k \in Nat
    BY <2>3
  <2>5. k + Len(remote.out) <= clientSent /\ PartOf(Stream, remote.out, k)
    BY <2>2 DEF ToRemote, Passes
  <2>6. IsPrefix(remote.out, Drop(Stream, k))
    <3>1. /\ Drop(Stream, k) \in Seq(Int) /\ Len(Drop(Stream, k)) = Len(Stream) - k
          /\ \A i \in 1..Len(Stream) - k : Drop(Stream, k)[i] = Stream[k + i]
      <4>1. Stream \in Seq(Int)
        BY <2>3
      <4>2. k \in Nat
        BY <2>4
      <4>3. k <= Len(Stream)
        BY <2>3, <2>4
      <4>4. QED
        BY <4>1, <4>2, <4>3, DropIs
    <3>2. Len(remote.out) <= Len(Stream) - k
      BY <2>3, <2>4, <2>5
    <3>3. \A i \in 1..Len(remote.out) : remote.out[i] = Drop(Stream, k)[i]
      BY <2>3, <2>4, <2>5, <3>1, <3>2 DEF PartOf
    <3>4. QED
      BY <2>3, <3>1, <3>2, <3>3, PrefixIs
  <2>7. CASE script.polite => k = script.ends[2]
    BY <2>4, <2>6, <2>7 DEF RelayedInOrder, MessageEnd
  <2>8. CASE ~(script.polite => k = script.ends[2])
    <3>1. ~Replied
      BY <2>2, <2>8 DEF Polite
    <3>2. remote.out = <<>>
      <4>1. remote = NewConnection(remote.fd)
        BY <2>1, <3>1 DEF Replied, Descriptors, Places
      <4>2. QED
        BY <4>1 DEF NewConnection
    <3>3. script.ends[2] \in 0..Len(Stream)
      <4>1. script \in Scripts /\ script.polite
        BY <2>1, <2>8 DEF SessionTypeOK
      <4>2. script.ends[2] \in Nat /\ script.ends[2] <= Len(Stream)
        BY <4>1, PoliteScript
      <4>3. QED
        BY <2>3, <4>2
    <3>4. IsPrefix(<<>>, Drop(Stream, script.ends[2]))
      <4>1. Drop(Stream, script.ends[2]) \in Seq(Int) /\ Len(Drop(Stream, script.ends[2])) \in Nat
        <5>1. script.ends[2] \in Nat /\ script.ends[2] <= Len(Stream)
          BY <2>3, <3>3
        <5>2. Drop(Stream, script.ends[2]) \in Seq(Int)
          BY <2>3, <5>1, DropIs
        <5>3. QED
          BY <5>2
      <4>2. <<>> \in Seq(Int) /\ Len(<<>>) = 0 /\ Len(<<>>) <= Len(Drop(Stream, script.ends[2]))
        BY <4>1
      <4>3. QED
        <5>1. \A i \in 1..Len(<<>>) : <<>>[i] = Drop(Stream, script.ends[2])[i]
          BY <4>2
        <5>2. QED
          BY <4>1, <4>2, <5>1, PrefixIs
    <3>5. QED
      BY <3>2, <3>3, <3>4 DEF RelayedInOrder, MessageEnd
  <2>9. QED
    BY <2>7, <2>8
<1>2. QED
  BY <1>1, SessionInvariance, PTL

\* For any polite client: __linkflag is cleared only when a side has gone; no
\* buffer is full when a receive begins while both sides are there.
THEOREM SessionsLive == SessionSpec => []LivesWhilePeersDo
<1>1. SessionInv => LivesWhilePeersDo
  BY DEF SessionInv, LivesWhilePeersDo, Polite, OneGone
<1>2. QED
  BY <1>1, SessionInvariance, PTL
=============================================================================
