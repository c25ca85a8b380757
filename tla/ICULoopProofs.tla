---------------------------- MODULE ICULoopProofs ----------------------------
(***************************************************************************)
(* No request and no edge is lost by an ICU, for any number of coroutines, *)
(* files and units of data.                                                *)
(*                                                                         *)
(* What a sleeping thread must not overlook is protected by EdgeInv: the   *)
(* readiness of a registered file is in epoll's list or in revents_, and   *)
(* whoever waits for what is in revents_ finds the file in list_.  It      *)
(* needs to know that the queues hold every coroutine once (FuncInv,       *)
(* ItemInv), lest a wake-up changes one that does something else, and that *)
(* a FileWQ in use has been made, registered, unregistered and erased in   *)
(* this order (Life): only files that are not registered can be lost by a  *)
(* pointer that dangles.                                                   *)
(***************************************************************************)
EXTENDS ICULoop, TLAPS

\* What a coroutine can wait for.
Ops == {"add", "added", "del", "deleted", "wait"}

\* Who asks for a request, and which file a coroutine is busy with.
Caller(r) == IF r.op = "wait" THEN r.item.h_ ELSE r.h_
BusyWith(c, f) == co[c] # Running /\ co[c].f = f

RequestInv ==
  pc # "drain" /\ funcs_ # <<>> => WakeUpWQ \in ready \/ writes > 0

FuncInv ==
  /\ \A i \in 1..Len(funcs_) :
       co[Caller(funcs_[i])] = Awaiting(funcs_[i].op, funcs_[i].f)
  /\ \A i, j \in 1..Len(funcs_) :
       Caller(funcs_[i]) = Caller(funcs_[j]) => i = j

ItemInv ==
  \A f \in Files :
    /\ \A k \in 1..Len(items_[f]) :
         /\ co[items_[f][k].h_] = Awaiting("wait", f)
         /\ \A i \in 1..Len(funcs_) : items_[f][k].h_ # Caller(funcs_[i])
    /\ \A k, l \in 1..Len(items_[f]) :
         items_[f][k].h_ = items_[f][l].h_ => k = l

\* The life of a file: made, registered, in the table, unregistered, erased.
Life(f) ==
  /\ f \notin born => f \notin registered /\ ~revents_[f]
  /\ f \in registered => f \in table \/ \E c \in Coros : co[c] = Awaiting("added", f)
  /\ \A c \in Coros :
       /\ BusyWith(c, f) => f \in born
       /\ BusyWith(c, f) /\ co[c].op \in {"add", "added"} =>
            f \notin table /\ \A d \in Coros : BusyWith(d, f) => d = c
       /\ co[c] = Awaiting("add", f) => f \notin registered /\ ~revents_[f]
       /\ co[c] = Awaiting("deleted", f) => f \notin registered
LifeInv == \A f \in Files : Life(f)

EdgeInv ==
  \A f \in registered :
    /\ revents_[f] /\ waked_[f] => f \in list_
    /\ revents_[f] /\ items_[f] # <<>> => f \in list_
    /\ avail[f] > 0 => f \in ready \/ revents_[f]

PollInv == pc = "poll" => list_ = {}
AvailInv == \A f \in Files : avail[f] <= arrived[f]

IInv ==
  /\ TypeOK /\ RequestInv /\ FuncInv /\ ItemInv /\ LifeInv
  /\ EdgeInv /\ PollInv /\ AvailInv
-----------------------------------------------------------------------------
(* Facts about values.                                                     *)

LEMMA RequestFacts ==
  ASSUME NEW r \in Request
  PROVE  /\ r.f \in Files /\ Caller(r) \in Coros /\ r.op \in {"add", "del", "wait"}
         /\ r.op = "wait" => r.item \in Item /\ Caller(r) = r.item.h_
         /\ r.op # "wait" => Caller(r) = r.h_
<1>1. CASE r \in [op : {"add", "del"}, h_ : Coros, f : Files]
  BY <1>1 DEF Caller
<1>2. CASE r \in [op : {"wait"}, f : Files, item : Item]
  BY <1>2 DEF Caller, Item
<1>3. QED
  BY <1>1, <1>2 DEF Request

LEMMA AwaitingFacts ==
  ASSUME NEW op, NEW f
  PROVE  /\ Awaiting(op, f).op = op /\ Awaiting(op, f).f = f
         /\ op # "run" => Awaiting(op, f) # Running
         /\ op \in {"add", "added", "del", "deleted", "wait"} /\ f \in Files =>
              Awaiting(op, f) \in Control
<1>1. Awaiting(op, f).op = op /\ Awaiting(op, f).f = f /\ Running.op = "run"
  BY DEF Awaiting, Running
<1>2. op \in {"add", "added", "del", "deleted", "wait"} /\ f \in Files =>
        Awaiting(op, f) \in [op : {"add", "added", "del", "deleted", "wait"}, f : Files]
  BY DEF Awaiting
<1>3. QED
  BY <1>1, <1>2 DEF Control

\* Awaiting is one-to-one.
LEMMA AwaitingIs ==
  ASSUME NEW op, NEW f, NEW op2, NEW f2, Awaiting(op, f) = Awaiting(op2, f2)
  PROVE  op = op2 /\ f = f2
BY AwaitingFacts

LEMMA QueueTypes ==
  ASSUME TypeOK
  PROVE  /\ Len(funcs_) \in Nat
         /\ \A i \in 1..Len(funcs_) : funcs_[i] \in Request
         /\ \A f \in Files : /\ items_[f] \in Seq(Item) /\ Len(items_[f]) \in Nat
                             /\ \A k \in 1..Len(items_[f]) :
                                  items_[f][k] \in Item /\ items_[f][k].h_ \in Coros
<1>1. \A item \in Item : item.h_ \in Coros
  BY DEF Item
<1>2. funcs_ \in Seq(Request) /\ items_ \in [Files -> Seq(Item)]
  BY DEF TypeOK
<1>3. Len(funcs_) \in Nat /\ \A i \in 1..Len(funcs_) : funcs_[i] \in Request
  BY <1>2
<1>4. \A f \in Files : /\ items_[f] \in Seq(Item) /\ Len(items_[f]) \in Nat
                     /\ \A k \in 1..Len(items_[f]) : items_[f][k] \in Item
  BY <1>2
<1>5. QED
  BY <1>1, <1>3, <1>4
-----------------------------------------------------------------------------
(* Initial states.                                                         *)

LEMMA InitIInv == Init => IInv
<1> SUFFICES ASSUME Init PROVE IInv
  OBVIOUS
<1>1. TypeOK
  <2>1. funcs_ \in Seq(Request) /\ writes \in Nat /\ list_ \subseteq WQs
    BY DEF Init
  <2>2. {revents_, waked_} \subseteq [Files -> BOOLEAN]
    BY Zenon DEF Init
  <2>3. items_ \in [Files -> Seq(Item)] /\ co \in [Coros -> Control]
    BY DEF Init, Control
  <2>4. avail \in [Files -> 0..MaxData] /\ arrived \in [Files -> 0..MaxData]
    BY BoundsAssumption DEF Init
  <2>5. QED
    BY <2>1, <2>2, <2>3, <2>4 DEF Init, TypeOK
<1>2. funcs_ = <<>> /\ Len(funcs_) = 0 /\ \A f \in Files : items_[f] = <<>> /\ Len(items_[f]) = 0
  BY DEF Init
<1>3. RequestInv /\ FuncInv /\ ItemInv
  BY <1>2 DEF RequestInv, FuncInv, ItemInv
<1>4. LifeInv
  <2>1. \A c \in Coros : co[c] = Running
    BY DEF Init
  <2>2. \A f \in Files : f \notin registered /\ ~revents_[f]
    BY DEF Init
  <2>3. \A c \in Coros, f \in Files :
          ~BusyWith(c, f) /\ co[c] # Awaiting("add", f) /\ co[c] # Awaiting("deleted", f)
    BY <2>1, AwaitingFacts DEF BusyWith
  <2>4. QED
    BY <2>2, <2>3 DEF LifeInv, Life
<1>5. EdgeInv /\ PollInv /\ AvailInv
  BY DEF Init, EdgeInv, PollInv, AvailInv
<1>6. QED
  BY <1>1, <1>3, <1>4, <1>5 DEF IInv
-----------------------------------------------------------------------------
(* Coroutines.                                                             *)

\* A coroutine that awaits no request is in no queue.
LEMMA IdleIsNowhere ==
  ASSUME IInv, NEW c \in Coros,
         \A op \in {"add", "del", "wait"}, f \in Files : co[c] # Awaiting(op, f)
  PROVE  /\ \A i \in 1..Len(funcs_) : Caller(funcs_[i]) # c
         /\ \A f \in Files : \A k \in 1..Len(items_[f]) : items_[f][k].h_ # c
<1>1. \A i \in 1..Len(funcs_) : Caller(funcs_[i]) # c
  <2> SUFFICES ASSUME NEW i \in 1..Len(funcs_), Caller(funcs_[i]) = c PROVE FALSE
    OBVIOUS
  <2>1. co[c] = Awaiting(funcs_[i].op, funcs_[i].f)
    BY DEF IInv, FuncInv
  <2>2. funcs_[i].op \in {"add", "del", "wait"} /\ funcs_[i].f \in Files
    BY QueueTypes, RequestFacts DEF IInv
  <2>3. QED
    BY <2>1, <2>2
<1>2. \A f \in Files : \A k \in 1..Len(items_[f]) : items_[f][k].h_ # c
  BY DEF IInv, ItemInv
<1>3. QED
  BY <1>1, <1>2

LEMMA RunningIsNowhere ==
  ASSUME IInv, NEW c \in Coros, co[c] = Running
  PROVE  /\ \A i \in 1..Len(funcs_) : Caller(funcs_[i]) # c
         /\ \A f \in Files : \A k \in 1..Len(items_[f]) : items_[f][k].h_ # c
<1>1. \A op \in {"add", "del", "wait"}, f \in Files : co[c] # Awaiting(op, f)
  BY AwaitingFacts
<1>2. QED
  BY <1>1, IdleIsNowhere

\* What happens to a coroutine outside the queues does not matter to them.
LEMMA QueuesKept ==
  ASSUME IInv, NEW c \in Coros,
         \A op \in {"add", "del", "wait"}, f \in Files : co[c] # Awaiting(op, f),
         \A d \in Coros : d # c => co'[d] = co[d],
         UNCHANGED <<funcs_, items_>>
  PROVE  FuncInv' /\ ItemInv'
<1>1. \A i \in 1..Len(funcs_) : Caller(funcs_[i]) \in Coros \ {c}
  BY IdleIsNowhere, QueueTypes, RequestFacts DEF IInv
<1>2. \A f \in Files : \A k \in 1..Len(items_[f]) : items_[f][k].h_ \in Coros \ {c}
  BY IdleIsNowhere, QueueTypes DEF IInv
<1>3. FuncInv'
  BY <1>1 DEF IInv, FuncInv, Caller, Awaiting
<1>4. ItemInv'
  <2> SUFFICES ASSUME NEW f \in Files
               PROVE  /\ \A k \in 1..Len(items_'[f]) :
                           /\ co'[items_'[f][k].h_] = Awaiting("wait", f)
                           /\ \A i \in 1..Len(funcs_') : items_'[f][k].h_ # Caller(funcs_'[i])
                      /\ \A k, l \in 1..Len(items_'[f]) :
                           items_'[f][k].h_ = items_'[f][l].h_ => k = l
    BY DEF ItemInv, Caller, Awaiting
  <2>1. \A k \in 1..Len(items_[f]) : co'[items_[f][k].h_] = Awaiting("wait", f)
    BY <1>2 DEF IInv, ItemInv
  <2>2. QED
    BY <2>1 DEF IInv, ItemInv
<1>5. QED
  BY <1>3, <1>4

LEMMA QueueInLoopKeeps ==
  ASSUME IInv, NEW c \in Coros, NEW r \in Request, Caller(r) = c,
         QueueInLoop(c, r, Awaiting(r.op, r.f)), UNCHANGED <<items_, pc, ready>>
  PROVE  /\ funcs_' \in Seq(Request) /\ writes' \in Nat
         /\ co' \in [Coros -> Control]
         /\ co[c] = Running /\ co'[c] = Awaiting(r.op, r.f)
         /\ \A d \in Coros : d # c => co'[d] = co[d]
         /\ RequestInv' /\ FuncInv' /\ ItemInv'
<1>1. /\ funcs_ \in Seq(Request) /\ funcs_' = Append(funcs_, r)
      /\ writes \in Nat /\ writes' = writes + 1
      /\ co \in [Coros -> Control] /\ co' = [co EXCEPT ![c] = Awaiting(r.op, r.f)]
      /\ co[c] = Running
  BY DEF IInv, TypeOK, QueueInLoop
<1>2. funcs_' \in Seq(Request) /\ writes' \in Nat
  BY <1>1
<1>3. co' \in [Coros -> Control]
  <2>1. Awaiting(r.op, r.f) \in Control
    BY RequestFacts, AwaitingFacts
  <2>2. QED
    BY <1>1, <2>1
<1>4. co'[c] = Awaiting(r.op, r.f) /\ \A d \in Coros : d # c => co'[d] = co[d]
  BY <1>1
<1>5. RequestInv'
  BY <1>1 DEF RequestInv
<1>6. /\ Len(funcs_') = Len(funcs_) + 1 /\ Len(funcs_) \in Nat
      /\ funcs_'[Len(funcs_) + 1] = r
      /\ \A i \in 1..Len(funcs_) : funcs_'[i] = funcs_[i]
  BY <1>1
<1>7. \A i \in 1..Len(funcs_) : Caller(funcs_[i]) \in Coros /\ Caller(funcs_[i]) # c
  BY <1>1, QueueTypes, RequestFacts, RunningIsNowhere DEF IInv
<1>8. \A i \in 1..Len(funcs_') : i \in 1..Len(funcs_) \/ i = Len(funcs_) + 1
  BY <1>6
<1>9. FuncInv'
  <2>1. \A i \in 1..Len(funcs_') :
          co'[Caller(funcs_'[i])] = Awaiting(funcs_'[i].op, funcs_'[i].f)
    BY <1>4, <1>6, <1>7, <1>8 DEF IInv, FuncInv
  <2>2. \A i, j \in 1..Len(funcs_') :
          Caller(funcs_'[i]) = Caller(funcs_'[j]) => i = j
    BY <1>6, <1>7, <1>8 DEF IInv, FuncInv
  <2>3. QED
    BY <2>1, <2>2 DEF FuncInv, Caller
<1>10. ItemInv'
  <2> SUFFICES ASSUME NEW f \in Files
               PROVE  /\ \A k \in 1..Len(items_[f]) :
                           /\ co'[items_[f][k].h_] = Awaiting("wait", f)
                           /\ \A i \in 1..Len(funcs_') : items_[f][k].h_ # Caller(funcs_'[i])
                      /\ \A k, l \in 1..Len(items_[f]) :
                           items_[f][k].h_ = items_[f][l].h_ => k = l
    BY DEF ItemInv, Caller
  <2>1. \A k \in 1..Len(items_[f]) : items_[f][k].h_ \in Coros /\ items_[f][k].h_ # c
    BY <1>1, QueueTypes, RunningIsNowhere DEF IInv
  <2>2. QED
    BY <1>4, <1>6, <1>8, <2>1 DEF IInv, ItemInv
<1>11. QED
  BY <1>1, <1>2, <1>3, <1>4, <1>5, <1>9, <1>10

\* What a change of one coroutine's state does to BusyWith.
LEMMA BecomesAwaiting ==
  ASSUME NEW c \in Coros, NEW op \in Ops, NEW f,
         co'[c] = Awaiting(op, f), \A d \in Coros : d # c => co'[d] = co[d]
  PROVE  /\ \A d \in Coros, g \in Files :
              BusyWith(d, g)' <=> (d # c /\ BusyWith(d, g)) \/ (d = c /\ g = f)
         /\ \A d \in Coros, g \in Files, o \in Ops :
              co'[d] = Awaiting(o, g) <=>
                (d # c /\ co[d] = Awaiting(o, g)) \/ (d = c /\ o = op /\ g = f)
<1>1. /\ co'[c] # Running /\ co'[c].f = f /\ co'[c].op = op
      /\ \A o \in Ops, g \in Files :
           Awaiting(op, f) = Awaiting(o, g) => o = op /\ g = f
  BY AwaitingFacts, AwaitingIs DEF Ops
<1>2. \A d \in Coros, g \in Files :
        BusyWith(d, g)' <=> (d # c /\ BusyWith(d, g)) \/ (d = c /\ g = f)
  BY <1>1 DEF BusyWith, Running
<1>3. \A d \in Coros, g \in Files, o \in Ops :
        co'[d] = Awaiting(o, g) <=>
          (d # c /\ co[d] = Awaiting(o, g)) \/ (d = c /\ o = op /\ g = f)
  BY <1>1
<1>4. QED
  BY <1>2, <1>3

LEMMA BecomesRunning ==
  ASSUME NEW c \in Coros, co'[c] = Running, \A d \in Coros : d # c => co'[d] = co[d]
  PROVE  /\ \A d \in Coros, g \in Files : BusyWith(d, g)' <=> d # c /\ BusyWith(d, g)
         /\ \A d \in Coros, g \in Files, o \in Ops :
              co'[d] = Awaiting(o, g) <=> d # c /\ co[d] = Awaiting(o, g)
<1>1. \A o \in Ops, g \in Files : Awaiting(o, g) # Running
  BY AwaitingFacts DEF Ops
<1>2. \A d \in Coros, g \in Files : BusyWith(d, g)' <=> d # c /\ BusyWith(d, g)
  BY DEF BusyWith, Running
<1>3. \A d \in Coros, g \in Files, o \in Ops :
        co'[d] = Awaiting(o, g) <=> d # c /\ co[d] = Awaiting(o, g)
  BY <1>1
<1>4. QED
  BY <1>2, <1>3

LEMMA LifeOf ==
  ASSUME IInv, NEW f \in Files
  PROVE  /\ Life(f)
         /\ f \notin born => f \notin registered /\ ~revents_[f] /\ f \notin table
         /\ \A c \in Coros : co[c] = Running => ~BusyWith(c, f)
         /\ \A c \in Coros, op \in Ops :
              co[c] = Awaiting(op, f) => BusyWith(c, f) /\ co[c].op = op /\ f \in born
<1>1. \A c \in Coros, op \in Ops :
        co[c] = Awaiting(op, f) => BusyWith(c, f) /\ co[c].op = op
  BY AwaitingFacts DEF BusyWith, Ops
<1>2. \A c \in Coros : co[c] = Running => ~BusyWith(c, f)
  BY DEF BusyWith
<1>3. QED
  BY <1>1, <1>2 DEF IInv, LifeInv, Life, TypeOK

\* The life of a file goes on as it was when nobody turns to it.
LEMMA LifeKept ==
  ASSUME NEW g \in Files, Life(g),
         g \in born => g \in born', g \in table' <=> g \in table,
         g \in registered' => g \in registered, revents_'[g] => revents_[g],
         \A d \in Coros : BusyWith(d, g)' => BusyWith(d, g) /\ co'[d] = co[d],
         \A d \in Coros : co[d] = Awaiting("added", g) => co'[d] = co[d]
  PROVE  Life(g)'
<1>1. \A d \in Coros : co'[d] \in {Awaiting("add", g), Awaiting("deleted", g)} => BusyWith(d, g)'
  BY AwaitingFacts DEF BusyWith, Running
<1>2. \A d \in Coros : co'[d] = Awaiting("add", g) => co[d] = Awaiting("add", g)
  BY <1>1
<1>3. \A d \in Coros : co'[d] = Awaiting("deleted", g) => co[d] = Awaiting("deleted", g)
  BY <1>1
<1>4. QED
  BY <1>2, <1>3 DEF Life, Awaiting

LEMMA OpenCallIInv ==
  ASSUME IInv, NEW c \in Coros, NEW f \in Files, OpenCall(c, f) PROVE IInv'
<1> DEFINE r == [op |-> "add", h_ |-> c, f |-> f]
<1>1. /\ f \notin born /\ born' = born \cup {f}
      /\ QueueInLoop(c, r, Awaiting("add", f))
      /\ UNCHANGED <<list_, pc, registered, ready, avail, arrived,
                     revents_, waked_, items_, table>>
  BY DEF OpenCall, kernel, wqs
<1>2. r \in Request /\ Caller(r) = c /\ r.op = "add" /\ r.f = f
  BY DEF Request, Caller
<1>3. /\ funcs_' \in Seq(Request) /\ writes' \in Nat /\ co' \in [Coros -> Control]
      /\ co[c] = Running /\ co'[c] = Awaiting("add", f)
      /\ \A d \in Coros : d # c => co'[d] = co[d]
      /\ RequestInv' /\ FuncInv' /\ ItemInv'
  <2> HIDE DEF r
  <2>1. QueueInLoop(c, r, Awaiting(r.op, r.f)) /\ UNCHANGED <<items_, pc, ready>>
    BY <1>1, <1>2
  <2>2. QED
    BY <1>2, <2>1, QueueInLoopKeeps
<1>4. TypeOK'
  BY <1>1, <1>3 DEF IInv, TypeOK
<1>5. LifeInv'
  <2> SUFFICES ASSUME NEW g \in Files PROVE Life(g)'
    BY DEF LifeInv
  <2>1. /\ \A d \in Coros : BusyWith(d, g)' <=> (d # c /\ BusyWith(d, g)) \/ (d = c /\ g = f)
        /\ \A d \in Coros, o \in Ops :
             co'[d] = Awaiting(o, g) <=>
               (d # c /\ co[d] = Awaiting(o, g)) \/ (d = c /\ o = "add" /\ g = f)
    BY <1>3, BecomesAwaiting DEF Ops
  <2>2. ~BusyWith(c, g) /\ \A o \in Ops : co[c] # Awaiting(o, g)
    BY <1>3, AwaitingFacts DEF BusyWith, Ops
  <2>3. Life(g)
    BY LifeOf
  <2>4. CASE g = f
    <3>1. /\ g \notin registered /\ ~revents_[g] /\ g \notin table
          /\ \A d \in Coros : ~BusyWith(d, g)
      BY <1>1, <2>3, <2>4, LifeOf DEF Life
    <3>2. \A d \in Coros : co'[d] # Awaiting("deleted", g)
      BY <2>1, <2>2, <3>1, LifeOf DEF Ops
    <3>3. QED
      BY <1>1, <2>1, <2>4, <3>1, <3>2 DEF Life, Awaiting
  <2>5. CASE g # f
    BY <1>1, <1>3, <2>1, <2>2, <2>3, <2>5, LifeKept DEF Ops
  <2>6. QED
    BY <2>4, <2>5
<1>6. EdgeInv' /\ PollInv' /\ AvailInv'
  BY <1>1 DEF IInv, EdgeInv, PollInv, AvailInv
<1>7. QED
  BY <1>3, <1>4, <1>5, <1>6 DEF IInv

\* A request of a coroutine for a file that the table holds.
LEMMA TableCallIInv ==
  ASSUME IInv, NEW c \in Coros, NEW r \in Request, Caller(r) = c,
         r.f \in table, r.op \in {"wait", "del"},
         QueueInLoop(c, r, Awaiting(r.op, r.f)),
         UNCHANGED <<list_, pc, registered, ready, avail, arrived,
                     revents_, waked_, items_, table, born>>
  PROVE  IInv'
<1>3. /\ funcs_' \in Seq(Request) /\ writes' \in Nat /\ co' \in [Coros -> Control]
      /\ co[c] = Running /\ co'[c] = Awaiting(r.op, r.f)
      /\ \A d \in Coros : d # c => co'[d] = co[d]
      /\ RequestInv' /\ FuncInv' /\ ItemInv'
  BY QueueInLoopKeeps
<1>4. TypeOK'
  BY <1>3 DEF IInv, TypeOK
<1>5. LifeInv'
  <2> SUFFICES ASSUME NEW g \in Files PROVE Life(g)'
    BY DEF LifeInv
  <2>0. r.f \in Files /\ r.op \in Ops
    BY RequestFacts DEF Ops
  <2>1. /\ \A d \in Coros : BusyWith(d, g)' <=> (d # c /\ BusyWith(d, g)) \/ (d = c /\ g = r.f)
        /\ \A d \in Coros, o \in Ops :
             co'[d] = Awaiting(o, g) <=>
               (d # c /\ co[d] = Awaiting(o, g)) \/ (d = c /\ o = r.op /\ g = r.f)
    BY <1>3, <2>0, BecomesAwaiting
  <2>2. ~BusyWith(c, g) /\ \A o \in Ops : co[c] # Awaiting(o, g)
    BY <1>3, AwaitingFacts DEF BusyWith, Ops
  <2>3. Life(g)
    BY LifeOf
  <2>4. CASE g = r.f
    <3>1. g \in table /\ g \in born
      BY <2>4 DEF IInv, TypeOK
    <3>2. \A d \in Coros : BusyWith(d, g) => co[d].op \notin {"add", "added"}
      BY <2>3, <3>1 DEF Life
    <3>3. co'[c].op = r.op
      BY <1>3, AwaitingFacts
    <3>4. \A d \in Coros : BusyWith(d, g)' => co'[d].op \notin {"add", "added"}
      BY <1>3, <2>1, <3>2, <3>3
    <3>5. \A d \in Coros :
            /\ co'[d] # Awaiting("add", g)
            /\ co'[d] = Awaiting("deleted", g) => co[d] = Awaiting("deleted", g)
      BY <2>1, <2>3, <3>1, <3>2, LifeOf DEF Ops
    <3>6. QED
      BY <3>1, <3>4, <3>5, <2>3 DEF Life, Awaiting
  <2>5. CASE g # r.f
    BY <1>3, <2>1, <2>2, <2>3, <2>5, LifeKept DEF Ops
  <2>6. QED
    BY <2>4, <2>5
<1>6. EdgeInv' /\ PollInv' /\ AvailInv'
  BY DEF IInv, EdgeInv, PollInv, AvailInv
<1>7. QED
  BY <1>3, <1>4, <1>5, <1>6 DEF IInv

LEMMA ReadCallIInv ==
  ASSUME IInv, NEW c \in Coros, NEW f \in Files, NEW item \in Item, ReadCall(c, f, item)
  PROVE  IInv'
<1> DEFINE r == [op |-> "wait", f |-> f, item |-> item]
<1>1. /\ f \in table /\ QueueInLoop(c, r, Awaiting("wait", f))
      /\ UNCHANGED <<list_, pc, registered, ready, avail, arrived,
                     revents_, waked_, items_, table, born>>
  BY DEF ReadCall, kernel, wqs
<1>2. r \in Request /\ Caller(r) = c /\ r.op = "wait" /\ r.f = f
  BY DEF Request, Caller, ReadCall
<1> HIDE DEF r
<1>3. QED
  BY <1>1, <1>2, TableCallIInv

LEMMA CloseCallIInv ==
  ASSUME IInv, NEW c \in Coros, NEW f \in Files, CloseCall(c, f) PROVE IInv'
<1> DEFINE r == [op |-> "del", h_ |-> c, f |-> f]
<1>1. /\ f \in table /\ QueueInLoop(c, r, Awaiting("del", f))
      /\ UNCHANGED <<list_, pc, registered, ready, avail, arrived,
                     revents_, waked_, items_, table, born>>
  BY DEF CloseCall, kernel, wqs
<1>2. r \in Request /\ Caller(r) = c /\ r.op = "del" /\ r.f = f
  BY DEF Request, Caller
<1> HIDE DEF r
<1>3. QED
  BY <1>1, <1>2, TableCallIInv

LEMMA InsertIInv ==
  ASSUME IInv, NEW c \in Coros, NEW f \in Files, Insert(c, f) PROVE IInv'
<1>1. /\ co[c] = Awaiting("added", f) /\ table' = table \cup {f}
      /\ co' = [co EXCEPT ![c] = Running] /\ co \in [Coros -> Control]
      /\ UNCHANGED <<funcs_, writes, list_, pc, registered, ready, avail, arrived,
                     revents_, waked_, items_, born>>
  BY DEF Insert, loop, kernel, wqs, IInv, TypeOK
<1>2. co'[c] = Running /\ \A d \in Coros : d # c => co'[d] = co[d]
  BY <1>1
<1>3. Life(f) /\ BusyWith(c, f) /\ co[c].op = "added" /\ f \in born
  BY <1>1, LifeOf DEF Ops
<1>4. TypeOK'
  <2>1. co' \in [Coros -> Control]
    BY <1>1 DEF Control
  <2>2. QED
    BY <1>1, <1>3, <2>1 DEF IInv, TypeOK
<1>5. FuncInv' /\ ItemInv'
  <2>1. \A op \in {"add", "del", "wait"}, g \in Files : co[c] # Awaiting(op, g)
    BY <1>1, AwaitingIs
  <2>2. QED
    BY <1>1, <1>2, <2>1, QueuesKept
<1>6. LifeInv'
  <2> SUFFICES ASSUME NEW g \in Files PROVE Life(g)'
    BY DEF LifeInv
  <2>1. /\ \A d \in Coros : BusyWith(d, g)' <=> d # c /\ BusyWith(d, g)
        /\ \A d \in Coros, o \in Ops :
             co'[d] = Awaiting(o, g) <=> d # c /\ co[d] = Awaiting(o, g)
    BY <1>2, BecomesRunning
  <2>2. Life(g)
    BY LifeOf
  <2>3. CASE g = f
    <3>1. \A d \in Coros : ~BusyWith(d, g)'
      BY <1>3, <2>1, <2>3 DEF Life
    <3>2. \A d \in Coros : co'[d] # Awaiting("add", g) /\ co'[d] # Awaiting("deleted", g)
      BY <1>3, <2>1, <2>3, <3>1, LifeOf DEF Ops
    <3>3. QED
      BY <1>1, <1>3, <2>3, <3>1, <3>2 DEF Life, Awaiting
  <2>4. CASE g # f
    <3>1. co[c] # Awaiting("added", g)
      BY <1>1, <2>4, AwaitingIs
    <3>2. QED
      BY <1>1, <1>2, <2>1, <2>2, <2>4, <3>1, LifeKept
  <2>5. QED
    BY <2>3, <2>4
<1>7. RequestInv' /\ EdgeInv' /\ PollInv' /\ AvailInv'
  BY <1>1 DEF IInv, RequestInv, EdgeInv, PollInv, AvailInv
<1>8. QED
  BY <1>4, <1>5, <1>6, <1>7 DEF IInv

LEMMA EraseIInv ==
  ASSUME IInv, NEW c \in Coros, NEW f \in Files, Erase(c, f) PROVE IInv'
<1>1. /\ co[c] = Awaiting("deleted", f) /\ table' = table \ {f}
      /\ co' = [co EXCEPT ![c] = Running] /\ co \in [Coros -> Control]
      /\ UNCHANGED <<funcs_, writes, list_, pc, registered, ready, avail, arrived,
                     revents_, waked_, items_, born>>
  BY DEF Erase, loop, kernel, wqs, IInv, TypeOK
<1>2. co'[c] = Running /\ \A d \in Coros : d # c => co'[d] = co[d]
  BY <1>1
<1>3. Life(f) /\ BusyWith(c, f) /\ co[c].op = "deleted" /\ f \in born /\ f \notin registered
  BY <1>1, LifeOf DEF Ops, Life
<1>4. TypeOK'
  <2>1. co' \in [Coros -> Control]
    BY <1>1 DEF Control
  <2>2. QED
    BY <1>1, <1>3, <2>1 DEF IInv, TypeOK
<1>5. FuncInv' /\ ItemInv'
  <2>1. \A op \in {"add", "del", "wait"}, g \in Files : co[c] # Awaiting(op, g)
    BY <1>1, AwaitingIs
  <2>2. QED
    BY <1>1, <1>2, <2>1, QueuesKept
<1>6. LifeInv'
  <2> SUFFICES ASSUME NEW g \in Files PROVE Life(g)'
    BY DEF LifeInv
  <2>1. /\ \A d \in Coros : BusyWith(d, g)' <=> d # c /\ BusyWith(d, g)
        /\ \A d \in Coros, o \in Ops :
             co'[d] = Awaiting(o, g) <=> d # c /\ co[d] = Awaiting(o, g)
    BY <1>2, BecomesRunning
  <2>2. Life(g)
    BY LifeOf
  <2>3. CASE g = f
    <3>1. \A d \in Coros : BusyWith(d, g)' => co'[d] = co[d] /\ co[d].op \notin {"add", "added"}
      BY <1>2, <1>3, <2>1, <2>3 DEF Life
    <3>2. \A d \in Coros : co'[d] # Awaiting("add", g)
      BY <2>1, <2>3, <3>1, LifeOf DEF Ops
    <3>3. QED
      BY <1>1, <1>3, <2>1, <2>3, <3>1, <3>2 DEF Life, Awaiting
  <2>4. CASE g # f
    <3>1. co[c] # Awaiting("added", g)
      BY <1>1, AwaitingIs
    <3>2. QED
      BY <1>1, <1>2, <2>1, <2>2, <2>4, <3>1, LifeKept
  <2>5. QED
    BY <2>3, <2>4
<1>7. RequestInv' /\ EdgeInv' /\ PollInv' /\ AvailInv'
  BY <1>1 DEF IInv, RequestInv, EdgeInv, PollInv, AvailInv
<1>8. QED
  BY <1>4, <1>5, <1>6, <1>7 DEF IInv

\* Steps that leave the requests, the waiters and the coroutines alone.
LEMMA QueuesAlone ==
  ASSUME IInv, UNCHANGED <<funcs_, items_, co>>
  PROVE  FuncInv' /\ ItemInv'
BY DEF IInv, FuncInv, ItemInv, Caller, Awaiting

LEMMA LifeAlone ==
  ASSUME IInv, UNCHANGED <<co, table, born>>, registered' \subseteq registered,
         \A g \in Files : revents_'[g] => revents_[g] \/ g \in registered
  PROVE  LifeInv'
<1> SUFFICES ASSUME NEW g \in Files PROVE Life(g)'
  BY DEF LifeInv
<1>1. Life(g)
  BY LifeOf
<1>2. \A d \in Coros : BusyWith(d, g)' <=> BusyWith(d, g)
  BY DEF BusyWith, Running
<1>3. g \in registered' => g \in registered
  OBVIOUS
<1>4. QED
  BY <1>1, <1>2, <1>3 DEF Life, Awaiting

LEMMA WakeUpIInv == ASSUME IInv, WakeUp PROVE IInv'
<1>1. /\ writes > 0 /\ writes' = writes - 1 /\ ready' = ready \cup {WakeUpWQ}
      /\ UNCHANGED <<funcs_, list_, pc, registered, avail, arrived, revents_, waked_,
                     items_, table, born, co>>
  BY DEF WakeUp, wqs
<1>2. TypeOK'
  BY <1>1 DEF IInv, TypeOK
<1>3. FuncInv' /\ ItemInv' /\ LifeInv'
  BY <1>1, QueuesAlone, LifeAlone
<1>4. RequestInv' /\ EdgeInv' /\ PollInv' /\ AvailInv'
  BY <1>1 DEF IInv, RequestInv, EdgeInv, PollInv, AvailInv
<1>5. QED
  BY <1>2, <1>3, <1>4 DEF IInv

LEMMA ArriveIInv ==
  ASSUME IInv, NEW f \in Files, Arrive(f) PROVE IInv'
<1>1. /\ arrived[f] < MaxData
      /\ arrived' = [arrived EXCEPT ![f] = @ + 1] /\ avail' = [avail EXCEPT ![f] = @ + 1]
      /\ ready' = IF f \in registered THEN ready \cup {f} ELSE ready
      /\ UNCHANGED <<funcs_, writes, list_, pc, registered, revents_, waked_,
                     items_, table, born, co>>
  BY DEF Arrive, loop, wqs
<1>2. /\ avail \in [Files -> 0..MaxData] /\ arrived \in [Files -> 0..MaxData]
      /\ MaxData \in Nat /\ \A g \in Files : avail[g] <= arrived[g]
  BY BoundsAssumption DEF IInv, TypeOK, AvailInv
<1>3. avail' \in [Files -> 0..MaxData] /\ arrived' \in [Files -> 0..MaxData]
  <2>1. avail[f] + 1 \in 0..MaxData /\ arrived[f] + 1 \in 0..MaxData
    BY <1>1, <1>2
  <2>2. QED
    BY <1>1, <1>2, <2>1
<1>4. AvailInv'
  BY <1>1, <1>2 DEF AvailInv
<1>5. TypeOK'
  BY <1>1, <1>3 DEF IInv, TypeOK
<1>6. FuncInv' /\ ItemInv' /\ LifeInv'
  BY <1>1, QueuesAlone, LifeAlone
<1>7. EdgeInv'
  <2> SUFFICES ASSUME NEW g \in registered
               PROVE  /\ revents_[g] /\ waked_[g] => g \in list_
                      /\ revents_[g] /\ items_[g] # <<>> => g \in list_
                      /\ avail'[g] > 0 => g \in ready' \/ revents_[g]
    BY <1>1 DEF EdgeInv
  <2>1. g # f => avail'[g] = avail[g]
    BY <1>1, <1>2 DEF IInv, TypeOK
  <2>2. QED
    BY <1>1, <2>1 DEF IInv, EdgeInv
<1>8. RequestInv' /\ PollInv'
  BY <1>1 DEF IInv, RequestInv, PollInv
<1>9. QED
  BY <1>4, <1>5, <1>6, <1>7, <1>8 DEF IInv

-----------------------------------------------------------------------------
(* The ICU thread runs a request.                                          *)

\* What every request finds when it is run.
LEMMA HeadFacts ==
  ASSUME IInv, funcs_ # <<>>, funcs_' = Tail(funcs_), pc' = "drain"
  PROVE  LET r == Head(funcs_)
             c == Caller(r)
         IN  /\ r \in Request /\ r.f \in Files /\ c \in Coros
             /\ co[c] = Awaiting(r.op, r.f) /\ Life(r.f) /\ BusyWith(c, r.f) /\ co[c].op = r.op
             /\ funcs_' \in Seq(Request) /\ RequestInv'
             /\ \A i \in 1..Len(funcs_') :
                  /\ i + 1 \in 1..Len(funcs_) /\ funcs_'[i] = funcs_[i + 1]
                  /\ Caller(funcs_[i + 1]) \in Coros \ {c}
             /\ \A f \in Files : \A k \in 1..Len(items_[f]) : items_[f][k].h_ \in Coros \ {c}
<1> DEFINE r == Head(funcs_)
           c == Caller(r)
<1>1. /\ funcs_ \in Seq(Request) /\ Len(funcs_) \in Nat /\ Len(funcs_) > 0
      /\ r = funcs_[1] /\ 1 \in 1..Len(funcs_) /\ funcs_' \in Seq(Request)
      /\ Len(funcs_') = Len(funcs_) - 1
      /\ \A i \in 1..Len(funcs_') : i + 1 \in 1..Len(funcs_) /\ funcs_'[i] = funcs_[i + 1]
  BY DEF IInv, TypeOK
<1>2. \A i \in 1..Len(funcs_) : Caller(funcs_[i]) \in Coros
  BY QueueTypes, RequestFacts DEF IInv
<1>3. r \in Request /\ r.f \in Files /\ c \in Coros /\ r.op \in Ops
  BY <1>1, RequestFacts DEF Ops
<1>4. co[c] = Awaiting(r.op, r.f)
  BY <1>1 DEF IInv, FuncInv
<1>5. Life(r.f) /\ BusyWith(c, r.f) /\ co[c].op = r.op
  BY <1>3, <1>4, LifeOf
<1>6. \A i \in 1..Len(funcs_') : Caller(funcs_[i + 1]) \in Coros \ {c}
  <2> TAKE i \in 1..Len(funcs_')
  <2>1. i + 1 \in 1..Len(funcs_) /\ i + 1 # 1
    BY <1>1
  <2>2. QED
    BY <1>1, <1>2, <2>1 DEF IInv, FuncInv
<1>7. \A f \in Files : \A k \in 1..Len(items_[f]) : items_[f][k].h_ \in Coros \ {c}
  BY <1>1, QueueTypes DEF IInv, ItemInv
<1>8. RequestInv'
  BY DEF RequestInv
<1>9. QED
  BY <1>1, <1>3, <1>4, <1>5, <1>6, <1>7, <1>8

\* The rest of the queues when the caller of a request is told of its end.
LEMMA AnswerKeeps ==
  ASSUME IInv, funcs_ # <<>>, funcs_' = Tail(funcs_), pc' = "drain", UNCHANGED items_,
         \A d \in Coros : d # Caller(Head(funcs_)) => co'[d] = co[d]
  PROVE  FuncInv' /\ ItemInv'
<1> DEFINE c == Caller(Head(funcs_))
<1>1. /\ \A i \in 1..Len(funcs_') :
           /\ i \in Nat /\ i + 1 \in 1..Len(funcs_) /\ funcs_'[i] = funcs_[i + 1]
           /\ Caller(funcs_[i + 1]) \in Coros \ {c}
      /\ \A f \in Files : \A k \in 1..Len(items_[f]) : items_[f][k].h_ \in Coros \ {c}
  BY HeadFacts
<1> HIDE DEF c
<1>2. \A d \in Coros \ {c} : co'[d] = co[d]
  BY DEF c
<1>3. FuncInv'
  <2>1. \A i \in 1..Len(funcs_') :
          co'[Caller(funcs_'[i])] = Awaiting(funcs_'[i].op, funcs_'[i].f)
    BY <1>1, <1>2 DEF IInv, FuncInv
  <2>2. \A i, j \in 1..Len(funcs_') :
          Caller(funcs_'[i]) = Caller(funcs_'[j]) => i = j
    <3> TAKE i, j \in 1..Len(funcs_')
    <3> HAVE Caller(funcs_'[i]) = Caller(funcs_'[j])
    <3>1. i + 1 = j + 1
      BY <1>1 DEF IInv, FuncInv
    <3>2. QED
      BY <1>1, <3>1
  <2>3. QED
    BY <2>1, <2>2 DEF FuncInv, Caller, Awaiting
<1>4. ItemInv'
  <2> SUFFICES ASSUME NEW f \in Files
               PROVE  /\ \A k \in 1..Len(items_[f]) :
                           /\ co'[items_[f][k].h_] = Awaiting("wait", f)
                           /\ \A i \in 1..Len(funcs_') : items_[f][k].h_ # Caller(funcs_'[i])
                      /\ \A k, l \in 1..Len(items_[f]) :
                           items_[f][k].h_ = items_[f][l].h_ => k = l
    BY DEF ItemInv, Caller, Awaiting
  <2>1. \A k \in 1..Len(items_[f]) : co'[items_[f][k].h_] = Awaiting("wait", f)
    BY <1>1, <1>2 DEF IInv, ItemInv
  <2>2. \A k \in 1..Len(items_[f]), i \in 1..Len(funcs_') : items_[f][k].h_ # Caller(funcs_'[i])
    BY <1>1 DEF IInv, ItemInv
  <2>3. QED
    BY <2>1, <2>2 DEF IInv, ItemInv
<1>5. QED
  BY <1>3, <1>4

LEMMA RunAddIInv ==
  ASSUME IInv, RunFunc, RunAdd(Head(funcs_)) PROVE IInv'
<1> DEFINE r == Head(funcs_)
           c == Caller(r)
           f == r.f
<1>1. /\ pc = "drain" /\ pc' = "drain" /\ funcs_ # <<>> /\ funcs_' = Tail(funcs_)
      /\ r.op = "add" /\ registered' = registered \cup {f}
      /\ ready' = IF avail[f] > 0 THEN ready \cup {f} ELSE ready
      /\ co' = [co EXCEPT ![r.h_] = Awaiting("added", f)]
      /\ UNCHANGED <<writes, list_, avail, arrived, revents_, waked_, items_, table, born>>
  BY DEF RunFunc, RunAdd, wqs
<1>2. /\ r \in Request /\ f \in Files /\ c \in Coros /\ c = r.h_
      /\ co[c] = Awaiting("add", f) /\ Life(f) /\ BusyWith(c, f) /\ co[c].op = "add"
      /\ funcs_' \in Seq(Request) /\ RequestInv'
  BY <1>1, HeadFacts DEF Caller
<1> HIDE DEF r, c, f
<1>3. /\ co'[c] = Awaiting("added", f) /\ \A d \in Coros : d # c => co'[d] = co[d]
      /\ co' \in [Coros -> Control]
  <2>1. Awaiting("added", f) \in Control /\ co \in [Coros -> Control]
    BY <1>2, AwaitingFacts DEF IInv, TypeOK
  <2>2. QED
    BY <1>1, <1>2, <2>1
<1>4. FuncInv' /\ ItemInv'
  BY <1>1, <1>3, AnswerKeeps DEF c, r
<1>5. TypeOK'
  BY <1>1, <1>2, <1>3 DEF IInv, TypeOK
<1>6. f \notin registered /\ ~revents_[f] /\ f \notin table /\ f \in born
  BY <1>2 DEF Life
<1>7. LifeInv'
  <2> SUFFICES ASSUME NEW g \in Files PROVE Life(g)'
    BY DEF LifeInv
  <2>1. /\ \A d \in Coros : BusyWith(d, g)' <=> (d # c /\ BusyWith(d, g)) \/ (d = c /\ g = f)
        /\ \A d \in Coros, o \in Ops :
             co'[d] = Awaiting(o, g) <=>
               (d # c /\ co[d] = Awaiting(o, g)) \/ (d = c /\ o = "added" /\ g = f)
    BY <1>2, <1>3, BecomesAwaiting DEF Ops
  <2>2. Life(g)
    BY LifeOf
  <2>3. CASE g = f
    <3>1. \A d \in Coros : BusyWith(d, g)' => d = c
      BY <1>2, <2>1, <2>3 DEF Life
    <3>2. \A d \in Coros : co'[d] # Awaiting("add", g) /\ co'[d] # Awaiting("deleted", g)
      BY <1>2, <2>1, <2>3, <3>1, LifeOf DEF Ops
    <3>3. QED
      BY <1>1, <1>2, <1>3, <1>6, <2>3, <3>1, <3>2 DEF Life, Awaiting
  <2>4. CASE g # f
    <3>1. co[c] # Awaiting("added", g) /\ ~BusyWith(c, g)
      BY <1>2, <2>4, AwaitingIs DEF BusyWith
    <3>2. QED
      BY <1>1, <1>2, <1>3, <2>1, <2>2, <2>4, <3>1, LifeKept
  <2>5. QED
    BY <2>3, <2>4
<1>8. EdgeInv' /\ PollInv' /\ AvailInv'
  BY <1>1, <1>6 DEF IInv, EdgeInv, PollInv, AvailInv
<1>9. QED
  BY <1>2, <1>4, <1>5, <1>7, <1>8 DEF IInv

LEMMA RunDelIInv ==
  ASSUME IInv, RunFunc, RunDel(Head(funcs_)) PROVE IInv'
<1> DEFINE r == Head(funcs_)
           c == Caller(r)
           f == r.f
<1>1. /\ pc = "drain" /\ pc' = "drain" /\ funcs_ # <<>> /\ funcs_' = Tail(funcs_)
      /\ r.op = "del" /\ registered' = registered \ {f} /\ ready' = ready \ {f}
      /\ co' = [co EXCEPT ![r.h_] = Awaiting("deleted", f)]
      /\ UNCHANGED <<writes, list_, avail, arrived, revents_, waked_, items_, table, born>>
  BY DEF RunFunc, RunDel, wqs
<1>2. /\ r \in Request /\ f \in Files /\ c \in Coros /\ c = r.h_
      /\ co[c] = Awaiting("del", f) /\ Life(f) /\ BusyWith(c, f) /\ co[c].op = "del"
      /\ funcs_' \in Seq(Request) /\ RequestInv'
  BY <1>1, HeadFacts DEF Caller
<1> HIDE DEF r, c, f
<1>3. /\ co'[c] = Awaiting("deleted", f) /\ \A d \in Coros : d # c => co'[d] = co[d]
      /\ co' \in [Coros -> Control]
  <2>1. Awaiting("deleted", f) \in Control /\ co \in [Coros -> Control]
    BY <1>2, AwaitingFacts DEF IInv, TypeOK
  <2>2. QED
    BY <1>1, <1>2, <2>1
<1>4. FuncInv' /\ ItemInv'
  BY <1>1, <1>3, AnswerKeeps DEF c, r
<1>5. TypeOK'
  BY <1>1, <1>2, <1>3 DEF IInv, TypeOK
<1>6. LifeInv'
  <2> SUFFICES ASSUME NEW g \in Files PROVE Life(g)'
    BY DEF LifeInv
  <2>1. /\ \A d \in Coros : BusyWith(d, g)' <=> (d # c /\ BusyWith(d, g)) \/ (d = c /\ g = f)
        /\ \A d \in Coros, o \in Ops :
             co'[d] = Awaiting(o, g) <=>
               (d # c /\ co[d] = Awaiting(o, g)) \/ (d = c /\ o = "deleted" /\ g = f)
    BY <1>2, <1>3, BecomesAwaiting DEF Ops
  <2>2. Life(g)
    BY LifeOf
  <2>3. CASE g = f
    <3>1. \A d \in Coros : BusyWith(d, g) => co[d].op \notin {"add", "added"}
      BY <1>2, <2>3 DEF Life
    <3>2. co'[c].op = "deleted"
      BY <1>3, AwaitingFacts
    <3>3. \A d \in Coros : BusyWith(d, g)' => co'[d].op \notin {"add", "added"}
      BY <1>3, <2>1, <3>1, <3>2
    <3>4. \A d \in Coros : co'[d] # Awaiting("add", g)
      BY <2>1, <3>1, LifeOf DEF Ops
    <3>5. /\ g \notin registered' /\ (g \notin born' => ~revents_'[g])
          /\ \A d \in Coros : BusyWith(d, g)' => g \in born'
      BY <1>1, <1>2, <2>2, <2>3, <2>1 DEF Life
    <3>6. QED
      BY <3>3, <3>4, <3>5 DEF Life, Awaiting
  <2>4. CASE g # f
    <3>1. co[c] # Awaiting("added", g) /\ ~BusyWith(c, g)
      BY <1>2, <2>4, AwaitingIs DEF BusyWith
    <3>2. QED
      BY <1>1, <1>2, <1>3, <2>1, <2>2, <2>4, <3>1, LifeKept
  <2>5. QED
    BY <2>3, <2>4
<1>7. EdgeInv' /\ PollInv' /\ AvailInv'
  BY <1>1 DEF IInv, EdgeInv, PollInv, AvailInv
<1>8. QED
  BY <1>2, <1>4, <1>5, <1>6, <1>7 DEF IInv

\* The waiter joins its file's line, and the file is scanned next.
LEMMA RunWaitIInv ==
  ASSUME IInv, RunFunc, RunWait(Head(funcs_)) PROVE IInv'
<1> DEFINE r == Head(funcs_)
           c == Caller(r)
           f == r.f
           n == Len(items_[f])
<1>1. /\ pc = "drain" /\ pc' = "drain" /\ funcs_ # <<>> /\ funcs_' = Tail(funcs_)
      /\ r.op = "wait" /\ items_' = [items_ EXCEPT ![f] = Append(@, r.item)]
      /\ list_' = IF waked_[f] THEN list_ ELSE list_ \cup {f}
      /\ waked_' = [waked_ EXCEPT ![f] = TRUE]
      /\ UNCHANGED <<writes, registered, ready, avail, arrived, revents_, co, table, born>>
  BY DEF RunFunc, RunWait, kernel
<1>2. /\ r \in Request /\ f \in Files /\ c \in Coros /\ co[c] = Awaiting("wait", f)
      /\ funcs_' \in Seq(Request) /\ RequestInv'
      /\ \A i \in 1..Len(funcs_') :
           /\ i \in Nat /\ i + 1 \in 1..Len(funcs_) /\ funcs_'[i] = funcs_[i + 1]
           /\ Caller(funcs_[i + 1]) \in Coros \ {c}
      /\ \A g \in Files : \A k \in 1..Len(items_[g]) : items_[g][k].h_ \in Coros \ {c}
  BY <1>1, HeadFacts
<1>3. r.item \in Item /\ c = r.item.h_
  BY <1>1, <1>2, RequestFacts
<1> HIDE DEF r, c, f
<1>4. /\ items_ \in [Files -> Seq(Item)] /\ waked_ \in [Files -> BOOLEAN] /\ n \in Nat
      /\ items_[f] \in Seq(Item)
  BY <1>2 DEF IInv, TypeOK
<1>5. /\ items_'[f] \in Seq(Item) /\ Len(items_'[f]) = n + 1
      /\ items_'[f][n + 1] = r.item
      /\ \A k \in 1..n : items_'[f][k] = items_[f][k]
      /\ \A k \in 1..Len(items_'[f]) : k \in 1..n \/ k = n + 1
      /\ \A g \in Files : g # f => items_'[g] = items_[g]
  BY <1>1, <1>2, <1>3, <1>4
<1>6. TypeOK'
  <2>1. items_' \in [Files -> Seq(Item)]
    BY <1>1, <1>2, <1>3, <1>4
  <2>2. waked_' \in [Files -> BOOLEAN]
    BY <1>1, <1>4, Zenon
  <2>3. list_' \subseteq WQs
    BY <1>1, <1>2 DEF IInv, TypeOK, WQs
  <2>4. QED
    BY <1>1, <1>2, <2>1, <2>2, <2>3 DEF IInv, TypeOK
<1>7. FuncInv'
  <2>1. \A i \in 1..Len(funcs_') :
          co[Caller(funcs_'[i])] = Awaiting(funcs_'[i].op, funcs_'[i].f)
    BY <1>2 DEF IInv, FuncInv
  <2>2. \A i, j \in 1..Len(funcs_') :
          Caller(funcs_'[i]) = Caller(funcs_'[j]) => i = j
    <3> TAKE i, j \in 1..Len(funcs_')
    <3> HAVE Caller(funcs_'[i]) = Caller(funcs_'[j])
    <3>1. i + 1 = j + 1
      BY <1>2 DEF IInv, FuncInv
    <3>2. QED
      BY <1>2, <3>1
  <2>3. QED
    BY <1>1, <2>1, <2>2 DEF FuncInv, Caller, Awaiting
<1>8. ItemInv'
  <2> SUFFICES ASSUME NEW g \in Files
               PROVE  /\ \A k \in 1..Len(items_'[g]) :
                           /\ co[items_'[g][k].h_] = Awaiting("wait", g)
                           /\ \A i \in 1..Len(funcs_') : items_'[g][k].h_ # Caller(funcs_'[i])
                      /\ \A k, l \in 1..Len(items_'[g]) :
                           items_'[g][k].h_ = items_'[g][l].h_ => k = l
    BY <1>1 DEF ItemInv, Caller, Awaiting
  <2>1. /\ \A k \in 1..Len(items_[g]) :
             /\ co[items_[g][k].h_] = Awaiting("wait", g)
             /\ \A i \in 1..Len(funcs_') : items_[g][k].h_ # Caller(funcs_'[i])
        /\ \A k, l \in 1..Len(items_[g]) :
             items_[g][k].h_ = items_[g][l].h_ => k = l
    BY <1>2 DEF IInv, ItemInv
  <2>2. CASE g = f
    <3>1. \A k \in 1..n :
            /\ items_'[g][k].h_ = items_[g][k].h_ /\ k \in 1..Len(items_[g])
            /\ items_[g][k].h_ # c
      BY <1>2, <1>5, <2>2
    <3>2. items_'[g][n + 1].h_ = c /\ \A k \in 1..Len(items_'[g]) : k \in 1..n \/ k = n + 1
      BY <1>3, <1>5, <2>2
    <3>3. \A k \in 1..Len(items_'[g]) :
            /\ co[items_'[g][k].h_] = Awaiting("wait", g)
            /\ \A i \in 1..Len(funcs_') : items_'[g][k].h_ # Caller(funcs_'[i])
      <4> TAKE k \in 1..Len(items_'[g])
      <4>1. CASE k \in 1..n
        BY <2>1, <3>1, <4>1
      <4>2. CASE k = n + 1
        BY <1>2, <2>2, <3>2, <4>2
      <4>3. QED
        BY <3>2, <4>1, <4>2
    <3>4. \A k, l \in 1..Len(items_'[g]) :
            items_'[g][k].h_ = items_'[g][l].h_ => k = l
      BY <2>1, <3>1, <3>2
    <3>5. QED
      BY <3>3, <3>4
  <2>3. CASE g # f
    BY <1>5, <2>1, <2>3
  <2>4. QED
    BY <2>2, <2>3
<1>9. LifeInv'
  BY <1>1, LifeAlone
<1>10. EdgeInv'
  <2> SUFFICES ASSUME NEW g \in registered
               PROVE  /\ revents_[g] /\ waked_'[g] => g \in list_'
                      /\ revents_[g] /\ items_'[g] # <<>> => g \in list_'
                      /\ avail[g] > 0 => g \in ready \/ revents_[g]
    BY <1>1 DEF EdgeInv
  <2>1. /\ revents_[g] /\ waked_[g] => g \in list_
        /\ revents_[g] /\ items_[g] # <<>> => g \in list_
        /\ avail[g] > 0 => g \in ready \/ revents_[g]
        /\ g \in Files
    BY DEF IInv, EdgeInv, TypeOK
  <2>2. CASE g = f
    BY <1>1, <2>1, <2>2
  <2>3. CASE g # f
    <3>1. waked_'[g] = waked_[g] /\ items_'[g] = items_[g]
      BY <1>1, <1>4, <1>5, <2>1, <2>3
    <3>2. QED
      BY <1>1, <2>1, <3>1
  <2>4. QED
    BY <2>2, <2>3
<1>11. PollInv' /\ AvailInv'
  BY <1>1 DEF IInv, PollInv, AvailInv
<1>12. QED
  BY <1>2, <1>6, <1>7, <1>8, <1>9, <1>10, <1>11 DEF IInv

LEMMA RunFuncIInv == ASSUME IInv, RunFunc PROVE IInv'
BY RunAddIInv, RunDelIInv, RunWaitIInv DEF RunFunc

LEMMA DrainDoneIInv == ASSUME IInv, DrainDone PROVE IInv'
<1>1. /\ funcs_ = <<>> /\ pc' = "scan"
      /\ UNCHANGED <<funcs_, writes, list_, registered, ready, avail, arrived, revents_,
                     waked_, items_, table, born, co>>
  BY DEF DrainDone, kernel, wqs
<1>2. TypeOK'
  BY <1>1 DEF IInv, TypeOK
<1>3. FuncInv' /\ ItemInv' /\ LifeInv'
  BY <1>1, QueuesAlone, LifeAlone
<1>4. RequestInv' /\ EdgeInv' /\ PollInv' /\ AvailInv'
  BY <1>1 DEF IInv, RequestInv, EdgeInv, PollInv, AvailInv
<1>5. QED
  BY <1>2, <1>3, <1>4 DEF IInv
-----------------------------------------------------------------------------
(* The ICU thread scans list_ and waits.                                   *)

\* A callback that would block.
LEMMA TryBlockedIInv ==
  ASSUME IInv, NEW f \in Files, TryItem(f), avail[f] = 0 PROVE IInv'
<1>1. /\ pc = "scan" /\ f \in list_ /\ revents_' = [revents_ EXCEPT ![f] = FALSE]
      /\ UNCHANGED <<funcs_, writes, list_, pc, registered, ready, avail, arrived,
                     waked_, items_, table, born, co>>
  BY DEF TryItem, loop
<1>2. revents_ \in [Files -> BOOLEAN]
  BY DEF IInv, TypeOK
<1>3. /\ ~revents_'[f] /\ \A g \in Files : g # f => revents_'[g] = revents_[g]
      /\ revents_' \in [Files -> BOOLEAN]
  BY <1>1, <1>2, Zenon
<1>4. TypeOK'
  BY <1>1, <1>3 DEF IInv, TypeOK
<1>5. \A g \in Files : revents_'[g] => revents_[g]
  BY <1>3
<1>6. FuncInv' /\ ItemInv' /\ LifeInv'
  BY <1>1, <1>5, QueuesAlone, LifeAlone
<1>7. EdgeInv'
  BY <1>1, <1>3 DEF IInv, EdgeInv, TypeOK
<1>8. RequestInv' /\ PollInv' /\ AvailInv'
  BY <1>1 DEF IInv, RequestInv, PollInv, AvailInv
<1>9. QED
  BY <1>4, <1>6, <1>7, <1>8 DEF IInv

\* A callback that reads and wakes its coroutine.
LEMMA TryReadIInv ==
  ASSUME IInv, NEW f \in Files, TryItem(f), avail[f] # 0 PROVE IInv'
<1> DEFINE item == Head(items_[f])
           read == LowerOf(avail[f], item.n)
           c == item.h_
           n == Len(items_[f])
<1>1. /\ pc = "scan" /\ f \in list_ /\ revents_[f] /\ items_[f] # <<>>
      /\ avail' = [avail EXCEPT ![f] = @ - read]
      /\ revents_' = [revents_ EXCEPT ![f] = ~Exhausted(read, item)]
      /\ items_' = [items_ EXCEPT ![f] = Tail(@)]
      /\ co' = [co EXCEPT ![c] = Running]
      /\ UNCHANGED <<funcs_, writes, list_, pc, registered, ready, arrived,
                     waked_, table, born>>
  BY DEF TryItem, CanTry, Wake, loop
<1>2. /\ items_ \in [Files -> Seq(Item)] /\ revents_ \in [Files -> BOOLEAN]
      /\ avail \in [Files -> 0..MaxData] /\ co \in [Coros -> Control]
      /\ avail[f] \in 0..MaxData /\ MaxData \in Nat
  BY BoundsAssumption DEF IInv, TypeOK
<1>3. /\ items_[f] \in Seq(Item) /\ n \in Nat /\ n > 0 /\ item = items_[f][1] /\ item \in Item
      /\ 1 \in 1..n
  BY <1>1, <1>2
<1>4. item.n \in 1..MaxRead /\ c \in Coros /\ MaxRead \in Nat
  BY <1>3, BoundsAssumption DEF Item
<1>5. read \in 1..avail[f] /\ (Exhausted(read, item) => read = avail[f])
  BY <1>2, <1>4 DEF LowerOf, Exhausted
<1>6. co[c] = Awaiting("wait", f) /\ BusyWith(c, f)
  BY <1>3, <1>4, LifeOf DEF IInv, ItemInv, Ops
<1> HIDE DEF item, read, c
<1>7. co'[c] = Running /\ \A d \in Coros : d # c => co'[d] = co[d]
  BY <1>1, <1>2, <1>4
<1>8. /\ avail' \in [Files -> 0..MaxData] /\ avail'[f] = avail[f] - read
      /\ \A g \in Files : g # f => avail'[g] = avail[g]
  BY <1>1, <1>2, <1>5
<1>9. /\ (revents_'[f] <=> ~Exhausted(read, item))
      /\ \A g \in Files : g # f => revents_'[g] = revents_[g]
      /\ revents_' \in [Files -> BOOLEAN]
  BY <1>1, <1>2, Zenon
<1>10. /\ items_' \in [Files -> Seq(Item)] /\ items_'[f] = Tail(items_[f])
       /\ Len(items_'[f]) = n - 1
       /\ \A k \in 1..Len(items_'[f]) : k \in Nat /\ k + 1 \in 1..n /\ items_'[f][k] = items_[f][k + 1]
       /\ \A g \in Files : g # f => items_'[g] = items_[g]
  BY <1>1, <1>2, <1>3
<1>11. TypeOK'
  <2>1. co' \in [Coros -> Control]
    BY <1>1, <1>2 DEF Control
  <2>2. QED
    BY <1>1, <1>8, <1>9, <1>10, <2>1 DEF IInv, TypeOK
<1>12. FuncInv'
  <2>1. \A i \in 1..Len(funcs_) : Caller(funcs_[i]) \in Coros \ {c}
    BY <1>3, QueueTypes, RequestFacts DEF IInv, ItemInv, c
  <2>2. QED
    BY <1>1, <1>7, <2>1 DEF IInv, FuncInv, Caller, Awaiting
<1>13. ItemInv'
  <2> SUFFICES ASSUME NEW g \in Files
               PROVE  /\ \A k \in 1..Len(items_'[g]) :
                           /\ co'[items_'[g][k].h_] = Awaiting("wait", g)
                           /\ \A i \in 1..Len(funcs_') : items_'[g][k].h_ # Caller(funcs_'[i])
                      /\ \A k, l \in 1..Len(items_'[g]) :
                           items_'[g][k].h_ = items_'[g][l].h_ => k = l
    BY DEF ItemInv, Caller, Awaiting
  <2>1. /\ \A k \in 1..Len(items_[g]) :
             /\ co[items_[g][k].h_] = Awaiting("wait", g) /\ items_[g][k].h_ \in Coros
             /\ \A i \in 1..Len(funcs_) : items_[g][k].h_ # Caller(funcs_[i])
        /\ \A k, l \in 1..Len(items_[g]) :
             items_[g][k].h_ = items_[g][l].h_ => k = l
    BY QueueTypes DEF IInv, ItemInv
  <2>2. CASE g = f
    <3>1. \A k \in 1..Len(items_'[g]) : items_'[g][k].h_ = items_[g][k + 1].h_ /\ k + 1 \in 1..Len(items_[g])
      BY <1>10, <2>2
    <3>2. \A k \in 1..Len(items_'[g]) : items_[g][k + 1].h_ # c
      <4> TAKE k \in 1..Len(items_'[g])
      <4>1. k + 1 # 1 /\ 1 \in 1..Len(items_[g]) /\ c = items_[g][1].h_
        BY <1>3, <1>10, <2>2 DEF c
      <4>2. QED
        BY <2>1, <3>1, <4>1
    <3>3. \A k \in 1..Len(items_'[g]) : co'[items_'[g][k].h_] = Awaiting("wait", g)
      BY <1>7, <2>1, <3>1, <3>2
    <3>4. \A k, l \in 1..Len(items_'[g]) :
            items_'[g][k].h_ = items_'[g][l].h_ => k = l
      <4> TAKE k, l \in 1..Len(items_'[g])
      <4> HAVE items_'[g][k].h_ = items_'[g][l].h_
      <4>1. k + 1 = l + 1
        BY <2>1, <3>1
      <4>2. QED
        BY <1>10, <2>2, <4>1
    <3>5. \A k \in 1..Len(items_'[g]), i \in 1..Len(funcs_') :
            items_'[g][k].h_ # Caller(funcs_'[i])
      BY <1>1, <2>1, <3>1
    <3>6. QED
      BY <3>3, <3>4, <3>5
  <2>3. CASE g # f
    <3>1. Awaiting("wait", f) # Awaiting("wait", g)
      BY <2>3, AwaitingIs
    <3>2. \A k \in 1..Len(items_[g]) : items_[g][k].h_ # c
      BY <1>6, <2>1, <3>1
    <3>3. QED
      BY <1>1, <1>7, <1>10, <2>1, <2>3, <3>2
  <2>4. QED
    BY <2>2, <2>3
<1>14. LifeInv'
  <2> SUFFICES ASSUME NEW g \in Files PROVE Life(g)'
    BY DEF LifeInv
  <2>1. \A d \in Coros : BusyWith(d, g)' => BusyWith(d, g) /\ co'[d] = co[d]
    BY <1>4, <1>7, BecomesRunning
  <2>2. \A d \in Coros : co[d] = Awaiting("added", g) => co'[d] = co[d]
    BY <1>6, <1>7, AwaitingIs
  <2>3. revents_'[g] => revents_[g]
    BY <1>1, <1>9
  <2>4. Life(g)
    BY LifeOf
  <2>5. QED
    BY <1>1, <2>1, <2>2, <2>3, <2>4, LifeKept
<1>15. EdgeInv'
  <2> SUFFICES ASSUME NEW g \in registered
               PROVE  /\ revents_'[g] /\ waked_[g] => g \in list_
                      /\ revents_'[g] /\ items_'[g] # <<>> => g \in list_
                      /\ avail'[g] > 0 => g \in ready \/ revents_'[g]
    BY <1>1 DEF EdgeInv
  <2>1. /\ revents_[g] /\ waked_[g] => g \in list_
        /\ revents_[g] /\ items_[g] # <<>> => g \in list_
        /\ avail[g] > 0 => g \in ready \/ revents_[g]
        /\ g \in Files
    BY DEF IInv, EdgeInv, TypeOK
  <2>2. CASE g = f
    <3>1. avail'[g] > 0 => ~Exhausted(read, item)
      BY <1>2, <1>5, <1>8, <2>2
    <3>2. QED
      BY <1>1, <1>9, <2>2, <3>1
  <2>3. CASE g # f
    BY <1>8, <1>9, <1>10, <2>1, <2>3
  <2>4. QED
    BY <2>2, <2>3
<1>16. AvailInv'
  <2> SUFFICES ASSUME NEW g \in Files PROVE avail'[g] <= arrived[g]
    BY <1>1 DEF AvailInv
  <2>1. avail[g] <= arrived[g] /\ arrived[g] \in 0..MaxData /\ avail[g] \in 0..MaxData
    BY DEF IInv, AvailInv, TypeOK
  <2>2. avail'[g] <= avail[g] /\ avail'[g] \in 0..MaxData
    <3>1. CASE g = f
      BY <1>2, <1>5, <1>8, <3>1
    <3>2. CASE g # f
      BY <1>8, <2>1, <3>2
    <3>3. QED
      BY <3>1, <3>2
  <2>3. QED
    BY <1>2, <2>1, <2>2
<1>17. RequestInv' /\ PollInv'
  BY <1>1 DEF IInv, RequestInv, PollInv
<1>18. QED
  BY <1>11, <1>12, <1>13, <1>14, <1>15, <1>16, <1>17 DEF IInv

LEMMA ScanNextIInv ==
  ASSUME IInv, NEW w \in WQs, ScanNext(w) PROVE IInv'
<1>1. /\ pc = "scan" /\ list_' = list_ \ {w} /\ (w \in Files => ~CanTry(w))
      /\ waked_' = IF w \in Files THEN [waked_ EXCEPT ![w] = FALSE] ELSE waked_
      /\ UNCHANGED <<funcs_, writes, pc, registered, ready, avail, arrived, revents_,
                     items_, table, born, co>>
  BY DEF ScanNext, kernel
<1>2. waked_ \in [Files -> BOOLEAN]
  BY DEF IInv, TypeOK
<1>3. /\ w \in Files => ~waked_'[w]
      /\ \A g \in Files : g # w => waked_'[g] = waked_[g]
      /\ waked_' \in [Files -> BOOLEAN]
  <2>1. CASE w \in Files
    BY <1>1, <1>2, <2>1, Zenon
  <2>2. CASE w \notin Files
    BY <1>1, <1>2, <2>2
  <2>3. QED
    BY <2>1, <2>2
<1>4. TypeOK'
  BY <1>1, <1>3 DEF IInv, TypeOK
<1>5. FuncInv' /\ ItemInv' /\ LifeInv'
  BY <1>1, QueuesAlone, LifeAlone
<1>6. EdgeInv'
  <2> SUFFICES ASSUME NEW g \in registered
               PROVE  /\ revents_[g] /\ waked_'[g] => g \in list_'
                      /\ revents_[g] /\ items_[g] # <<>> => g \in list_'
                      /\ avail[g] > 0 => g \in ready \/ revents_[g]
    BY <1>1 DEF EdgeInv
  <2>1. /\ revents_[g] /\ waked_[g] => g \in list_
        /\ revents_[g] /\ items_[g] # <<>> => g \in list_
        /\ avail[g] > 0 => g \in ready \/ revents_[g]
        /\ g \in Files
    BY DEF IInv, EdgeInv, TypeOK
  <2>2. QED
    BY <1>1, <1>3, <2>1 DEF CanTry
<1>7. RequestInv' /\ PollInv' /\ AvailInv'
  BY <1>1 DEF IInv, RequestInv, PollInv, AvailInv
<1>8. QED
  BY <1>4, <1>5, <1>6, <1>7 DEF IInv

\* What does not exist is not registered, and has no edge to lose.
LEMMA ScanDanglingIInv ==
  ASSUME IInv, NEW f \in Files, ScanDangling(f) PROVE IInv'
<1>1. /\ pc = "scan" /\ ~Exists(f) /\ list_' = list_ \ {f}
      /\ UNCHANGED <<funcs_, writes, pc, registered, ready, avail, arrived, revents_, waked_,
                     items_, table, born, co>>
  BY DEF ScanDangling, kernel, wqs
<1>2. f \notin registered
  BY <1>1, LifeOf DEF Life, Exists
<1>3. TypeOK'
  BY <1>1 DEF IInv, TypeOK
<1>4. FuncInv' /\ ItemInv' /\ LifeInv'
  BY <1>1, QueuesAlone, LifeAlone
<1>5. RequestInv' /\ EdgeInv' /\ PollInv' /\ AvailInv'
  BY <1>1, <1>2 DEF IInv, RequestInv, EdgeInv, PollInv, AvailInv
<1>6. QED
  BY <1>3, <1>4, <1>5 DEF IInv

LEMMA ScanDoneIInv == ASSUME IInv, ScanDone PROVE IInv'
<1>1. /\ pc = "scan" /\ list_ = {} /\ pc' = "poll"
      /\ UNCHANGED <<funcs_, writes, list_, registered, ready, avail, arrived, revents_,
                     waked_, items_, table, born, co>>
  BY DEF ScanDone, kernel, wqs
<1>2. TypeOK'
  BY <1>1 DEF IInv, TypeOK
<1>3. FuncInv' /\ ItemInv' /\ LifeInv'
  BY <1>1, QueuesAlone, LifeAlone
<1>4. RequestInv' /\ EdgeInv' /\ PollInv' /\ AvailInv'
  BY <1>1 DEF IInv, RequestInv, EdgeInv, PollInv, AvailInv
<1>5. QED
  BY <1>2, <1>3, <1>4 DEF IInv

LEMMA WaitIRQIInv == ASSUME IInv, WaitIRQ PROVE IInv'
<1>1. /\ pc = "poll" /\ list_' = ready /\ ready' = {} /\ pc' = "drain"
      /\ revents_' = [f \in Files |-> revents_[f] \/ f \in ready]
      /\ waked_' = [f \in Files |-> waked_[f] \/ f \in ready]
      /\ UNCHANGED <<funcs_, writes, registered, avail, arrived, items_, table, born, co>>
  BY DEF WaitIRQ
<1>2. list_ = {} /\ registered \subseteq Files /\ ready \subseteq registered \cup {WakeUpWQ}
  BY <1>1 DEF IInv, PollInv, TypeOK
<1>3. /\ revents_' \in [Files -> BOOLEAN] /\ waked_' \in [Files -> BOOLEAN]
      /\ \A g \in Files : /\ revents_'[g] <=> revents_[g] \/ g \in ready
                          /\ waked_'[g] <=> waked_[g] \/ g \in ready
  BY <1>1, Zenon
<1>4. TypeOK'
  BY <1>1, <1>2, <1>3 DEF IInv, TypeOK, WQs
<1>5. FuncInv' /\ ItemInv'
  BY <1>1, QueuesAlone
<1>6. LifeInv'
  <2>1. \A g \in Files : revents_'[g] => revents_[g] \/ g \in registered
    BY <1>2, <1>3, FilesAssumption
  <2>2. QED
    BY <1>1, <2>1, LifeAlone
<1>7. EdgeInv'
  <2> SUFFICES ASSUME NEW g \in registered
               PROVE  /\ revents_'[g] /\ waked_'[g] => g \in list_'
                      /\ revents_'[g] /\ items_[g] # <<>> => g \in list_'
                      /\ avail[g] > 0 => g \in ready' \/ revents_'[g]
    BY <1>1 DEF EdgeInv
  <2>1. /\ revents_[g] /\ waked_[g] => g \in list_
        /\ revents_[g] /\ items_[g] # <<>> => g \in list_
        /\ avail[g] > 0 => g \in ready \/ revents_[g]
        /\ g \in Files
    BY <1>2 DEF IInv, EdgeInv
  <2>2. QED
    BY <1>1, <1>2, <1>3, <2>1
<1>8. RequestInv' /\ PollInv' /\ AvailInv'
  BY <1>1 DEF IInv, RequestInv, PollInv, AvailInv
<1>9. QED
  BY <1>4, <1>5, <1>6, <1>7, <1>8 DEF IInv

LEMMA WaitTimeoutIInv == ASSUME IInv, WaitTimeout PROVE IInv'
<1>1. /\ pc' = "drain"
      /\ UNCHANGED <<funcs_, writes, list_, registered, ready, avail, arrived, revents_,
                     waked_, items_, table, born, co>>
  BY DEF WaitTimeout, kernel, wqs
<1>2. TypeOK'
  BY <1>1 DEF IInv, TypeOK
<1>3. FuncInv' /\ ItemInv' /\ LifeInv'
  BY <1>1, QueuesAlone, LifeAlone
<1>4. RequestInv' /\ EdgeInv' /\ PollInv' /\ AvailInv'
  BY <1>1 DEF IInv, RequestInv, EdgeInv, PollInv, AvailInv
<1>5. QED
  BY <1>2, <1>3, <1>4 DEF IInv
-----------------------------------------------------------------------------
LEMMA NextIInv == IInv /\ [Next]_vars => IInv'
<1> SUFFICES ASSUME IInv, [Next]_vars PROVE IInv'
  OBVIOUS
<1>1. CASE UNCHANGED vars
  <2>1. UNCHANGED <<funcs_, writes, list_, pc, registered, ready, avail, arrived, revents_,
                    waked_, items_, table, born, co>>
    BY <1>1 DEF vars, loop, kernel, wqs
  <2>2. FuncInv' /\ ItemInv' /\ LifeInv'
    BY <2>1, QueuesAlone, LifeAlone
  <2>3. TypeOK' /\ RequestInv' /\ EdgeInv' /\ PollInv' /\ AvailInv'
    BY <2>1 DEF IInv, TypeOK, RequestInv, EdgeInv, PollInv, AvailInv
  <2>4. QED
    BY <2>2, <2>3 DEF IInv
<1>2. CASE Call
  BY <1>2, OpenCallIInv, CloseCallIInv, ReadCallIInv DEF Call
<1>3. CASE Thread
  <2>1. ASSUME NEW f \in Files, TryItem(f) PROVE IInv'
    BY <2>1, TryBlockedIInv, TryReadIInv
  <2>2. QED
    BY <1>3, <2>1, RunFuncIInv, DrainDoneIInv, ScanDoneIInv, WaitIRQIInv, ScanDanglingIInv,
       ScanNextIInv DEF Thread
<1>4. CASE \E c \in Coros, f \in Files : Insert(c, f) \/ Erase(c, f)
  BY <1>4, InsertIInv, EraseIInv
<1>5. CASE WakeUp \/ WaitTimeout \/ \E f \in Files : Arrive(f)
  BY <1>5, WakeUpIInv, WaitTimeoutIInv, ArriveIInv
<1>6. QED
  BY <1>1, <1>2, <1>3, <1>4, <1>5 DEF Next

\* IInv holds throughout.
THEOREM Invariance == Spec => []IInv
<1>1. Init => IInv
  BY InitIInv
<1>2. IInv /\ [Next]_vars => IInv'
  BY NextIInv
<1>3. QED
  BY <1>1, <1>2, PTL DEF Spec

\* For any coroutines and files: an ICU never sleeps on a request whose wake-up
\* is not under way, although it is enqueued and announced in two steps.
THEOREM RequestsAreKept == Spec => []NoLostRequest
<1>1. IInv => NoLostRequest
  BY DEF IInv, RequestInv, NoLostRequest
<1>2. QED
  BY <1>1, Invariance, PTL

\* For any coroutines, files and amounts of data: an ICU never sleeps while a
\* registered file has a waiter and input of which no fresh edge will tell.
THEOREM EdgesAreKept == Spec => []NoForgottenReadiness
<1>1. IInv => NoForgottenReadiness
  <2> SUFFICES ASSUME IInv, pc = "poll", NEW f \in registered, items_[f] # <<>>
               PROVE  ~revents_[f] /\ (avail[f] > 0 => f \in ready)
    BY DEF NoForgottenReadiness
  <2>1. list_ = {}
    BY DEF IInv, PollInv
  <2>2. QED
    BY <2>1 DEF IInv, EdgeInv
<1>2. QED
  BY <1>1, Invariance, PTL
=============================================================================
