----------------------------- MODULE MpmcQueue ------------------------------
(***************************************************************************)
(* CoLib/utils/MpmcQueue.h, at the level of its nodes: a singly linked     *)
(* list of used nodes (uHead_ .. uTail_, behind a dummy), a list of spare  *)
(* nodes (sHead_ .. sTail_), a spin lock for each head, and exchanges of   *)
(* the two tails without a lock.  Every access to a shared atomic that     *)
(* another thread can observe is a step.                                   *)
(*                                                                         *)
(* The growth path of enqueue sets sTail_ by a plain store after comparing *)
(* it with sHead_.  When a dequeue exchanges sTail_ in between, the store  *)
(* hides that exchange and the queue is `torn': the dequeue then links its *)
(* node behind one that is no longer spare.                                *)
(***************************************************************************)
EXTENDS Naturals, Sequences

CONSTANTS
  Threads,
  MaxEnqueues      \* bound: how many values are enqueued, all different

ASSUME BoundAssumption == MaxEnqueues \in Nat

Null == 0
Nodes == 1..(2 + MaxEnqueues)       \* a dummy, a spare, one per growth
Values == 1..MaxEnqueues
NoValue == 0

VARIABLES
  uHead, uTail, sHead, sTail,       \* the four node pointers
  uLk, sLk,                         \* the spin locks: is it taken
  next, data,                       \* the fields of the nodes
  allocated,                        \* nodes are allocated in order
  pc, pres, nexts, preu, nextu,     \* control and locals of each thread
  input,                            \* the value t enqueues
  out,                              \* the output of t's last dequeue
  count,                            \* how many values have been enqueued
  line,     \* history: the values between the exchanges of uTail_ and the
            \* moves of uHead_, in the order of the exchanges
  torn      \* history: did a growth ever overwrite a moved sTail_

shared == <<uHead, uTail, sHead, sTail, uLk, sLk>>
locals == <<pres, nexts, preu, nextu, input>>
vars == <<shared, next, data, allocated, locals, pc, out, count, line, torn>>

Control == {"idle",
            "reserve", "next", "tail", "grow", "pop", "fill", "swing", "link",
            "take", "succ", "empty", "move", "clear", "give", "append"}

Go(t, to) == pc' = [pc EXCEPT ![t] = to]

Init ==
  /\ uHead = 1 /\ uTail = 1 /\ sHead = 2 /\ sTail = 2
  /\ uLk = FALSE /\ sLk = FALSE
  /\ next = [n \in Nodes |-> Null]
  /\ data = [n \in Nodes |-> NoValue]
  /\ allocated = 2
  /\ pc = [t \in Threads |-> "idle"]
  /\ pres = [t \in Threads |-> Null] /\ nexts = [t \in Threads |-> Null]
  /\ preu = [t \in Threads |-> Null] /\ nextu = [t \in Threads |-> Null]
  /\ input = [t \in Threads |-> NoValue]
  /\ out = [t \in Threads |-> NoValue]
  /\ count = 0
  /\ line = <<>>
  /\ torn = FALSE
-----------------------------------------------------------------------------
(* enqueue(input): pop a spare node, fill it, append it to the used list.  *)

EnqueueCall(t) ==
  /\ pc[t] = "idle"
  /\ count < MaxEnqueues
  /\ count' = count + 1
  /\ input' = [input EXCEPT ![t] = count + 1]
  /\ Go(t, "reserve")
  /\ UNCHANGED <<shared, next, data, allocated, pres, nexts, preu, nextu, out,
                 line, torn>>

ReserveUnlocked(t) ==
  /\ pc[t] = "reserve"
  /\ pres' = [pres EXCEPT ![t] = sHead]
  /\ Go(t, "next")
  /\ UNCHANGED <<shared, next, data, allocated, nexts, preu, nextu, input, out,
                 count, line, torn>>

Reserve(t) ==
  /\ pc[t] = "reserve"
  /\ ~sLk
  /\ sLk' = TRUE
  /\ pres' = [pres EXCEPT ![t] = sHead]
  /\ Go(t, "next")
  /\ UNCHANGED <<uHead, uTail, sHead, sTail, uLk, next, data, allocated, nexts,
                 preu, nextu, input, out, count, line, torn>>

ReadNext(t) ==
  /\ pc[t] = "next"
  /\ nexts' = [nexts EXCEPT ![t] = next[pres[t]]]
  /\ Go(t, IF next[pres[t]] = Null THEN "tail" ELSE "pop")
  /\ UNCHANGED <<shared, next, data, allocated, pres, preu, nextu, input, out,
                 count, line, torn>>

\* sHead_ == sTail_ ?  If not, a dequeue is about to link: spin.
CompareTail(t) ==
  /\ pc[t] = "tail"
  /\ Go(t, IF sHead = sTail THEN "grow" ELSE "next")
  /\ UNCHANGED <<shared, next, data, allocated, locals, out, count, line, torn>>

\* nexts = new BufferNode{}; sTail_ = nexts;
Grow(t) ==
  /\ pc[t] = "grow"
  /\ allocated' = allocated + 1
  /\ nexts' = [nexts EXCEPT ![t] = allocated + 1]
  /\ sTail' = allocated + 1
  /\ torn' = (torn \/ sTail # sHead)
  /\ Go(t, "pop")
  /\ UNCHANGED <<uHead, uTail, sHead, uLk, sLk, next, data, pres, preu, nextu,
                 input, out, count, line>>

PopSpare(t) ==
  /\ pc[t] = "pop"
  /\ sHead' = nexts[t]
  /\ sLk' = FALSE
  /\ Go(t, "fill")
  /\ UNCHANGED <<uHead, uTail, sTail, uLk, next, data, allocated, locals, out,
                 count, line, torn>>

Fill(t) ==
  /\ pc[t] = "fill"
  /\ data' = [data EXCEPT ![pres[t]] = input[t]]
  /\ next' = [next EXCEPT ![pres[t]] = Null]
  /\ Go(t, "swing")
  /\ UNCHANGED <<shared, allocated, locals, out, count, line, torn>>

\* preu = uTail_.exchange(pres): here the value takes its place.
SwingTail(t) ==
  /\ pc[t] = "swing"
  /\ preu' = [preu EXCEPT ![t] = uTail]
  /\ uTail' = pres[t]
  /\ line' = Append(line, input[t])
  /\ Go(t, "link")
  /\ UNCHANGED <<uHead, sHead, sTail, uLk, sLk, next, data, allocated, pres,
                 nexts, nextu, input, out, count, torn>>

\* What a thread keeps in dead locals is of no interest.
Return(t) ==
  /\ Go(t, "idle")
  /\ pres' = [pres EXCEPT ![t] = Null]
  /\ nexts' = [nexts EXCEPT ![t] = Null]
  /\ preu' = [preu EXCEPT ![t] = Null]
  /\ nextu' = [nextu EXCEPT ![t] = Null]
  /\ input' = [input EXCEPT ![t] = NoValue]

LinkForgotten(t) ==
  /\ pc[t] = "link"
  /\ Return(t)
  /\ UNCHANGED <<shared, next, data, allocated, out, count, line, torn>>

Link(t) ==
  /\ pc[t] = "link"
  /\ next' = [next EXCEPT ![preu[t]] = pres[t]]
  /\ Return(t)
  /\ UNCHANGED <<shared, data, allocated, out, count, line, torn>>
-----------------------------------------------------------------------------
(* dequeue(output): advance uHead_, recycle the old dummy as a spare node. *)

DequeueCall(t) ==
  /\ pc[t] = "idle"
  /\ Go(t, "take")
  /\ UNCHANGED <<shared, next, data, allocated, locals, out, count, line, torn>>

Take(t) ==
  /\ pc[t] = "take"
  /\ ~uLk
  /\ uLk' = TRUE
  /\ preu' = [preu EXCEPT ![t] = uHead]
  /\ Go(t, "succ")
  /\ UNCHANGED <<uHead, uTail, sHead, sTail, sLk, next, data, allocated, pres,
                 nexts, nextu, input, out, count, line, torn>>

ReadSucc(t) ==
  /\ pc[t] = "succ"
  /\ nextu' = [nextu EXCEPT ![t] = next[preu[t]]]
  /\ Go(t, IF next[preu[t]] = Null THEN "empty" ELSE "move")
  /\ UNCHANGED <<shared, next, data, allocated, pres, nexts, preu, input, out,
                 count, line, torn>>

FailsWhenUnlinked(t) == TRUE
FailsWhenEmpty(t) == uHead = uTail

\* uHead_ == uTail_ ?  If not, an enqueue is about to link: spin.
ReportEmpty(t) ==
  /\ pc[t] = "empty"
  /\ FailsWhenEmpty(t)
  /\ uLk' = FALSE
  /\ out' = [out EXCEPT ![t] = NoValue]
  /\ Return(t)
  /\ UNCHANGED <<uHead, uTail, sHead, sTail, sLk, next, data, allocated, count,
                 line, torn>>

SpinForLink(t) ==
  /\ pc[t] = "empty"
  /\ ~FailsWhenEmpty(t)
  /\ Go(t, "succ")
  /\ UNCHANGED <<shared, next, data, allocated, locals, out, count, line, torn>>

MoveHead(t) ==
  /\ pc[t] = "move"
  /\ uHead' = nextu[t]
  /\ out' = [out EXCEPT ![t] = data[nextu[t]]]
  /\ uLk' = FALSE
  /\ line' = IF line = <<>> THEN line ELSE Tail(line)
  /\ Go(t, "clear")
  /\ UNCHANGED <<uTail, sHead, sTail, sLk, next, data, allocated, locals, count,
                 torn>>

ClearNext(t) ==
  /\ pc[t] = "clear"
  /\ next' = [next EXCEPT ![preu[t]] = Null]
  /\ Go(t, "give")
  /\ UNCHANGED <<shared, data, allocated, locals, out, count, line, torn>>

\* pres = sTail_.exchange(preu)
GiveBack(t) ==
  /\ pc[t] = "give"
  /\ pres' = [pres EXCEPT ![t] = sTail]
  /\ sTail' = preu[t]
  /\ Go(t, "append")
  /\ UNCHANGED <<uHead, uTail, sHead, uLk, sLk, next, data, allocated, nexts,
                 preu, nextu, input, out, count, line, torn>>

AppendSpare(t) ==
  /\ pc[t] = "append"
  /\ next' = [next EXCEPT ![pres[t]] = preu[t]]
  /\ Return(t)
  /\ UNCHANGED <<shared, data, allocated, out, count, line, torn>>
-----------------------------------------------------------------------------
\* The steps of an operation that has begun and that wait for no lock.
Locked(t) ==
  \/ ReadNext(t) \/ CompareTail(t) \/ Grow(t) \/ PopSpare(t)
  \/ Fill(t) \/ SwingTail(t) \/ Link(t)
  \/ ReadSucc(t) \/ ReportEmpty(t) \/ SpinForLink(t) \/ MoveHead(t)
  \/ ClearNext(t) \/ GiveBack(t) \/ AppendSpare(t)

Next == \E t \in Threads :
          EnqueueCall(t) \/ DequeueCall(t) \/ Reserve(t) \/ Take(t) \/ Locked(t)

\* Nothing is assumed of the spin locks, which are not fair.
Spec == Init /\ [][Next]_vars
FairSpec == Spec /\ \A t \in Threads : WF_vars(Locked(t))
-----------------------------------------------------------------------------
TypeOK ==
  /\ {uHead, uTail, sHead, sTail} \subseteq Nodes
  /\ {uLk, sLk} \subseteq BOOLEAN
  /\ next \in [Nodes -> Nodes \cup {Null}]
  /\ data \in [Nodes -> Values \cup {NoValue}]
  /\ allocated \in 2..(2 + count)
  /\ pc \in [Threads -> Control]
  /\ {pres, nexts, preu, nextu} \subseteq [Threads -> Nodes \cup {Null}]
  /\ input \in [Threads -> Values \cup {NoValue}]
  /\ out \in [Threads -> Values \cup {NoValue}]
  /\ count \in 0..MaxEnqueues
  /\ line \in Seq(Values)
  /\ torn \in BOOLEAN

\* The node that t alone may touch: taken off the spare list and not yet in
\* the used one, or the other way round.
Held(t) == CASE pc[t] \in {"fill", "swing"} -> {pres[t]}
             [] pc[t] \in {"clear", "give"} -> {preu[t]}
             [] OTHER -> {}

\* Values have their types.  A node in transit between the two lists belongs to
\* one thread: no list end names it, no other thread moves it or reads its data.
HeldAlone ==
  /\ TypeOK
  /\ ~torn => \A t \in Threads :
       /\ Held(t) \cap {uHead, uTail, sHead, sTail} = {}
       /\ \A u \in Threads \ {t} :
            /\ Held(t) \cap Held(u) = {}
            /\ pc[u] = "move" => nextu[u] \notin Held(t)
            /\ pc[u] = "pop" => nexts[u] \notin Held(t)

Fifo == INSTANCE FifoQueue WITH queue <- line, out <- out

\* The queue is a FIFO: every value comes out once, in the order in which the
\* exchanges of uTail_ placed them, and "empty" is said only of an empty one.
QueueIsFifo == Fifo!Spec

\* It is one until a growth overwrites an sTail_ that a dequeue has moved.
FifoUnlessTorn == Fifo!Init /\ [][Fifo!Next \/ torn']_(Fifo!vars)

\* Whoever got a lock gets out of the operation: both spins end.
SpinEnds == \A t \in Threads :
              pc[t] \notin {"idle", "reserve", "take"} ~> pc[t] = "idle" \/ torn
=============================================================================
