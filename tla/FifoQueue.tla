----------------------------- MODULE FifoQueue ------------------------------
(* What the users of MpmcQueue rely on: a FIFO shared by any number of     *)
(* threads whose two operations each take effect at one instant.           *)
EXTENDS Sequences

CONSTANTS Threads, Values, NoValue

VARIABLES queue,     \* the values enqueued and not yet dequeued
          out        \* out[t] is what t's last dequeue gave it

vars == <<queue, out>>

Init == /\ queue = <<>>
        /\ out = [t \in Threads |-> NoValue]

Enqueue(v) == /\ queue' = Append(queue, v)
              /\ UNCHANGED out

Dequeue(t) == /\ queue # <<>>
              /\ out' = [out EXCEPT ![t] = Head(queue)]
              /\ queue' = Tail(queue)

\* dequeue() may say "empty" only when the queue is empty.
DequeueFails(t) == /\ queue = <<>>
                   /\ out' = [out EXCEPT ![t] = NoValue]
                   /\ UNCHANGED queue

Next == \/ \E v \in Values : Enqueue(v)
        \/ \E t \in Threads : Dequeue(t) \/ DequeueFails(t)

Spec == Init /\ [][Next]_vars
=============================================================================
