----------------------------- MODULE CallStack ------------------------------
(***************************************************************************)
(* What Lazy and Task promise a programmer: coroutines that await each     *)
(* other behave like functions that call each other.  Each task has a      *)
(* stack of activations; the one on top returns a value or raises an       *)
(* exception to the one below it, which takes the value, catches the       *)
(* exception or passes it on.  What reaches the task itself is dropped.    *)
(***************************************************************************)
EXTENDS Naturals, Sequences

CONSTANTS Tasks, Frames

VARIABLES stack,        \* of each task, the outermost activation first
          outcome       \* what its top has just been handed and not yet used

vars == <<stack, outcome>>

Init == /\ stack = [t \in Tasks |-> <<>>]
        /\ outcome = [t \in Tasks |-> "none"]

OnStack(g) == \E t \in Tasks : \E i \in DOMAIN stack[t] : stack[t][i] = g

Call(t, g) == /\ outcome[t] = "none"
              /\ ~OnStack(g)
              /\ stack' = [stack EXCEPT ![t] = Append(@, g)]
              /\ UNCHANGED outcome

Pop(t) == /\ stack[t] # <<>>
          /\ stack' = [stack EXCEPT ![t] = SubSeq(@, 1, Len(@) - 1)]

End(t, result) == /\ outcome[t] = "none"
                  /\ Pop(t)
                  /\ outcome' = [outcome EXCEPT ![t] = result]

Use(t) == /\ outcome[t] # "none"
          /\ outcome' = [outcome EXCEPT ![t] = "none"]
          /\ UNCHANGED stack

PassOn(t) == /\ outcome[t] = "exception"
             /\ Pop(t)
             /\ UNCHANGED outcome

Next == \E t \in Tasks :
          \/ \E g \in Frames : Call(t, g)
          \/ End(t, "value") \/ End(t, "exception") \/ Use(t) \/ PassOn(t)

Spec == Init /\ [][Next]_vars
=============================================================================
