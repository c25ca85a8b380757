----------------------------- MODULE LazyFrames -----------------------------
(***************************************************************************)
(* The coroutine frames of Lazy and Task (Lazy.h, Task.h, AFiber.cpp): who *)
(* holds the handle of a frame, where control goes when it ends, and when  *)
(* it is destroyed.                                                        *)
(*                                                                         *)
(* A Lazy object holds a frame that has not started; co_await moves the    *)
(* handle into a ValueAwaiter in the awaiting frame and transfers control; *)
(* at its end a frame transfers control to its continuation, which takes   *)
(* the result and destroys it.  A body is any sequence of calls of         *)
(* coroutines, awaits, suspensions and catches.                            *)
(***************************************************************************)
EXTENDS Naturals, Sequences, FiniteSets

CONSTANTS
  Tasks,        \* frames of make_task()
  Frames,       \* frames of coroutines that return a Lazy
  None          \* a null handle

ASSUME FramesAssumption == Tasks \cap Frames = {} /\ None \notin Tasks \cup Frames

VARIABLES
  frame,        \* what has become of each frame
  _continuation, _tcb, _value,  \* the fields of its promise
  lazies,       \* Lazy objects in a frame: the handles they hold
  awaited,      \* the handle in the ValueAwaiter a frame is suspended at
  task,         \* what has become of each task
  handle        \* the handle by which a task is resumed: its innermost frame

promises == <<_continuation, _tcb, _value>>
holders == <<lazies, awaited>>
frameVars == <<frame, promises, holders, task, handle>>

Owners == Tasks \cup Frames

FramesInit ==
  /\ frame = [g \in Frames |-> "free"]
  /\ _continuation = [g \in Frames |-> None] /\ _tcb = [g \in Frames |-> None]
  /\ _value = [g \in Frames |-> "none"]
  /\ lazies = [o \in Owners |-> {}] /\ awaited = [o \in Owners |-> None]
  /\ task = [t \in Tasks |-> "none"]
  /\ handle = [t \in Tasks |-> t]

\* Frames are destroyed with all that their promises held.
Destroyed(gone) ==
  /\ _continuation' = [g \in Frames |-> IF g \in gone THEN None ELSE _continuation[g]]
  /\ _tcb' = [g \in Frames |-> IF g \in gone THEN None ELSE _tcb[g]]

Runs(t, o) == task[t] = "running" /\ handle[t] = o
\* The task of the code that runs in o.
TaskOf(o) == IF o \in Tasks THEN o ELSE _tcb[o]
\* o's body is executing, and not inside await_resume().
Executes(o) == awaited[o] = None /\ \E t \in Tasks : Runs(t, o)
-----------------------------------------------------------------------------
\* fiber or async() makes a Lazy, and make_task() a frame that takes it as its
\* parameter and is put into the ready queue at once.
MakeTask(t, g) ==
  /\ task[t] = "none" /\ frame[g] = "free"
  /\ frame' = [frame EXCEPT ![g] = "created"]
  /\ lazies' = [lazies EXCEPT ![t] = {g}]
  /\ task' = [task EXCEPT ![t] = "ready"]
  /\ UNCHANGED <<promises, awaited, handle>>

ResumeTask(t) ==
  /\ task[t] = "ready"
  /\ task' = [task EXCEPT ![t] = "running"]
  /\ UNCHANGED <<frame, promises, holders, handle>>

\* Some awaiter of the library keeps the handle, and later wakes it.
Suspend(t) ==
  /\ handle[t] \in Frames /\ Executes(handle[t]) /\ task[t] = "running"
  /\ task' = [task EXCEPT ![t] = "suspended"]
  /\ UNCHANGED <<frame, promises, holders, handle>>

Wake(t) ==
  /\ task[t] = "suspended"
  /\ task' = [task EXCEPT ![t] = "ready"]
  /\ UNCHANGED <<frame, promises, holders, handle>>

\* f calls a coroutine, which suspends before its body.
MakeLazy(f, g) ==
  /\ Executes(f) /\ frame[g] = "free"
  /\ frame' = [frame EXCEPT ![g] = "created"]
  /\ lazies' = [lazies EXCEPT ![f] = @ \cup {g}]
  /\ UNCHANGED <<promises, awaited, task, handle>>

\* ~Lazy() of a coroutine that was never awaited.
DropLazy(f, g) ==
  /\ Executes(f) /\ g \in lazies[f]
  /\ frame' = [frame EXCEPT ![g] = "free"]
  /\ lazies' = [lazies EXCEPT ![f] = @ \ {g}]
  /\ UNCHANGED <<promises, awaited, task, handle>>

\* As if coAwait() left the handle in the Lazy.
AwaitCopied(o, g) ==
  /\ Executes(o) /\ g \in lazies[o]
  /\ awaited' = [awaited EXCEPT ![o] = g]
  /\ frame' = [frame EXCEPT ![g] = "active"]
  /\ _continuation' = [_continuation EXCEPT ![g] = o]
  /\ _tcb' = [_tcb EXCEPT ![g] = TaskOf(o)]
  /\ handle' = [handle EXCEPT ![TaskOf(o)] = g]
  /\ UNCHANGED <<_value, lazies, task>>

\* As if the continuation were the task.
AwaitForTask(o, g) ==
  /\ Executes(o) /\ g \in lazies[o]
  /\ lazies' = [lazies EXCEPT ![o] = @ \ {g}]
  /\ awaited' = [awaited EXCEPT ![o] = g]
  /\ frame' = [frame EXCEPT ![g] = "active"]
  /\ _continuation' = [_continuation EXCEPT ![g] = TaskOf(o)]
  /\ _tcb' = [_tcb EXCEPT ![g] = TaskOf(o)]
  /\ handle' = [handle EXCEPT ![TaskOf(o)] = g]
  /\ UNCHANGED <<_value, task>>

\* coAwait(), then ValueAwaiter::await_suspend(): control goes to g.
Await(o, g) ==
  /\ Executes(o) /\ g \in lazies[o]
  /\ lazies' = [lazies EXCEPT ![o] = @ \ {g}]
  /\ awaited' = [awaited EXCEPT ![o] = g]
  /\ frame' = [frame EXCEPT ![g] = "active"]
  /\ _continuation' = [_continuation EXCEPT ![g] = o]
  /\ _tcb' = [_tcb EXCEPT ![g] = TaskOf(o)]
  /\ handle' = [handle EXCEPT ![TaskOf(o)] = g]
  /\ UNCHANGED <<_value, task>>

\* The body of f has ended: its locals go, its result is kept in the promise,
\* and FinalAwaiter transfers control to the continuation.
Ends(f, result, gone) ==
  /\ frame' = [g \in Frames |-> CASE g = f -> "final"
                                  [] g \in lazies[f] \cup gone -> "free"
                                  [] OTHER -> frame[g]]
  /\ lazies' = [lazies EXCEPT ![f] = {}]
  /\ _value' = [g \in Frames |-> CASE g = f -> result
                                   [] g \in gone -> "none"
                                   [] OTHER -> _value[g]]
  /\ Destroyed(gone)
  /\ handle' = [handle EXCEPT ![_tcb[f]] = _continuation[f]]
  /\ UNCHANGED task

\* co_return, or an exception that unhandled_exception() stores.
End(f) ==
  /\ Executes(f) /\ \E result \in {"value", "exception"} : Ends(f, result, {})
  /\ UNCHANGED awaited

\* ValueAwaiter::await_resume(): what g has left is taken, and g destroyed, by
\* destroy() after a value and by ~ValueAwaiter() after an exception.
Resumed(o, g) == awaited[o] = g /\ frame[g] = "final" /\ \E t \in Tasks : Runs(t, o)

TakeResult(f, g) ==
  /\ Resumed(f, g)
  /\ awaited' = [awaited EXCEPT ![f] = None]
  /\ frame' = [frame EXCEPT ![g] = "free"]
  /\ _value' = [_value EXCEPT ![g] = "none"]
  /\ Destroyed({g})
  /\ UNCHANGED <<lazies, task, handle>>

\* The exception goes on through f.
PassException(f, g) ==
  /\ Resumed(f, g) /\ _value[g] = "exception"
  /\ awaited' = [awaited EXCEPT ![f] = None]
  /\ Ends(f, "exception", {g})

\* A task drops an exception, and its frame goes at its end.
TaskEnds(t, g) ==
  /\ Resumed(t, g)
  /\ awaited' = [awaited EXCEPT ![t] = None]
  /\ frame' = [h \in Frames |-> IF h \in {g} \cup lazies[t] THEN "free" ELSE frame[h]]
  /\ _value' = [_value EXCEPT ![g] = "none"]
  /\ Destroyed({g})
  /\ lazies' = [lazies EXCEPT ![t] = {}]
  /\ task' = [task EXCEPT ![t] = "gone"]
  /\ UNCHANGED handle

FramesNext ==
  \/ \E t \in Tasks : ResumeTask(t) \/ Suspend(t) \/ Wake(t)
  \/ \E g \in Frames :
       \/ End(g)
       \/ \E t \in Tasks : MakeTask(t, g) \/ TaskEnds(t, g)
       \/ \E f \in Frames :
            MakeLazy(f, g) \/ DropLazy(f, g) \/ TakeResult(f, g) \/ PassException(f, g)
       \/ \E o \in Owners : Await(o, g)

FramesSpec == FramesInit /\ [][FramesNext]_frameVars
-----------------------------------------------------------------------------
FramesTypeOK ==
  /\ frame \in [Frames -> {"free", "created", "active", "final"}]
  /\ _continuation \in [Frames -> Owners \cup {None}] /\ _tcb \in [Frames -> Tasks \cup {None}]
  /\ _value \in [Frames -> {"none", "value", "exception"}]
  /\ lazies \in [Owners -> SUBSET Frames] /\ awaited \in [Owners -> Frames \cup {None}]
  /\ task \in [Tasks -> {"none", "ready", "running", "suspended", "gone"}]
  /\ handle \in [Tasks -> Owners]

\* Values have their types.  Every frame that exists is held by exactly one
\* Lazy or ValueAwaiter, in a frame that exists itself, and no handle is left
\* to a frame that was destroyed: no frame is leaked, destroyed twice or used
\* after it was destroyed, whether it was awaited, dropped or ended by an
\* exception.  A frame that has started knows its task and its caller.
Exists(o) == IF o \in Tasks THEN task[o] \notin {"none", "gone"} ELSE frame[o] # "free"
FrameHasOneOwner ==
  /\ FramesTypeOK
  /\ \A g \in Frames :
       LET owners == {o \in Owners : g \in lazies[o]} \cup {o \in Owners : awaited[o] = g}
       IN  IF Exists(g) THEN \E o \in Owners : owners = {o} /\ Exists(o) ELSE owners = {}
  /\ \A o \in Owners : awaited[o] \notin lazies[o]
  /\ \A t \in Tasks : Exists(t) => Exists(handle[t])
  /\ \A g \in Frames : frame[g] = "active" =>
       /\ awaited[_continuation[g]] = g
       /\ TaskOf(_continuation[g]) = _tcb[g]

\* Frames implement a stack of calls: its activations are found by following
\* the continuations from the frame by which the task is resumed.
Stack(t) ==
  LET up[n \in 0..Cardinality(Frames)] ==
        IF n = 0 THEN <<handle[t]>>
        ELSE LET f == Head(up[n - 1])
             IN  IF f \in Frames THEN <<_continuation[f]>> \o up[n - 1] ELSE up[n - 1]
  IN  Tail(up[Cardinality(Frames)])
Handed(t) ==
  LET g == awaited[handle[t]]
  IN  IF g # None /\ frame[g] = "final" THEN _value[g] ELSE "none"
Calls == INSTANCE CallStack WITH
  stack <- [t \in Tasks |-> Stack(t)], outcome <- [t \in Tasks |-> Handed(t)]
CallsNest == Calls!Spec
=============================================================================
