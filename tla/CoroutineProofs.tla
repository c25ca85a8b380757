-------------------------- MODULE CoroutineProofs --------------------------
(***************************************************************************)
(* Safety of the two modules about the coroutines of the library: the      *)
(* frames of Lazy and Task, for any number of tasks and frames, and a      *)
(* future whose kernel has one CPU, for any set of getters.                *)
(***************************************************************************)
EXTENDS LazyFrames, WaitFlag, FiniteSetTheorems, TLAPS
-----------------------------------------------------------------------------
(* LazyFrames: every coroutine frame has exactly one owner.                *)

Holds(o, g) == g \in lazies[o] \/ awaited[o] = g

\* A holder and what it holds exist.
HeldInv ==
  \A o \in Owners, g \in Frames : Holds(o, g) => Exists(o) /\ Exists(g)

\* Nobody else holds it.
OneInv ==
  \A o, p \in Owners, g \in Frames : Holds(o, g) /\ Holds(p, g) => o = p

\* Whatever exists is held.
KeptInv == \A g \in Frames : frame[g] # "free" => \E o \in Owners : Holds(o, g)

\* A Lazy holds a frame that has not started, a ValueAwaiter one that has.
KindInv ==
  \A o \in Owners, g \in Frames :
    /\ g \in lazies[o] => frame[g] = "created"
    /\ awaited[o] = g => frame[g] \in {"active", "final"}

\* Only a frame whose body has begun and not ended holds anything.
IdleInv == \A f \in Frames : frame[f] # "active" => lazies[f] = {} /\ awaited[f] = None

\* A task is resumed at its own frame or at one that works for it.
TopInv ==
  \A t \in Tasks :
    /\ \/ handle[t] = t
       \/ handle[t] \in Frames /\ frame[handle[t]] = "active" /\ _tcb[handle[t]] = t
    /\ ~Exists(t) => handle[t] = t

\* An active frame is awaited by its continuation and works for the same task.
CallInv ==
  \A g \in Frames : frame[g] = "active" =>
    /\ _continuation[g] \in Owners /\ awaited[_continuation[g]] = g
    /\ _tcb[g] \in Tasks /\ TaskOf(_continuation[g]) = _tcb[g]

FramesInv == /\ FramesTypeOK
        /\ HeldInv /\ OneInv /\ KeptInv /\ KindInv /\ IdleInv /\ TopInv /\ CallInv
-----------------------------------------------------------------------------
\* At the start no frame exists.
THEOREM InitEstablishes == FramesInit => FramesInv
<1>1. FramesInit => FramesTypeOK
  BY FramesAssumption DEF FramesInit, FramesTypeOK, Owners
<1>2. FramesInit => HeldInv /\ OneInv /\ KeptInv /\ KindInv /\ IdleInv /\ TopInv /\ CallInv
  BY FramesAssumption DEF FramesInit, Owners, Holds, Exists, HeldInv, OneInv, KeptInv, KindInv,
     IdleInv, TopInv, CallInv
<1>3. QED
  BY <1>1, <1>2 DEF FramesInv

\* Who runs is the frame of a task or an active frame that works for it.
LEMMA RunningFacts ==
  ASSUME FramesInv, NEW t \in Tasks, NEW o \in Owners, Runs(t, o)
  PROVE  /\ TaskOf(o) = t /\ handle[t] = o /\ task[t] = "running" /\ Exists(t)
         /\ o \in Tasks => o = t
         /\ o \in Frames => frame[o] = "active" /\ _tcb[o] = t
  BY FramesAssumption DEF FramesInv, FramesTypeOK, TopInv, Runs, Owners, TaskOf, Exists

\* The continuation of an active frame is a task or an active frame.
LEMMA ContinuationFacts ==
  ASSUME FramesInv, NEW f \in Frames, frame[f] = "active"
  PROVE  /\ _continuation[f] \in Owners /\ awaited[_continuation[f]] = f
         /\ _tcb[f] \in Tasks
         /\ _continuation[f] \in Tasks => _continuation[f] = _tcb[f]
         /\ _continuation[f] \in Frames =>
              frame[_continuation[f]] = "active" /\ _tcb[_continuation[f]] = _tcb[f]
  BY FramesAssumption DEF FramesInv, FramesTypeOK, CallInv, IdleInv, TaskOf, Owners

\* Nothing changes but whether a task is ready, running or suspended.
LEMMA TaskMoves ==
  ASSUME FramesInv, NEW t \in Tasks, UNCHANGED <<frame, promises, holders, handle>>,
         Exists(t), NEW to \in {"ready", "running", "suspended"},
         task' = [task EXCEPT ![t] = to]
  PROVE  FramesInv'
<1> USE FramesAssumption DEF promises, holders
<1>1. \A o \in Owners : Exists(o)' <=> Exists(o)
  BY DEF FramesInv, FramesTypeOK, Exists, Owners
<1>2. FramesTypeOK'
  BY DEF FramesInv, FramesTypeOK
<1>3. HeldInv' /\ OneInv' /\ KeptInv'
  BY <1>1 DEF FramesInv, HeldInv, OneInv, KeptInv, Holds, Owners
<1>4. KindInv' /\ IdleInv' /\ CallInv'
  BY DEF FramesInv, KindInv, IdleInv, CallInv, TaskOf
<1>5. TopInv'
  BY <1>1 DEF FramesInv, TopInv, Owners
<1>6. QED
  BY <1>2, <1>3, <1>4, <1>5 DEF FramesInv

\* A task is the first holder of its frame: a task that does not exist holds none.
LEMMA MakeTaskKeeps ==
  ASSUME FramesInv, NEW t \in Tasks, NEW g \in Frames, MakeTask(t, g)
  PROVE  FramesInv'
<1> USE FramesAssumption DEF Owners
<1>1. FramesTypeOK'
  BY DEF FramesInv, MakeTask, promises, FramesTypeOK, CallInv
<1>2. HeldInv'
  BY DEF FramesInv, MakeTask, promises, FramesTypeOK, HeldInv, OneInv, KindInv,
     IdleInv, Holds, Exists
<1>3. OneInv'
  BY DEF FramesInv, MakeTask, promises, FramesTypeOK, HeldInv, OneInv, KindInv,
     IdleInv, Holds, Exists
<1>4. KeptInv'
  BY DEF FramesInv, MakeTask, FramesTypeOK, KeptInv, HeldInv, KindInv, Holds, Exists
<1>5. KindInv'
  BY DEF FramesInv, MakeTask, promises, FramesTypeOK, KindInv, OneInv, HeldInv,
     IdleInv, Holds, Exists
<1>6. IdleInv'
  BY DEF FramesInv, MakeTask, promises, FramesTypeOK, IdleInv, KindInv
<1>7. TopInv'
  BY DEF FramesInv, MakeTask, promises, FramesTypeOK, TopInv, CallInv, KindInv,
     IdleInv, HeldInv, Holds, Exists, TaskOf
<1>8. CallInv'
  BY DEF FramesInv, MakeTask, promises, FramesTypeOK, CallInv, KindInv, IdleInv,
     TopInv, TaskOf
<1>9. QED
  BY <1>1, <1>2, <1>3, <1>4, <1>5, <1>6, <1>7, <1>8 DEF FramesInv

\* A frame that has just been made has its caller for a holder.
LEMMA MakeLazyKeeps ==
  ASSUME FramesInv, NEW f \in Frames, NEW g \in Frames, MakeLazy(f, g)
  PROVE  FramesInv'
<1> USE FramesAssumption DEF Owners
<1>task. PICK u \in Tasks : Runs(u, f)
  BY DEF MakeLazy, Executes
<1>running. /\ TaskOf(f) = u /\ handle[u] = f /\ task[u] = "running" /\ Exists(u)
            /\ f \in Tasks => f = u
            /\ f \in Frames => frame[f] = "active" /\ _tcb[f] = u
  BY <1>task, RunningFacts
<1>1. FramesTypeOK'
  BY <1>running DEF FramesInv, MakeLazy, promises, Executes, FramesTypeOK, CallInv
<1>2. HeldInv'
  BY <1>running DEF FramesInv, MakeLazy, promises, Executes, FramesTypeOK, HeldInv, OneInv,
     KindInv, IdleInv, Holds, Exists
<1>3. OneInv'
  BY <1>running DEF FramesInv, MakeLazy, promises, Executes, FramesTypeOK, HeldInv, OneInv,
     KindInv, IdleInv, Holds, Exists
<1>4. KeptInv'
  BY <1>running DEF FramesInv, MakeLazy, promises, Executes, FramesTypeOK, KeptInv,
     KindInv, Holds
<1>5. KindInv'
  BY <1>running DEF FramesInv, MakeLazy, promises, Executes, FramesTypeOK, KindInv, OneInv,
     HeldInv, IdleInv, Holds, Exists
<1>6. IdleInv'
  BY <1>running DEF FramesInv, MakeLazy, promises, Executes, FramesTypeOK, IdleInv, KindInv
<1>7. TopInv'
  BY <1>running DEF FramesInv, MakeLazy, promises, Executes, FramesTypeOK, TopInv, CallInv,
     KindInv, IdleInv, HeldInv, Holds, Exists, TaskOf
<1>8. CallInv'
  BY <1>running DEF FramesInv, MakeLazy, promises, Executes, FramesTypeOK, CallInv,
     KindInv, IdleInv, TopInv, TaskOf
<1>9. QED
  BY <1>1, <1>2, <1>3, <1>4, <1>5, <1>6, <1>7, <1>8 DEF FramesInv

\* A dropped Lazy was the only holder of a frame that holds nothing itself.
LEMMA DropLazyKeeps ==
  ASSUME FramesInv, NEW f \in Frames, NEW g \in Frames, DropLazy(f, g)
  PROVE  FramesInv'
<1> USE FramesAssumption DEF Owners
<1>task. PICK u \in Tasks : Runs(u, f)
  BY DEF DropLazy, Executes
<1>running. /\ TaskOf(f) = u /\ handle[u] = f /\ task[u] = "running" /\ Exists(u)
            /\ f \in Tasks => f = u
            /\ f \in Frames => frame[f] = "active" /\ _tcb[f] = u
  BY <1>task, RunningFacts
<1>1. FramesTypeOK'
  BY <1>running DEF FramesInv, DropLazy, promises, Executes, FramesTypeOK, CallInv
<1>2. HeldInv'
  <2> SUFFICES ASSUME NEW o \in Owners, NEW h \in Frames, Holds(o, h)'
               PROVE  Exists(o)' /\ Exists(h)'
    BY DEF HeldInv
  <2>1. Holds(o, h) /\ Holds(f, g) /\ frame[g] = "created"
    BY DEF FramesInv, DropLazy, FramesTypeOK, KindInv, Holds
  <2>2. h # g
    BY <2>1 DEF FramesInv, DropLazy, FramesTypeOK, OneInv, KindInv, Holds
  <2>3. o # g
    BY <2>1 DEF FramesInv, IdleInv, Holds
  <2>4. QED
    BY <2>1, <2>2, <2>3 DEF FramesInv, DropLazy, FramesTypeOK, HeldInv, Exists
<1>3. OneInv'
  BY <1>running DEF FramesInv, DropLazy, promises, Executes, FramesTypeOK, HeldInv, OneInv,
     KindInv, IdleInv, Holds, Exists
<1>4. KeptInv'
  BY <1>running DEF FramesInv, DropLazy, promises, Executes, FramesTypeOK, KeptInv,
     KindInv, Holds
<1>5. KindInv'
  BY <1>running DEF FramesInv, DropLazy, promises, Executes, FramesTypeOK, KindInv, OneInv,
     HeldInv, IdleInv, Holds, Exists
<1>6. IdleInv'
  BY <1>running DEF FramesInv, DropLazy, promises, Executes, FramesTypeOK, IdleInv, KindInv
<1>7. TopInv'
  BY <1>running DEF FramesInv, DropLazy, promises, Executes, FramesTypeOK, TopInv, CallInv,
     KindInv, IdleInv, HeldInv, Holds, Exists, TaskOf
<1>8. CallInv'
  BY <1>running DEF FramesInv, DropLazy, promises, Executes, FramesTypeOK, CallInv,
     KindInv, IdleInv, TopInv, TaskOf
<1>9. QED
  BY <1>1, <1>2, <1>3, <1>4, <1>5, <1>6, <1>7, <1>8 DEF FramesInv

\* co_await moves the handle within one holder, and control to the frame.
LEMMA AwaitKeeps ==
  ASSUME FramesInv, NEW o \in Owners, NEW g \in Frames, Await(o, g)
  PROVE  FramesInv'
<1> USE FramesAssumption DEF Owners
<1>task. PICK u \in Tasks : Runs(u, o)
  BY DEF Await, Executes
<1>running. /\ TaskOf(o) = u /\ handle[u] = o /\ task[u] = "running" /\ Exists(u)
            /\ o \in Tasks => o = u
            /\ o \in Frames => frame[o] = "active" /\ _tcb[o] = u
  BY <1>task, RunningFacts
<1>1. FramesTypeOK'
  BY <1>running DEF FramesInv, Await, Executes, FramesTypeOK, CallInv
<1>2. HeldInv'
  BY <1>running DEF FramesInv, Await, Executes, FramesTypeOK, HeldInv, OneInv, KindInv,
     IdleInv, Holds, Exists
<1>3. OneInv'
  BY <1>running DEF FramesInv, Await, Executes, FramesTypeOK, HeldInv, OneInv, KindInv,
     IdleInv, Holds, Exists
<1>4. KeptInv'
  BY <1>running DEF FramesInv, Await, Executes, FramesTypeOK, KeptInv, KindInv, Holds
<1>5. KindInv'
  BY <1>running DEF FramesInv, Await, Executes, FramesTypeOK, KindInv, OneInv, HeldInv,
     IdleInv, Holds, Exists
<1>6. IdleInv'
  BY <1>running DEF FramesInv, Await, Executes, FramesTypeOK, IdleInv, KindInv
<1>7. TopInv'
  BY <1>running DEF FramesInv, Await, Executes, FramesTypeOK, TopInv, CallInv, KindInv,
     IdleInv, HeldInv, Holds, Exists, TaskOf
<1>8. CallInv'
  BY <1>running DEF FramesInv, Await, Executes, FramesTypeOK, CallInv, KindInv, IdleInv,
     TopInv, TaskOf
<1>9. QED
  BY <1>1, <1>2, <1>3, <1>4, <1>5, <1>6, <1>7, <1>8 DEF FramesInv

\* A frame that ends drops what it holds, and its continuation, an active frame of
\* the same task or the task itself, is next.
LEMMA EndKeeps ==
  ASSUME FramesInv, NEW f \in Frames, End(f)
  PROVE  FramesInv'
<1> USE FramesAssumption DEF Owners
<1>task. PICK u \in Tasks : Runs(u, f)
  BY DEF End, Executes
<1>running. /\ TaskOf(f) = u /\ handle[u] = f /\ task[u] = "running" /\ Exists(u)
            /\ f \in Tasks => f = u
            /\ f \in Frames => frame[f] = "active" /\ _tcb[f] = u
  BY <1>task, RunningFacts
<1>caller. /\ _continuation[f] \in Owners /\ awaited[_continuation[f]] = f
           /\ _continuation[f] \in Tasks => _continuation[f] = u
           /\ _continuation[f] \in Frames =>
                frame[_continuation[f]] = "active" /\ _tcb[_continuation[f]] = u
  BY <1>running, ContinuationFacts
<1>1. FramesTypeOK'
  BY <1>running, <1>caller DEF FramesInv, End, Ends, Destroyed, Executes, FramesTypeOK, CallInv
<1>2. HeldInv'
  BY <1>running, <1>caller DEF FramesInv, End, Ends, Destroyed, Executes, FramesTypeOK, HeldInv,
     OneInv, KindInv, IdleInv, Holds, Exists
<1>3. OneInv'
  BY <1>running, <1>caller DEF FramesInv, End, Ends, Destroyed, Executes, FramesTypeOK, HeldInv,
     OneInv, KindInv, IdleInv, Holds, Exists
<1>4. KeptInv'
  BY <1>running, <1>caller DEF FramesInv, End, Ends, Destroyed, Executes, FramesTypeOK, KeptInv,
     KindInv, Holds
<1>5. KindInv'
  BY <1>running, <1>caller DEF FramesInv, End, Ends, Destroyed, Executes, FramesTypeOK, KindInv,
     OneInv, HeldInv, IdleInv, Holds, Exists
<1>6. IdleInv'
  BY <1>running, <1>caller DEF FramesInv, End, Ends, Destroyed, Executes, FramesTypeOK, IdleInv,
     KindInv
<1>7. TopInv'
  BY <1>running, <1>caller DEF FramesInv, End, Ends, Destroyed, Executes, FramesTypeOK, TopInv,
     CallInv, KindInv, IdleInv, HeldInv, Holds, Exists, TaskOf
<1>8. CallInv'
  BY <1>running, <1>caller DEF FramesInv, End, Ends, Destroyed, Executes, FramesTypeOK, CallInv,
     KindInv, IdleInv, TopInv, TaskOf
<1>9. QED
  BY <1>1, <1>2, <1>3, <1>4, <1>5, <1>6, <1>7, <1>8 DEF FramesInv

\* The frame whose result is taken is held by nobody else and awaits nothing.
LEMMA TakeResultKeeps ==
  ASSUME FramesInv, NEW f \in Frames, NEW g \in Frames, TakeResult(f, g)
  PROVE  FramesInv'
<1> USE FramesAssumption DEF Owners
<1>task. PICK u \in Tasks : Runs(u, f)
  BY DEF TakeResult, Resumed
<1>running. /\ TaskOf(f) = u /\ handle[u] = f /\ task[u] = "running" /\ Exists(u)
            /\ f \in Tasks => f = u
            /\ f \in Frames => frame[f] = "active" /\ _tcb[f] = u
  BY <1>task, RunningFacts
<1>1. FramesTypeOK'
  BY <1>running DEF FramesInv, TakeResult, Destroyed, Resumed, FramesTypeOK, CallInv
<1>2. HeldInv'
  BY <1>running DEF FramesInv, TakeResult, Destroyed, Resumed, FramesTypeOK, HeldInv,
     OneInv, KindInv, IdleInv, Holds, Exists
<1>3. OneInv'
  BY <1>running DEF FramesInv, TakeResult, Destroyed, Resumed, FramesTypeOK, HeldInv,
     OneInv, KindInv, IdleInv, Holds, Exists
<1>4. KeptInv'
  BY <1>running DEF FramesInv, TakeResult, Destroyed, Resumed, FramesTypeOK, KeptInv,
     KindInv, Holds
<1>5. KindInv'
  BY <1>running DEF FramesInv, TakeResult, Destroyed, Resumed, FramesTypeOK, KindInv,
     OneInv, HeldInv, IdleInv, Holds, Exists
<1>6. IdleInv'
  BY <1>running DEF FramesInv, TakeResult, Destroyed, Resumed, FramesTypeOK, IdleInv,
     KindInv
<1>7. TopInv'
  BY <1>running DEF FramesInv, TakeResult, Destroyed, Resumed, FramesTypeOK, TopInv,
     CallInv, KindInv, IdleInv, HeldInv, Holds, Exists, TaskOf
<1>8. CallInv'
  BY <1>running DEF FramesInv, TakeResult, Destroyed, Resumed, FramesTypeOK, CallInv,
     KindInv, IdleInv, TopInv, TaskOf
<1>9. QED
  BY <1>1, <1>2, <1>3, <1>4, <1>5, <1>6, <1>7, <1>8 DEF FramesInv

\* As TakeResult for g and then as End for f.
LEMMA PassExceptionKeeps ==
  ASSUME FramesInv, NEW f \in Frames, NEW g \in Frames, PassException(f, g)
  PROVE  FramesInv'
<1> USE FramesAssumption DEF Owners
<1>task. PICK u \in Tasks : Runs(u, f)
  BY DEF PassException, Resumed
<1>running. /\ TaskOf(f) = u /\ handle[u] = f /\ task[u] = "running" /\ Exists(u)
            /\ f \in Tasks => f = u
            /\ f \in Frames => frame[f] = "active" /\ _tcb[f] = u
  BY <1>task, RunningFacts
<1>caller. /\ _continuation[f] \in Owners /\ awaited[_continuation[f]] = f
           /\ _continuation[f] \in Tasks => _continuation[f] = u
           /\ _continuation[f] \in Frames =>
                frame[_continuation[f]] = "active" /\ _tcb[_continuation[f]] = u
  BY <1>running, ContinuationFacts
<1>1. FramesTypeOK'
  BY <1>running, <1>caller DEF FramesInv, PassException, Ends, Destroyed, Resumed, FramesTypeOK,
     CallInv
<1>2. HeldInv'
  BY <1>running, <1>caller DEF FramesInv, PassException, Ends, Destroyed, Resumed, FramesTypeOK,
     HeldInv, OneInv, KindInv, IdleInv, Holds, Exists
<1>3. OneInv'
  BY <1>running, <1>caller DEF FramesInv, PassException, Ends, Destroyed, Resumed, FramesTypeOK,
     HeldInv, OneInv, KindInv, IdleInv, Holds, Exists
<1>4. KeptInv'
  BY <1>running, <1>caller DEF FramesInv, PassException, Ends, Destroyed, Resumed, FramesTypeOK,
     KeptInv, KindInv, Holds
<1>5. KindInv'
  BY <1>running, <1>caller DEF FramesInv, PassException, Ends, Destroyed, Resumed, FramesTypeOK,
     KindInv, OneInv, HeldInv, IdleInv, Holds, Exists
<1>6. IdleInv'
  BY <1>running, <1>caller DEF FramesInv, PassException, Ends, Destroyed, Resumed, FramesTypeOK,
     IdleInv, KindInv
<1>7. TopInv'
  BY <1>running, <1>caller DEF FramesInv, PassException, Ends, Destroyed, Resumed, FramesTypeOK,
     TopInv, CallInv, KindInv, IdleInv, HeldInv, Holds, Exists, TaskOf
<1>8. CallInv'
  BY <1>running, <1>caller DEF FramesInv, PassException, Ends, Destroyed, Resumed, FramesTypeOK,
     CallInv, KindInv, IdleInv, TopInv, TaskOf
<1>9. QED
  BY <1>1, <1>2, <1>3, <1>4, <1>5, <1>6, <1>7, <1>8 DEF FramesInv

\* What a task holds goes with it.
LEMMA TaskEndsKeeps ==
  ASSUME FramesInv, NEW t \in Tasks, NEW g \in Frames, TaskEnds(t, g)
  PROVE  FramesInv'
<1> USE FramesAssumption DEF Owners
<1>task. PICK u \in Tasks : Runs(u, t)
  BY DEF TaskEnds, Resumed
<1>running. /\ TaskOf(t) = u /\ handle[u] = t /\ task[u] = "running" /\ Exists(u)
            /\ t \in Tasks => t = u
            /\ t \in Frames => frame[t] = "active" /\ _tcb[t] = u
  BY <1>task, RunningFacts
<1>1. FramesTypeOK'
  BY <1>running DEF FramesInv, TaskEnds, Destroyed, Resumed, FramesTypeOK, CallInv
<1>2. HeldInv'
  <2> SUFFICES ASSUME NEW o \in Owners, NEW h \in Frames, Holds(o, h)'
               PROVE  Exists(o)' /\ Exists(h)'
    BY DEF HeldInv
  <2>1. o # t /\ Holds(o, h)
    BY DEF FramesInv, TaskEnds, FramesTypeOK, Holds
  <2>2. Holds(t, g) /\ \A i \in lazies[t] : Holds(t, i)
    BY DEF TaskEnds, Resumed, Holds
  <2>3. h # g /\ h \notin lazies[t]
    BY <2>1, <2>2 DEF FramesInv, OneInv
  <2>4. \A i \in {g} \cup lazies[t] : i \in Frames /\ frame[i] # "active"
    BY DEF FramesInv, TaskEnds, Resumed, FramesTypeOK, KindInv
  <2>5. o \notin {g} \cup lazies[t]
    BY <2>1, <2>4 DEF FramesInv, IdleInv, Holds
  <2>6. QED
    BY <2>1, <2>3, <2>5 DEF FramesInv, TaskEnds, FramesTypeOK, HeldInv, Exists
<1>3. OneInv'
  BY <1>running DEF FramesInv, TaskEnds, Destroyed, Resumed, FramesTypeOK, HeldInv, OneInv,
     KindInv, IdleInv, Holds, Exists
<1>4. KeptInv'
  BY <1>running DEF FramesInv, TaskEnds, Destroyed, Resumed, FramesTypeOK, KeptInv,
     KindInv, Holds
<1>5. KindInv'
  BY <1>running DEF FramesInv, TaskEnds, Destroyed, Resumed, FramesTypeOK, KindInv, OneInv,
     HeldInv, IdleInv, Holds, Exists
<1>6. IdleInv'
  BY <1>running DEF FramesInv, TaskEnds, Destroyed, Resumed, FramesTypeOK, IdleInv, KindInv
<1>7. TopInv'
  BY <1>running DEF FramesInv, TaskEnds, Destroyed, Resumed, FramesTypeOK, TopInv, CallInv,
     KindInv, IdleInv, HeldInv, Holds, Exists, TaskOf
<1>8. CallInv'
  BY <1>running DEF FramesInv, TaskEnds, Destroyed, Resumed, FramesTypeOK, CallInv,
     KindInv, IdleInv, TopInv, TaskOf
<1>9. QED
  BY <1>1, <1>2, <1>3, <1>4, <1>5, <1>6, <1>7, <1>8 DEF FramesInv

\* FramesInv is inductive: every action of FramesNext preserves it.
THEOREM StepKeeps == FramesInv /\ [FramesNext]_frameVars => FramesInv'
<1> SUFFICES ASSUME FramesInv, [FramesNext]_frameVars PROVE FramesInv'
  OBVIOUS
<1>1. ASSUME NEW t \in Tasks, ResumeTask(t) PROVE FramesInv'
  BY <1>1, TaskMoves DEF ResumeTask, Exists
<1>2. ASSUME NEW t \in Tasks, Suspend(t) PROVE FramesInv'
  BY <1>2, TaskMoves DEF Suspend, Exists
<1>3. ASSUME NEW t \in Tasks, Wake(t) PROVE FramesInv'
  BY <1>3, TaskMoves DEF Wake, Exists
<1>4. CASE UNCHANGED frameVars
  BY <1>4 DEF frameVars, promises, holders, FramesInv, FramesTypeOK, HeldInv, OneInv, KeptInv, KindInv,
     IdleInv, TopInv, CallInv, Holds, Exists, TaskOf
<1>5. QED
  BY <1>1, <1>2, <1>3, <1>4, MakeTaskKeeps, MakeLazyKeeps, DropLazyKeeps, AwaitKeeps,
     EndKeeps, TakeResultKeeps, PassExceptionKeeps, TaskEndsKeeps DEF FramesNext

\* The invariant gives the property.
LEMMA OwnedByOne == FramesInv => FrameHasOneOwner
<1> SUFFICES ASSUME FramesInv PROVE FrameHasOneOwner
  OBVIOUS
<1> USE FramesAssumption
<1>1. FramesTypeOK
  BY DEF FramesInv
<1>2. ASSUME NEW g \in Frames
      PROVE  LET owners == {o \in Owners : g \in lazies[o]} \cup {o \in Owners : awaited[o] = g}
             IN  IF Exists(g) THEN \E o \in Owners : owners = {o} /\ Exists(o) ELSE owners = {}
  <2> DEFINE owners == {o \in Owners : g \in lazies[o]} \cup {o \in Owners : awaited[o] = g}
  <2>1. \A o : o \in owners <=> o \in Owners /\ Holds(o, g)
    BY DEF Holds
  <2>2. CASE Exists(g)
    <3>1. PICK o \in Owners : Holds(o, g)
      BY <2>2 DEF FramesInv, KeptInv, Exists
    <3>2. Exists(o) /\ \A p \in Owners : Holds(p, g) => p = o
      BY <3>1 DEF FramesInv, HeldInv, OneInv
    <3>3. owners = {o}
      BY <2>1, <3>1, <3>2
    <3>4. QED
      BY <2>2, <3>2, <3>3
  <2>3. CASE ~Exists(g)
    <3>1. owners = {}
      BY <2>1, <2>3 DEF FramesInv, HeldInv
    <3>2. QED
      BY <2>3, <3>1
  <2>4. QED
    BY <2>2, <2>3
<1>3. \A o \in Owners : awaited[o] \notin lazies[o]
  BY DEF FramesInv, FramesTypeOK, KindInv
<1>4. \A t \in Tasks : Exists(t) => Exists(handle[t])
  BY DEF FramesInv, TopInv, Exists
<1>5. \A g \in Frames : frame[g] = "active" =>
        awaited[_continuation[g]] = g /\ TaskOf(_continuation[g]) = _tcb[g]
  BY DEF FramesInv, CallInv
<1>6. QED
  BY <1>1, <1>2, <1>3, <1>4, <1>5 DEF FrameHasOneOwner

\* Every frame of a coroutine that exists has exactly one owner, a Lazy or a
\* ValueAwaiter, whatever is awaited, dropped or thrown: none is leaked,
\* destroyed twice or used after it was destroyed.
THEOREM FramesAreOwned == FramesSpec => []FrameHasOneOwner
<1>1. FramesSpec => []FramesInv
  BY InitEstablishes, StepKeeps, PTL DEF FramesSpec
<1>2. QED
  BY <1>1, OwnedByOne, PTL
-----------------------------------------------------------------------------
(***************************************************************************)
(* Safety of a future whose kernel has one CPU, for any set of getters.    *)
(*                                                                         *)
(* What protects wait() and notify(), whose lock guard locks nothing, is   *)
(* that one CPU runs a coroutine from one suspension to the next: whoever  *)
(* is in the middle of either is the only one that runs (CpuInv).  So a    *)
(* getter that is about to return from wait() sees the flag that it        *)
(* tested, and stands in waitQ exactly if that was FALSE (FlagInv); what   *)
(* waits in waitQ is suspended before notify() can take it out (QueueInv); *)
(* and whoever is queued for a CPU has not gone on yet (ReadyInv).         *)
(***************************************************************************)

Active == {"compute", "set", "notify", "test", "push", "return"}

CpuInv ==
  /\ \A c \in Coros : c \in onCpu <=> pc[c] \in Active
  /\ \A c, d \in onCpu : c = d

\* The setter and the getters run different code.
RoleInv ==
  /\ pc[Setter] \in {"start", "compute", "set", "notify", "end", "thrown"}
  /\ \A c \in Getters : pc[c] \in {"start", "test", "push", "return", "suspended", "end"}

InQueue(c) == \E i \in 1..Len(waitQ) : waitQ[i] = c

FlagInv ==
  /\ pc[Setter] = "set" => value
  /\ pc[Setter] = "notify" => flag
  /\ flag => value
  /\ \A c \in Getters : /\ pc[c] = "push" => ~flag /\ ~old[c]
                        /\ pc[c] = "return" => old[c] = flag /\ (InQueue(c) <=> ~flag)

QueueInv ==
  /\ \A i \in 1..Len(waitQ) : pc[waitQ[i]] \in {"return", "suspended"}
  /\ \A i, j \in 1..Len(waitQ) : waitQ[i] = waitQ[j] => i = j

ReadyInv ==
  \A c \in ready : \/ pc[c] = "start"
                   \/ pc[c] = "suspended" /\ flag /\ ~InQueue(c)

GoneInv ==
  \A c \in Getters : /\ gone[c] = IF pc[c] = "end" THEN 1 ELSE 0
                     /\ pc[c] = "end" => value

IInv == TypeOK /\ CpuInv /\ RoleInv /\ FlagInv /\ QueueInv /\ ReadyInv /\ GoneInv

\* A CPU takes a coroutine only when none is in the middle of anything.
LEMMA OnlyWhenIdle ==
  ASSUME cpuNum_ = 1, IInv, HasCpu
  PROVE  onCpu = {} /\ \A c \in Coros : pc[c] \notin Active
<1>1. ASSUME NEW c \in onCpu PROVE FALSE
  <2>1. onCpu = {c}
    BY DEF IInv, CpuInv
  <2>2. Cardinality(onCpu) = 1
    BY <2>1, FS_Singleton
  <2>3. QED
    BY <2>2 DEF HasCpu
<1>2. QED
  BY <1>1 DEF IInv, CpuInv

\* Whoever is in the middle of something is alone in that.
LEMMA ActiveAlone ==
  ASSUME IInv, NEW c \in Coros, pc[c] \in Active
  PROVE  c \in onCpu /\ \A d \in Coros : d # c => pc[d] \notin Active /\ d \notin onCpu
BY DEF IInv, CpuInv

\* Before the first step nothing runs and nobody waits.
LEMMA InitIInv == Init => IInv
<1> SUFFICES ASSUME Init PROVE IInv
  OBVIOUS
<1> USE DEF Init
<1>1. TypeOK
  <2>1. {flag, value} \subseteq BOOLEAN
    BY Zenon
  <2>2. waitQ \in Seq(Getters)
    OBVIOUS
  <2>3. gone \in [Coros -> Nat] /\ old \in [Coros -> BOOLEAN]
    BY Zenon, 0 \in Nat
  <2>4. QED
    BY <2>1, <2>2, <2>3 DEF TypeOK
<1>2. CpuInv
  BY DEF CpuInv, Active
<1>3. RoleInv
  BY DEF RoleInv, Coros
<1>4. FlagInv
  BY DEF FlagInv, InQueue, Coros
<1>5. QueueInv
  BY DEF QueueInv, Coros
<1>6. ReadyInv
  BY DEF ReadyInv, InQueue
<1>7. GoneInv
  BY DEF GoneInv, Coros
<1>8. QED
  BY <1>1, <1>2, <1>3, <1>4, <1>5, <1>6, <1>7 DEF IInv

\* A CPU takes a coroutine only when it has finished with the last one.
LEMMA StartIInv ==
  ASSUME cpuNum_ = 1, IInv, NEW c \in Coros, Start(c) PROVE IInv'
<1>1. onCpu = {} /\ \A d \in Coros : pc[d] \notin Active
  BY OnlyWhenIdle DEF Start
<1> USE <1>1 DEF Start, Go, Leave, GoOn, IInv, TypeOK
<1>2. TypeOK'
  OBVIOUS
<1>3. CpuInv'
  BY DEF CpuInv, Active
<1>4. RoleInv'
  BY SetterAssumption DEF RoleInv, Coros
<1>5. FlagInv'
  BY DEF FlagInv, InQueue, Coros
<1>6. QueueInv'
  BY DEF QueueInv, Coros
<1>7. ReadyInv'
  BY DEF ReadyInv, InQueue
<1>8. GoneInv'
  BY DEF GoneInv, Coros
<1>9. QED
  BY <1>2, <1>3, <1>4, <1>5, <1>6, <1>7, <1>8

\* Who is resumed was suspended by wait() and taken out of waitQ by notify().
LEMMA ResumeIInv ==
  ASSUME cpuNum_ = 1, IInv, NEW c \in Coros, Resume(c) PROVE IInv'
<1>1. onCpu = {} /\ \A d \in Coros : pc[d] \notin Active
  BY OnlyWhenIdle DEF Resume
<1> USE <1>1 DEF Resume, Go, Leave, GoOn, IInv, TypeOK
<1>2. c \in Getters /\ pc[c] = "suspended" /\ flag /\ value
  BY DEF ReadyInv, RoleInv, FlagInv, Coros
<1> USE <1>2, SetterAssumption
<1>3. TypeOK'
  OBVIOUS
<1>4. CpuInv'
  BY DEF CpuInv, Active
<1>5. RoleInv'
  BY DEF RoleInv, Coros
<1>6. FlagInv'
  BY DEF FlagInv, InQueue, Coros
<1>7. QueueInv'
  <2>1. \A i \in 1..Len(waitQ) : waitQ[i] \in Getters
    OBVIOUS
  <2>2. \A i \in 1..Len(waitQ) : waitQ[i] # c
    BY DEF ReadyInv, InQueue
  <2>3. \A d \in Getters : d # c => pc'[d] = pc[d]
    BY DEF Coros
  <2>4. QED
    BY <2>1, <2>2, <2>3 DEF QueueInv
<1>8. ReadyInv'
  BY DEF ReadyInv, InQueue
<1>9. GoneInv'
  BY DEF GoneInv, Coros
<1>10. QED
  BY <1>3, <1>4, <1>5, <1>6, <1>7, <1>8, <1>9

\* The setter: the callable, the value, the flag, and the queue one by one.
LEMMA ThrowIInv ==
  ASSUME IInv, NEW c \in Coros, Throw(c) PROVE IInv'
<1>1. c \in onCpu /\ \A d \in Coros : d # c => pc[d] \notin Active /\ d \notin onCpu
  BY ActiveAlone DEF Throw, Active
<1> USE <1>1 DEF Throw, Go, Leave, GoOn, IInv, TypeOK
<1>2. c = Setter
  BY DEF RoleInv, Coros
<1> USE <1>2, SetterAssumption
<1>3. TypeOK'
  OBVIOUS
<1>4. CpuInv'
  BY DEF CpuInv, Active
<1>5. RoleInv'
  BY DEF RoleInv, Coros
<1>6. FlagInv'
  BY DEF FlagInv, InQueue, Coros, Active
<1>7. QueueInv'
  BY DEF QueueInv, Coros
<1>8. ReadyInv'
  BY DEF ReadyInv, InQueue
<1>9. GoneInv'
  BY DEF GoneInv, FlagInv, Coros
<1>10. QED
  BY <1>3, <1>4, <1>5, <1>6, <1>7, <1>8, <1>9

LEMMA StoreValueIInv ==
  ASSUME IInv, NEW c \in Coros, StoreValue(c) PROVE IInv'
<1>1. c \in onCpu /\ \A d \in Coros : d # c => pc[d] \notin Active /\ d \notin onCpu
  BY ActiveAlone DEF StoreValue, Active
<1> USE <1>1 DEF StoreValue, Go, Leave, GoOn, IInv, TypeOK
<1>2. c = Setter
  BY DEF RoleInv, Coros
<1> USE <1>2, SetterAssumption
<1>3. TypeOK'
  OBVIOUS
<1>4. CpuInv'
  BY DEF CpuInv, Active
<1>5. RoleInv'
  BY DEF RoleInv, Coros
<1>6. FlagInv'
  BY DEF FlagInv, InQueue, Coros, Active
<1>7. QueueInv'
  <2>1. \A i \in 1..Len(waitQ) : waitQ[i] \in Getters
    OBVIOUS
  <2>2. \A d \in Getters : pc'[d] = pc[d]
    BY DEF Coros
  <2>3. QED
    BY <2>1, <2>2 DEF QueueInv
<1>8. ReadyInv'
  BY DEF ReadyInv, InQueue
<1>9. GoneInv'
  BY DEF GoneInv, FlagInv, Coros
<1>10. QED
  BY <1>3, <1>4, <1>5, <1>6, <1>7, <1>8, <1>9

LEMMA NotifySetIInv ==
  ASSUME IInv, NEW c \in Coros, NotifySet(c) PROVE IInv'
<1>1. c \in onCpu /\ \A d \in Coros : d # c => pc[d] \notin Active /\ d \notin onCpu
  BY ActiveAlone DEF NotifySet, Active
<1> USE <1>1 DEF NotifySet, Go, Leave, GoOn, IInv, TypeOK
<1>2. c = Setter
  BY DEF RoleInv, Coros
<1> USE <1>2, SetterAssumption
<1>3. TypeOK'
  OBVIOUS
<1>4. CpuInv'
  BY DEF CpuInv, Active
<1>5. RoleInv'
  BY DEF RoleInv, Coros
<1>6. FlagInv'
  BY DEF FlagInv, InQueue, Coros, Active
<1>7. QueueInv'
  <2>1. \A i \in 1..Len(waitQ) : waitQ[i] \in Getters
    OBVIOUS
  <2>2. \A d \in Getters : pc'[d] = pc[d]
    BY DEF Coros
  <2>3. QED
    BY <2>1, <2>2 DEF QueueInv
<1>8. ReadyInv'
  BY DEF ReadyInv, InQueue
<1>9. GoneInv'
  BY DEF GoneInv, FlagInv, Coros
<1>10. QED
  BY <1>3, <1>4, <1>5, <1>6, <1>7, <1>8, <1>9

LEMMA NotifyOneIInv ==
  ASSUME IInv, NEW c \in Coros, NotifyOne(c) PROVE IInv'
<1>1. c \in onCpu /\ \A d \in Coros : d # c => pc[d] \notin Active /\ d \notin onCpu
  BY ActiveAlone DEF NotifyOne, Active
<1> USE <1>1 DEF NotifyOne, Go, Leave, GoOn, IInv, TypeOK
<1>2. c = Setter
  BY DEF RoleInv, Coros
<1> USE <1>2, SetterAssumption
<1>3. /\ Head(waitQ) = waitQ[1] /\ Head(waitQ) \in Getters
      /\ Tail(waitQ) \in Seq(Getters)
      /\ Len(waitQ) \in Nat /\ Len(waitQ) >= 1
      /\ Len(waitQ') = Len(waitQ) - 1
      /\ \A i \in 1..Len(waitQ') : waitQ'[i] = waitQ[i + 1]
  OBVIOUS
<1>4. \A d : InQueue(d)' => InQueue(d)
  BY <1>3 DEF InQueue
<1>5. \A d : d = Head(waitQ) => pc[d] = "suspended" /\ ~InQueue(d)'
  <2>1. 1 \in 1..Len(waitQ) /\ waitQ[1] \in Coros /\ pc[waitQ[1]] # "return"
    BY <1>3 DEF Coros, Active
  <2>2. pc[waitQ[1]] = "suspended"
    BY <2>1 DEF QueueInv
  <2>3. \A i \in 1..Len(waitQ') : i + 1 \in 1..Len(waitQ) /\ waitQ[i + 1] # waitQ[1]
    BY <1>3 DEF QueueInv
  <2>4. QED
    BY <1>3, <2>2, <2>3 DEF InQueue
<1>6. TypeOK'
  BY <1>3 DEF Coros
<1>7. CpuInv'
  BY DEF CpuInv, Active
<1>8. RoleInv'
  BY DEF RoleInv, Coros
<1>9. FlagInv'
  BY DEF FlagInv, Active, Coros
<1>10. QueueInv'
  BY <1>3 DEF QueueInv
<1>11. ReadyInv'
  BY <1>4, <1>5 DEF ReadyInv, FlagInv
<1>12. GoneInv'
  BY DEF GoneInv, Coros
<1>13. QED
  BY <1>6, <1>7, <1>8, <1>9, <1>10, <1>11, <1>12

LEMMA NotifyEndIInv ==
  ASSUME IInv, NEW c \in Coros, NotifyEnd(c) PROVE IInv'
<1>1. c \in onCpu /\ \A d \in Coros : d # c => pc[d] \notin Active /\ d \notin onCpu
  BY ActiveAlone DEF NotifyEnd, Active
<1> USE <1>1 DEF NotifyEnd, Go, Leave, GoOn, IInv, TypeOK
<1>2. c = Setter
  BY DEF RoleInv, Coros
<1> USE <1>2, SetterAssumption
<1>3. TypeOK'
  OBVIOUS
<1>4. CpuInv'
  BY DEF CpuInv, Active
<1>5. RoleInv'
  BY DEF RoleInv, Coros
<1>6. FlagInv'
  BY DEF FlagInv, InQueue, Coros
<1>7. QueueInv'
  BY DEF QueueInv, Coros
<1>8. ReadyInv'
  BY DEF ReadyInv, InQueue
<1>9. GoneInv'
  BY DEF GoneInv, Coros
<1>10. QED
  BY <1>3, <1>4, <1>5, <1>6, <1>7, <1>8, <1>9

\* A getter: the test of flag, the push, and what wait() answers.
LEMMA WaitTestIInv ==
  ASSUME IInv, NEW c \in Coros, WaitTest(c) PROVE IInv'
<1>1. c \in onCpu /\ \A d \in Coros : d # c => pc[d] \notin Active /\ d \notin onCpu
  BY ActiveAlone DEF WaitTest, Active
<1> USE <1>1 DEF WaitTest, Go, Leave, GoOn, IInv, TypeOK
<1>2. c \in Getters
  BY DEF RoleInv, Coros
<1> USE <1>2, SetterAssumption
<1>3. ~InQueue(c)
  BY DEF QueueInv, InQueue
<1>4. TypeOK'
  OBVIOUS
<1>5. CpuInv'
  BY DEF CpuInv, Active
<1>6. RoleInv'
  BY DEF RoleInv, Coros
<1>7. FlagInv'
  <2>1. \A d \in Coros : InQueue(d)' <=> InQueue(d)
    BY DEF InQueue
  <2>2. pc'[c] = (IF flag THEN "return" ELSE "push") /\ old'[c] = flag
    BY DEF Coros
  <2>3. \A d \in Getters : d # c => pc'[d] \notin Active
    BY DEF Coros
  <2>4. pc'[Setter] = pc[Setter]
    BY DEF Coros
  <2>5. QED
    BY <1>3, <2>1, <2>2, <2>3, <2>4 DEF FlagInv, Active, Coros
<1>8. QueueInv'
  BY DEF QueueInv, Coros
<1>9. ReadyInv'
  BY DEF ReadyInv, InQueue
<1>10. GoneInv'
  BY DEF GoneInv, Coros
<1>11. QED
  BY <1>4, <1>5, <1>6, <1>7, <1>8, <1>9, <1>10

LEMMA WaitPushIInv ==
  ASSUME IInv, NEW c \in Coros, WaitPush(c) PROVE IInv'
<1>1. c \in onCpu /\ \A d \in Coros : d # c => pc[d] \notin Active /\ d \notin onCpu
  BY ActiveAlone DEF WaitPush, Active
<1> USE <1>1 DEF WaitPush, Go, Leave, GoOn, IInv, TypeOK
<1>2. c \in Getters
  BY DEF RoleInv, Coros
<1> USE <1>2, SetterAssumption
<1>3. /\ ~flag /\ ~InQueue(c)
      /\ Len(waitQ) \in Nat /\ Len(waitQ') = Len(waitQ) + 1
      /\ \A i \in 1..Len(waitQ) : waitQ'[i] = waitQ[i]
      /\ waitQ'[Len(waitQ) + 1] = c
  BY DEF FlagInv, QueueInv, InQueue
<1>4. \A d : InQueue(d)' <=> InQueue(d) \/ d = c
  BY <1>3 DEF InQueue
<1>5. TypeOK'
  OBVIOUS
<1>6. CpuInv'
  BY DEF CpuInv, Active
<1>7. RoleInv'
  BY DEF RoleInv, Coros
<1>8. FlagInv'
  <2>1. \A d \in Getters : pc'[d] \in {"push", "return"} => d = c
    BY DEF Coros, Active
  <2>2. pc'[c] = "return" /\ pc'[Setter] = pc[Setter] /\ InQueue(c)'
    BY <1>4 DEF Coros
  <2>3. ~flag => old[c] = flag
    BY DEF FlagInv
  <2>4. QED
    BY <1>3, <2>1, <2>2, <2>3 DEF FlagInv
<1>9. QueueInv'
  <2>1. \A i \in 1..Len(waitQ) : waitQ[i] \in Getters /\ waitQ[i] # c
    BY DEF QueueInv
  <2>2. pc'[c] = "return" /\ \A d \in Getters : d # c => pc'[d] = pc[d]
    BY DEF Coros
  <2>3. \A i \in 1..Len(waitQ') : i \in 1..Len(waitQ) \/ i = Len(waitQ) + 1
    BY <1>3
  <2>4. \A i \in 1..Len(waitQ') : pc'[waitQ'[i]] \in {"return", "suspended"}
    BY <1>3, <2>1, <2>2, <2>3 DEF QueueInv
  <2>5. \A i, j \in 1..Len(waitQ') : waitQ'[i] = waitQ'[j] => i = j
    BY <1>3, <2>1, <2>3 DEF QueueInv
  <2>6. QED
    BY <2>4, <2>5 DEF QueueInv
<1>10. ReadyInv'
  BY <1>3, <1>4 DEF ReadyInv
<1>11. GoneInv'
  BY DEF GoneInv, Coros
<1>12. QED
  BY <1>5, <1>6, <1>7, <1>8, <1>9, <1>10, <1>11

LEMMA WaitReturnIInv ==
  ASSUME IInv, NEW c \in Coros, WaitReturn(c) PROVE IInv'
<1>1. c \in onCpu /\ \A d \in Coros : d # c => pc[d] \notin Active /\ d \notin onCpu
  BY ActiveAlone DEF WaitReturn, Active
<1>2. c \in Getters /\ pc[c] = "return" /\ old[c] = flag /\ (InQueue(c) <=> ~flag)
  BY DEF WaitReturn, IInv, RoleInv, FlagInv, Coros
<1>3. /\ \/ flag /\ gone' = [gone EXCEPT ![c] = @ + 1] /\ pc' = [pc EXCEPT ![c] = "end"]
         \/ ~flag /\ gone' = gone /\ pc' = [pc EXCEPT ![c] = "suspended"]
      /\ onCpu' = onCpu \ {c}
      /\ UNCHANGED <<flag, waitQ, value, old, ready>>
  BY <1>2 DEF WaitReturn, Leave, GoOn, Go
<1>4. TypeOK'
  <2>1. /\ {flag, value} \subseteq BOOLEAN /\ waitQ \in Seq(Getters)
        /\ old \in [Coros -> BOOLEAN] /\ ready \subseteq Coros /\ onCpu' \subseteq Coros
    BY <1>3 DEF IInv, TypeOK
  <2>2. gone' \in [Coros -> Nat]
    <3>1. gone \in [Coros -> Nat]
      BY DEF IInv, TypeOK
    <3>2. gone' = [gone EXCEPT ![c] = @ + 1] \/ gone' = gone
      BY <1>3, Zenon
    <3>3. QED
      BY <3>1, <3>2
  <2>3. pc' \in [Coros -> {"start", "compute", "set", "notify", "test", "push",
                          "return", "suspended", "end", "thrown"}]
    BY <1>3 DEF IInv, TypeOK
  <2>4. QED
    BY <1>3, <2>1, <2>2, <2>3 DEF TypeOK
<1> USE <1>1, <1>2, <1>3, SetterAssumption DEF IInv, TypeOK
<1>5. CpuInv'
  BY DEF CpuInv, Active
<1>6. RoleInv'
  BY DEF RoleInv, Coros
<1>7. FlagInv'
  BY DEF FlagInv, InQueue, Coros
<1>8. QueueInv'
  BY DEF QueueInv, InQueue, Coros
<1>9. ReadyInv'
  BY DEF ReadyInv, InQueue
<1>10. GoneInv'
  BY DEF GoneInv, FlagInv, Coros
<1>11. QED
  BY <1>4, <1>5, <1>6, <1>7, <1>8, <1>9, <1>10

\* With one CPU every step keeps the invariant.
LEMMA NextIInv == cpuNum_ = 1 /\ IInv /\ [Next]_vars => IInv'
<1> SUFFICES ASSUME cpuNum_ = 1, IInv, [Next]_vars PROVE IInv'
  OBVIOUS
<1>1. CASE UNCHANGED vars
  BY <1>1 DEF vars, IInv, TypeOK, CpuInv, RoleInv, FlagInv, QueueInv, ReadyInv,
              GoneInv, InQueue
<1>2. ASSUME NEW c \in Coros, Step(c) PROVE IInv'
  BY <1>2, StartIInv, ResumeIInv, ThrowIInv, StoreValueIInv, NotifySetIInv,
     NotifyOneIInv, NotifyEndIInv, WaitTestIInv, WaitPushIInv, WaitReturnIInv DEF Step
<1>3. QED
  BY <1>1, <1>2 DEF Next

\* IInv holds throughout.
THEOREM Invariance ==
  ASSUME cpuNum_ = 1 PROVE Spec => []IInv
<1>1. cpuNum_ = 1 /\ IInv /\ [Next]_vars => IInv'
  BY NextIInv
<1>2. QED
  BY InitIInv, <1>1, PTL DEF Spec
-----------------------------------------------------------------------------
\* With one CPU, get() returns at most once to each of any number of callers,
\* and only after the value was stored, although wait() and notify() run
\* without the lock that they mean to take.
THEOREM ReturnsOnce ==
  ASSUME cpuNum_ = 1 PROVE Spec => []GetReturnsOnce
<1>1. IInv => GetReturnsOnce
  BY DEF IInv, GoneInv, TypeOK, GetReturnsOnce, Coros
<1>2. QED
  BY <1>1, Invariance, PTL
=============================================================================
