----------------------------- MODULE LifeCycle ------------------------------
(***************************************************************************)
(* How the kernel comes to life and ends: CoKernel's constructor makes a   *)
(* CompStarter with a thread for every component but the last ICU, start() *)
(* lets them run and loops on that ICU itself; quit() and ~CompStarter end *)
(* a loop.  Component 0 is icu_, the main thread's.                        *)
(*                                                                         *)
(* What a loop does with coroutines is left to Scheduler and ICULoop: an   *)
(* ICU sleeps in epoll_wait until its eventfd or something else wakes it,  *)
(* a CPU sleeps on hcv until a coroutine is ready.                         *)
(*                                                                         *)
(* CompStarter::thread_ is declared before the promises and cate_, so the  *)
(* new thread may use them before they are constructed.  What happens then *)
(* is undefined: `raced' records it, and main is handed a null component   *)
(* ("lost") or waits for ever ("hung").                                    *)
(***************************************************************************)
EXTENDS Naturals, Sequences

CONSTANTS
  Cate,         \* the categories of comps_, in order
  MaxReady      \* bound: coroutines ready at a time

ASSUME CateAssumption == Cate \in Seq({"ICU", "CPU"})
ASSUME MaxReadyAssumption == MaxReady \in Nat

Starters == DOMAIN Cate
Comps == {0} \cup Starters
ICUs == {0} \cup {i \in Starters : Cate[i] = "ICU"}

VARIABLES
  pc, at,       \* where main stands, and at which CompStarter
  thread,       \* where each CompStarter's thread stands
  promiseForCompPtr_, promiseForRun_, \* has the promise been set
  comp_,        \* does the CompStarter point to its component
  looping_, quit_,      \* the flags of each component
  loop,         \* where each component's loop stands
  eventfd,      \* has somebody called wakeUp() since the ICU last woke
  ready,        \* coroutines in the ready queue
  raced         \* did a thread use its CompStarter too early

main == <<pc, at>>
starters == <<thread, promiseForCompPtr_, promiseForRun_, comp_>>
loops == <<looping_, quit_, loop, eventfd>>
vars == <<main, starters, loops, ready, raced>>

Init ==
  /\ pc = "construct" /\ at = 1
  /\ thread = [i \in Starters |-> "none"]
  /\ promiseForCompPtr_ = [i \in Starters |-> FALSE]
  /\ promiseForRun_ = [i \in Starters |-> FALSE]
  /\ comp_ = [i \in Starters |-> FALSE]
  /\ looping_ = [i \in Comps |-> FALSE] /\ quit_ = [i \in Comps |-> FALSE]
  /\ loop = [i \in Comps |-> "none"] /\ eventfd = [i \in Comps |-> FALSE]
  /\ ready = 0 /\ raced = FALSE
-----------------------------------------------------------------------------
(* The main thread: CoKernel::INIT, tasks, start(), the end of main().      *)

StartThread ==
  /\ pc = "construct" /\ at \in Starters
  /\ thread' = [thread EXCEPT ![at] = "begin"]
  /\ pc' = "members"
  /\ UNCHANGED <<at, promiseForCompPtr_, promiseForRun_, comp_, loops, ready, raced>>

\* The promises and cate_ are initialised after the thread was started.
InitMembers ==
  /\ pc = "members"
  /\ pc' = "getComp"
  /\ UNCHANGED <<at, starters, loops, ready, raced>>

\* comp_ = f.get(); then CoKernel names the component, sets its callback and
\* enters it in icus_ or cpus_.
GetComp ==
  /\ pc = "getComp"
  /\ \/ promiseForCompPtr_[at] /\ comp_' = [comp_ EXCEPT ![at] = TRUE]
     \/ thread[at] = "lost" /\ UNCHANGED comp_
  /\ at' = at + 1
  /\ pc' = IF at' \in Starters THEN "construct" ELSE "icu"
  /\ UNCHANGED <<thread, promiseForCompPtr_, promiseForRun_, loops, ready, raced>>

MakeIcu ==
  /\ pc = "icu" \/ (pc = "construct" /\ at \notin Starters)
  /\ pc' = "user"
  /\ UNCHANGED <<at, starters, loops, ready, raced>>

CallStart ==
  /\ pc = "user"
  /\ pc' = "run" /\ at' = 1
  /\ UNCHANGED <<starters, loops, ready, raced>>

\* CompStarter::run() sets the promise once.
Run ==
  /\ pc = "run"
  /\ IF at \in Starters
     THEN /\ promiseForRun_' = [promiseForRun_ EXCEPT ![at] = TRUE]
          /\ at' = at + 1 /\ UNCHANGED pc
     ELSE pc' = "loop" /\ UNCHANGED <<at, promiseForRun_>>
  /\ UNCHANGED <<thread, promiseForCompPtr_, comp_, loops, ready, raced>>

\* As if quit() left the eventfd alone.
QuitSilently(i) == quit_' = [quit_ EXCEPT ![i] = TRUE] /\ UNCHANGED eventfd

\* quit() from another thread; only an ICU is woken by it.
Quit(i) ==
  /\ quit_' = [quit_ EXCEPT ![i] = TRUE]
  /\ eventfd' = [eventfd EXCEPT ![i] = @ \/ i \in ICUs]

\* main() returns once its ICU has ended; the kernel goes with its comps_.
MainReturns ==
  /\ pc = "loop" /\ loop[0] = "left"
  /\ pc' = "destroy" /\ at' = 1
  /\ UNCHANGED <<starters, loops, ready, raced>>

\* ~CompStarter, whose promise of run() is set by now: quit(), then join().
DestroyQuit ==
  /\ pc = "destroy" /\ at \in Starters
  /\ IF comp_[at] THEN Quit(at) ELSE UNCHANGED <<quit_, eventfd>>
  /\ pc' = "join"
  /\ UNCHANGED <<at, starters, looping_, loop, ready, raced>>

Join ==
  /\ pc = "join" /\ thread[at] = "over"
  /\ at' = at + 1
  /\ pc' = IF at' \in Starters THEN "destroy" ELSE "gone"
  /\ UNCHANGED <<starters, loops, ready, raced>>

Main ==
  \/ StartThread \/ InitMembers \/ GetComp \/ MakeIcu \/ CallStart \/ Run
  \/ MainReturns \/ DestroyQuit \/ Join
-----------------------------------------------------------------------------
(* CompStarter::loopFuncs() on the new thread.                             *)

Constructing(i) == pc = "members" /\ at = i

TooEarly(i) ==
  /\ thread[i] = "begin" /\ Constructing(i)
  /\ \E undefined \in {"lost", "hung"} : thread' = [thread EXCEPT ![i] = undefined]
  /\ raced' = TRUE
  /\ UNCHANGED <<main, promiseForCompPtr_, promiseForRun_, comp_, loops, ready>>

SetCompPtr(i) ==
  /\ thread[i] = "begin" /\ ~Constructing(i)
  /\ promiseForCompPtr_' = [promiseForCompPtr_ EXCEPT ![i] = TRUE]
  /\ thread' = [thread EXCEPT ![i] = "get"]
  /\ UNCHANGED <<main, promiseForRun_, comp_, loops, ready, raced>>

\* As if loopFuncs() did not wait for run().
GetRunUnset(i) ==
  /\ thread[i] = "get"
  /\ thread' = [thread EXCEPT ![i] = "loop"]
  /\ UNCHANGED <<main, promiseForCompPtr_, promiseForRun_, comp_, loops, ready, raced>>

GetRun(i) ==
  /\ thread[i] = "get" /\ promiseForRun_[i]
  /\ thread' = [thread EXCEPT ![i] = "loop"]
  /\ UNCHANGED <<main, promiseForCompPtr_, promiseForRun_, comp_, loops, ready, raced>>

ClearComp(i) ==
  /\ thread[i] = "loop" /\ loop[i] = "left"
  /\ comp_' = [comp_ EXCEPT ![i] = FALSE]
  /\ thread' = [thread EXCEPT ![i] = "over"]
  /\ UNCHANGED <<main, promiseForCompPtr_, promiseForRun_, loops, ready, raced>>

LoopFuncs(i) == TooEarly(i) \/ SetCompPtr(i) \/ GetRun(i) \/ ClearComp(i)
-----------------------------------------------------------------------------
(* ICU::loop() and CPU::loop().                                            *)

Called(i) == IF i = 0 THEN pc = "loop" ELSE thread[i] = "loop"
Go(i, to) == loop' = [loop EXCEPT ![i] = to]

StoreLooping(i) ==
  /\ Called(i) /\ loop[i] = "none"
  /\ looping_' = [looping_ EXCEPT ![i] = TRUE] /\ Go(i, "enter")
  /\ UNCHANGED <<main, starters, quit_, eventfd, ready, raced>>

\* A quit() that has come before is forgotten.
ClearQuit(i) ==
  /\ loop[i] = "enter"
  /\ quit_' = [quit_ EXCEPT ![i] = FALSE] /\ Go(i, "test")
  /\ UNCHANGED <<main, starters, looping_, eventfd, ready, raced>>

TestQuit(i) ==
  /\ loop[i] = "test"
  /\ Go(i, IF quit_[i] THEN "clean" ELSE "body")
  /\ UNCHANGED <<main, starters, looping_, quit_, eventfd, ready, raced>>

WaitIRQ(i) ==
  /\ i \in ICUs /\ loop[i] = "body" /\ eventfd[i]
  /\ eventfd' = [eventfd EXCEPT ![i] = FALSE] /\ Go(i, "test")
  /\ UNCHANGED <<main, starters, looping_, quit_, ready, raced>>

Schedule(i) ==
  /\ i \notin ICUs /\ loop[i] = "body" /\ ready > 0
  /\ ready' = ready - 1 /\ Go(i, "test")
  /\ UNCHANGED <<main, starters, looping_, quit_, eventfd, raced>>

\* makeScopeExit's cleaner.
LoopEnds(i) ==
  /\ loop[i] = "clean"
  /\ looping_' = [looping_ EXCEPT ![i] = FALSE] /\ Go(i, "left")
  /\ UNCHANGED <<main, starters, quit_, eventfd, ready, raced>>

Loop(i) ==
  StoreLooping(i) \/ ClearQuit(i) \/ TestQuit(i) \/ WaitIRQ(i) \/ Schedule(i) \/ LoopEnds(i)
-----------------------------------------------------------------------------
(* The program: tasks before start() and while the loops run, other events *)
(* of an ICU, and calls of quit().                                         *)

MakeReady ==
  /\ pc = "user" \/ (\E i \in Comps : loop[i] = "body")
  /\ ready < MaxReady /\ ready' = ready + 1
  /\ UNCHANGED <<main, starters, loops, raced>>

OtherIRQ(i) ==
  /\ i \in ICUs /\ loop[i] = "body"
  /\ Go(i, "test")
  /\ UNCHANGED <<main, starters, looping_, quit_, eventfd, ready, raced>>

QuitCall(i) ==
  /\ pc \in {"run", "loop"} /\ ~quit_[i]
  /\ i # 0 => comp_[i]
  /\ Quit(i)
  /\ UNCHANGED <<main, starters, looping_, loop, ready, raced>>

Next ==
  \/ Main \/ MakeReady
  \/ \E i \in Starters : LoopFuncs(i)
  \/ \E i \in Comps : Loop(i) \/ OtherIRQ(i) \/ QuitCall(i)

\* Threads go on; nothing else is promised to happen.
Spec == Init /\ [][Next]_vars
FairSpec ==
  /\ Spec
  /\ WF_vars(Main)
  /\ \A i \in Starters : WF_vars(LoopFuncs(i))
  /\ \A i \in Comps : WF_vars(Loop(i))
-----------------------------------------------------------------------------
TypeOK ==
  /\ pc \in {"construct", "members", "getComp", "icu", "user", "run", "loop",
             "destroy", "join", "gone"}
  /\ at \in 1..Len(Cate) + 1
  /\ thread \in [Starters -> {"none", "begin", "lost", "hung", "get", "loop", "over"}]
  /\ {promiseForCompPtr_, promiseForRun_, comp_} \subseteq [Starters -> BOOLEAN]
  /\ {looping_, quit_, eventfd} \subseteq [Comps -> BOOLEAN]
  /\ loop \in [Comps -> {"none", "enter", "test", "body", "clean", "left"}]
  /\ ready \in 0..MaxReady /\ raced \in BOOLEAN

\* Values have their types.  No loop runs while main still fills icus_ and
\* cpus_ or sets callbacks, which nothing protects; looping_ tells whether a
\* loop runs; no thread outlives its CompStarter, which it uses to the end.
OrderlyLife ==
  /\ TypeOK
  /\ (\E i \in Comps : loop[i] # "none") => pc \in {"run", "loop", "destroy", "join", "gone"}
  /\ \A i \in Comps : looping_[i] <=> loop[i] \in {"enter", "test", "body", "clean"}
  /\ \A i \in Starters : pc = "gone" \/ (pc = "destroy" /\ i < at) => thread[i] = "over"

\* start() makes every component loop, unless a thread came too early; quit()
\* ends the loop of an ICU, asleep or not, if it comes after the loop has
\* cleared quit_.
LoopsStartAndEnd ==
  /\ pc = "run" ~> raced \/ \A i \in Comps : loop[i] # "none"
  /\ \A i \in ICUs : quit_[i] /\ loop[i] \in {"test", "body"} ~> loop[i] = "left"
=============================================================================
