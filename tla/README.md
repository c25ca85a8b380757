# Verification of coker

coker is a small C++20 coroutine runtime (`CoLib/`), a connection layer on top
of it (`Conn/`) and two programs, a SOCKS5 proxy (`main.cpp`, `Sock5Ctxt.h`)
and an echo server (`ser.cpp`, `EchoCtx.h`). This directory holds TLA+ modules
that model its concurrent core, TLC configurations that check them on small
instances, and TLAPS proofs of what matters most for every instance.

## Inventory

Threads: the main thread runs one ICU; the constructor of `CoKernel` starts
`icuNum_ - 1` more ICU threads and `cpuNum_` CPU threads. Coroutines run on
the CPU threads only, one at a time on each, and move between them.

| Part | State | Operations | What is hard | What makes it correct |
|---|---|---|---|---|
| Ready queue and CPU threads (`CoKernel.cpp`, `CPU.cpp`, `Task.h`) | `readyRo_`, `hmu`, `hcv` | `wakeUpReady`, `schedule` | half of the dequeues are made without `hmu`; a coroutine may be woken before its own `resume()` is back | no lost wake-up, a frame runs on one CPU at a time, what is queued is resumed |
| `MpmcQueue` (`utils/`) | two linked lists, four atomic ends, two spin locks | `enqueue`, `dequeue` | tails are exchanged without a lock; nodes are recycled | a linearizable FIFO, a node in transit has one owner, the spins end |
| Coroutine mutex (`MuCore.h`, `CoKernel.h`, `AMutex.cpp`) | `tid_`, `waiter_`, `items_`, the `tid` in every task | `lock`, `try_to_lock`, `unlock` | three atomic variables changed one after the other | mutual exclusion, FIFO hand-over, nobody stranded |
| Descriptor table (`CoKernel.cpp`: `updateIRQ`, `removeIRQ`) | `fileWQPtrs_`, `icus_`, `irqn`, `pos`, epoll sets | register, modify, remove | the critical section awaits another thread; `epoll_ctl` fails | sorted by load, counts and positions right, table and epoll agree |
| ICU thread (`ICU.cpp`, `IRQPoll.cpp`, `FileWQ.cpp`) | `funcs_`, eventfd, `list_`, epoll, wait queues | requests, scan, `epoll_wait` | edges are reported once; requests arrive while it goes to sleep; files die | no lost request, no forgotten edge, data wakes its reader, no dangling pointer |
| Timers and timed waits (`TimeWQ.cpp`, `FileAwaiter`, `TimeAwaiter`) | `items_` by deadline, the timerfd | `addWait`, `wakeup`, timed `recv` etc. | a timer races the event it limits; both hold iterators to each other | a wait ends once, by its event or at its deadline |
| Futures (`AFuture.h`, `AFiber.cpp`) | `flag`, `waitQ`, `value` | `async`, `get` | the lock guard is a temporary | `get` returns once, with the value, to everybody |
| Socket operations (`ASocket.cpp`) | captured progress of a write | callbacks run by the ICU | stale `errno`, `EPOLLRDHUP`, leftover readiness | a write sends all its bytes once, an error ends the wait |
| `Buffer` (`Conn/Buffer.h`) | ring of `u_int16_t` indices | `insert`, `clear`, `data`, `retrive` | wrap-around, full against empty | a bounded FIFO of bytes |
| Connections (`Connection.h`, `Acceptor.h`, `EchoCtx.h`) | descriptor, buffer | `recv`, `send`, `close`, accept loop | a full buffer reads as 0 bytes | bytes are echoed in order |
| SOCKS5 session (`Sock5Ctxt.h`) | `__state`, two buffers, `__linkflag` | `handleAuth`, `handleReq`, `run`, `handleRLink` | requests in fragments, two coroutines ending one session | every session is answered and ends |
| Life cycle (`CompStarter`, `Component`, `quit`) | promises, `looping_`, `quit_` | start, run, quit, join | the thread starts before its members are constructed; `quit` races `loop` | every component runs once and stops |
| `Lazy`, `Task`, `Generator` (`CoRo/`) | continuation, `_tcb`, value | symmetric transfer, yield | uninitialised `ready`, swallowed exceptions | control returns to the awaiter |
| `ACond_variable`, `CvCore`, `HttpCtxt`, `client.cpp`, tests | - | - | declared or unused, or programs without concurrency | - |


### How the parts interact

- A coroutine runs inside `CoKernel::schedule` on a CPU thread. Everything that
  ends its waiting calls `wakeUpReady`, which puts its handle into the ready
  queue: the initial suspension of a task, the unlock of a mutex, the end of a
  request, a file or timer callback, the end of a future.
- A coroutine asks an ICU for something by `queueInLoop`: the request goes into
  `funcs_`, then the eventfd is written. The ICU thread runs the requests, scans
  the wait queues in `list_`, and sleeps in `epoll_wait`, whose reports fill
  `list_` again. `epoll` is edge triggered everywhere, so what it has reported
  is remembered in `revents_`.
- `socket`, `accept` and `close` go through `updateIRQ` and `removeIRQ`, which
  hold the coroutine mutex `fMapLk_` while an ICU calls `epoll_ctl`. `connect`,
  `recv`, `readv` and `writev` take that mutex only to look the descriptor up,
  and hand a callback to the ICU that owns it.
- A `Connection` gives the free or the used segments of a `Buffer` to `readv` or
  `writev` and moves the indices afterwards. Sessions are built on connections.
- The ready queue and every `funcs_` are an `MpmcQueue`.

## Modules

| Module | Models | Its state and steps in the code |
|---|---|---|
| `MuCore` | the coroutine mutex | one step per atomic operation of `LockAwaiter`, `TryLockAwaiter` and `UnlockAwaiter` on `waiter_`, `tid_` and `items_`; `tcb` is the `tid` each task carries; `pc` says between which two operations a coroutine stands |
| `FifoLock` | what the mutex promises | a lock, its holder, the line; `MuCore` implements it, `IRQTable` uses it for `fMapLk_` |
| `Scheduler` | ready queue, `hmu`, `hcv`, CPU threads | `wakeUpReady` on any thread and `schedule` on the CPUs, one step per lock, queue operation and notification; `pc` and `cur` are a CPU's place and its coroutine, `wk` and `arg` a thread's call of `wakeUpReady` |
| `MpmcQueue` | the queue on the level of nodes | one step per access of `enqueue` and `dequeue` to the four ends, to `next_` and to a value, plus the two spin locks; `line` is the order of the exchanges of `uTail_` |
| `FifoQueue` | what the queue promises | a sequence, and per thread what its last dequeue gave; `MpmcQueue` implements it until it is torn |
| `IRQTable` | `fileWQPtrs_`, `icus_`, `irqn`, `pos`, epoll sets | `updateIRQ` and `removeIRQ` between their awaits, called by `socket`, `accept`, a change of events and `close` |
| `ICULoop` | one ICU thread with its requests and files | `queueInLoop` in two steps, the requests `add`, `del` and `wait`, the scan one callback at a time, `epoll_wait`; a `File` is one `FileWQ` object |
| `TimedWait` | one socket's `FileWQ` with the `TimeWQ` | both closures of `FileAwaiter`, `TimeAwaiter`, `addWait`, both `wakeup`s, the timerfd, and the callbacks of `connect`, `recv`, `readv`, `writev` on a connection that may be new, being made, up, refused or half closed; a constant set of `Programs` says which coroutines use which operations |
| `WaitFlag` | `async`, `future::get` | every access of `wait` and `notify` to `flag` and `waitQ` is a step, because the guard they begin with locks nothing; the callable returns or throws |
| `RingBuffer` | `Buffer` with `Connection::recv` and `send` | one action per operation of `Buffer`; `data` is the scatter list as segments of places. `recv` and `send` keep the list they took (`freeIov`, `usedIov`) while they wait: `readv` fills places of the one, each round of `writev`'s callback takes bytes of the other and moves `tcnt` and `offset`, and the indices move when the transfer returns |
| `ByteFifo` | what the buffer promises | a bounded sequence of bytes; `RingBuffer` implements it |
| `Connection` | a `Connection` and its `Buffer` as a session sees them | operators only: what arrives, what was sent, what a `recv` or `send` makes of a `ByteFifo`, `EPOLLRDHUP` |
| `Sock5Session` | `Sock5Ctxt` | `run` with `handleAuth` and `handleReq`, and `handleRLink`, one step from one await to the next; requests are bytes, so that what is missing, negative or left over is seen; a client follows a script, politely (proper messages, each whole and after the answer to the last) or in pieces of any length; a transfer is a step of its own that may move a part |
| `EchoServer` | `Acceptor::run`, `colib::accept`, `EchoCtx::run` | the listen queue with its edge, a limited number of descriptors, one fiber per client; `buffers` holds the `__rxBuf` of each |
| `LifeCycle` | `CoKernel`'s constructor, `start`, `CompStarter`, `loop` and `quit` of ICUs and CPUs | the main thread's place, each starter's thread, promises and flags, and the place of each loop; a thread that uses its starter before it is constructed is the undefined behaviour it is (`raced`) |
| `LazyFrames` | `Lazy`, `ValueAwaiter`, `FinalAwaiter`, `Task` | who holds the handle of each frame; one action per creation, `co_await`, suspension, end, `await_resume` and destructor |
| `CallStack` | what coroutines promise | each task has a stack of calls that return or throw; `LazyFrames` implements it |
| `MuCoreProofs`, `SchedulerProofs`, `MpmcQueueProofs`, `IRQTableProofs`, `ICULoopProofs` | theorems about the module in the name | |
| `TransferProofs` | theorems about `RingBuffer` and `TimedWait` | |
| `CoroutineProofs` | theorems about `LazyFrames` and `WaitFlag` | |
| `ServerProofs` | theorems about `LifeCycle`, `EchoServer` and `Sock5Session` | |

`MC*` modules are the instances for TLC. Composition is by replacing a part by
what it promises: `Scheduler`, `ICULoop` and `TimedWait` use sequences where the
code has an `MpmcQueue`, `IRQTable` the steps of `FifoLock` where it has the
mutex, the sessions (`Sock5Session`, `EchoServer`) a `ByteFifo` where they have
a `Buffer` and one step of a transfer where they have the callbacks of
`TimedWait`; the ICU and CPU threads meet in `ICULoop` as coroutines that run,
ask and are woken. In `MpmcQueue` the promise fails after a tearing growth
(below), so the other modules describe the system as long as that has not
happened.

## Runs

Each run's first property contains the module's type invariant.

| Run | Instance | What it shows |
|---|---|---|
| `mutex` | 4 coroutines | mutual exclusion, an owner's `unlock` is never ignored, nobody waits for a mutex that nobody has, every `lock` is granted, and the three atomics together are a FIFO lock. Four coroutines give an owner, one being handed the mutex, one enqueued and one between increment and enqueue |
| `scheduler` | 2 CPUs, 1 ICU, 3 coroutines | no wake-up is lost between queue, `notify_one` and sleep; no frame runs on two CPUs although a coroutine may be queued again before its `resume()` is back; what is queued is resumed. Two CPUs race for the queue while the ICU fills it |
| `queue` | 3 threads, 2 values | nodes in transit have one owner, the queue is a FIFO until torn, the spins end. One dequeue meets two enqueues, and both lists are short enough to become empty and to grow |
| `irq_table` | 3 ICUs, 3 descriptors, 2 coroutines | ICUs sorted by load, loads and positions right, table and epoll agree through failures of `epoll_ctl`, every call returns. Three ICUs are the least with a middle one to swap over |
| `icu_loop` | 2 coroutines, 1 file, 2 units | no request and no edge is lost, data wakes its reader. Two coroutines can wait on the file together, and one can close it under the other |
| `timed_wait` | two programs: 3 coroutines that sleep or `connect` with limits of 1 or 2 ticks; 2 coroutines that read and write, buffers of 2 units | entries for event and deadline are removed together and once; while the ICU sleeps the timerfd is set for the first deadline and no readiness is forgotten in either direction; `writev` returns only when exactly what was asked has gone out; a limit is kept and room reaches the first writer; a scan ends although the peer has shut down. Three timers give an insertion at either end and in the middle, two units a partial transfer. The liveness is stated for the coroutine in `Watched`: no action tells the users of a program apart, so what holds of one holds of each |
| `future` | 1 CPU, 3 getters | `get` returns once, with the value, to everybody, unless the callable throws |
| `ring_buffer` | 5 places, two values, indices below 6 | segments never overlap and are as long as the capacities say; a list taken before a wait is still what comes next in the ring when the transfer is done, whatever was filled or emptied meanwhile; the ring is a FIFO of 4 bytes, in however many rounds its segments go out. `Size` is the largest that the index type can hold, where an index could wrap in it; four bytes allow two segments of two, so that a round can end inside either or between them |
| `session` | 7 clients, one per behaviour: two polite ones (an address, a name), and five in pieces of any length: an address, a name, a name with a negative length, an address of version 6, no SOCKS at all; 10 bytes per buffer, 2 bytes from the remote side | answers and relayed bytes keep their order although two coroutines share `__txBuf`; nothing is used after it was closed; a session is not given up while its peers stay and ends when its client has gone; what arrives is relayed. Ten bytes are exactly the request and the answer of the first polite client, which then sends eleven to relay: its session's buffers get full to the last byte, and a `recv` before they are emptied would end it |
| `server` | 2 clients, 1 descriptor, 3 bytes, buffers of 2 | descriptors always have one owner, the listen queue is served although `accept` fails for want of descriptors, bytes are echoed in order or the descriptor becomes free. One descriptor less than clients is the least shortage, three bytes do not fit into a buffer |
| `lifecycle` | 2 ICUs (one main's), 1 CPU, 2 ready coroutines | no loop runs too early or outlives its starter; `start` reaches every component; `quit` ends the loop of an ICU that has cleared `quit_`, asleep or not |
| `frames` | 2 tasks, 4 frames | each frame has one owner and is destroyed once; awaiting behaves like a stack of calls. Four frames allow a caller with an awaited and a dropped `Lazy` and a chain of three |

The bounds that appear in guards are `MaxEnqueues` (values ever enqueued, all
different so that order can be seen), `MaxData` and `MaxRead` (units in a
buffer, units of one call), `MaxTicks` (length of a limit; time itself is
relative and unbounded), `MaxReady` (coroutines ready at a time), `FdLimit` and
`BufCap` (limits of the system, small), and the finite sets of coroutines,
descriptors, files, clients and frames. `TimedWait` lets the peer send only when
some coroutine transfers data.

Deadlock is checked except where the system comes to an end of its own:
`WaitFlag` (all have the value), `Sock5Session` (the session is over or its
peers are silent), `EchoServer` (all clients have gone), `LifeCycle` (main has
returned, or all sleep or wait for ever) and `LazyFrames` (tasks ended or stay
suspended).

### Fairness

- `MuCore`: a coroutine that is inside `lock` or `unlock`, or owns the mutex,
  goes on. Nothing makes a coroutine call `lock`.
- `Scheduler`: every thread goes on; the operating system schedules threads and
  wakes a thread that was notified. Spurious wake-ups may or may not happen.
- `MpmcQueue`: only a thread that got a spin lock goes on. The spin locks
  themselves are unfair, and nothing is claimed of a thread waiting for one.
- `IRQTable`: coroutines go on inside a call, and the mutex is granted as
  `FifoLock` says, which `MuCore` is shown to implement.
- `ICULoop`: the ICU thread goes on and a CPU thread that has queued a request
  writes the eventfd; the 1000 s limit of `epoll_wait` is not relied on.
- `TimedWait`: the ICU thread goes on, time passes and the timerfd expires;
  nothing is expected of the peer.
- `WaitFlag`: the CPUs go on.
- `Sock5Session`: each of the two coroutines is resumed when its transfer is
  done (`Scheduler`), a transfer that can go on does (`TimedWait`), and epoll
  reports a shut-down. Peers take what is sent to them; they need not send,
  shut down or do anything else.
- `EchoServer`: the same for every client's fiber and for the acceptor's, and
  epoll reports a connection. `PendingIsAccepted` supposes that a descriptor is
  free again and again, which is the clients' doing.
- `LifeCycle`: the main thread and every component's thread go on. Nobody need
  call `quit` or make a coroutine ready.
- `CallStack` and `LazyFrames` state safety only: a body may suspend for ever.

## Known divergences

The models contain behaviour that is hardly meant. Most of it contradicts no
line of the repository that says otherwise; each can be seen with the property
and the constants named here, which no run uses.

Of the concurrent core:

- `enqueue` grows the queue by a plain store to `sTail_` after testing
  `sHead_ == sTail_` (`MpmcQueue.h:52-55`). A `dequeue` that has given its node
  back in between is overwritten, a node ends up in both lists, and values are
  lost or come out twice: `QueueIsFifo` fails with two threads and four values.
  The run `queue` shows that this is the only way to break the FIFO: every step
  keeps it until a growth overwrites such an exchange.
- With one ICU, as in both programs, no swap ever sets `pos`, and `removeIRQ`
  uses it uninitialised as an index (`CoKernel.cpp:317`): `LoadOrder` fails with
  `icuNum_ = 1`, which is why its theorem supposes two.
- `std::lock_guard{ fl };` (`AFuture.h:35`) locks nothing: with `cpuNum_ = 2`
  `get()` can go on twice, and `GetReturnsOnce` fails.
- An exception of `async`'s callable ends in its task: whoever calls `get()`
  waits for ever. `GetReturns` excepts it.
- A file that one coroutine closes may be scanned after its `FileWQ` was
  destroyed: `ICULoop` has the step `ScanDangling`, and `ScanExists` fails.
- `connect` ignores the error that it fetches and may be answered by the event
  of the unconnected socket: `ConnectedMeansUp` of `TimedWait` fails for a
  program whose `ops` are `{"connect"}`.
- A limited wait whose callback blocks loses its timer, and the next callback
  erases the timer a second time: `EntryPerWaiter` fails for a program with
  `"recv"` in `timed`. The code itself gives limits to no transfer.
- A coroutine that calls `unlock` after a failed `try_to_lock` can release
  somebody else's mutex: `MutualExclusion` fails when `BlindTasks` has a member,
  and every run has `BlindTasks = {}`.
- Once the peer has shut down its side, `writev` answers -1 at the next event
  although the connection could still carry output: a client of the echo server
  that half-closes loses the rest of its echo.
- The thread of a `CompStarter` may use members that are not constructed yet
  (`CompStarter.h:39`), and a `quit` before `loop` has stored `quit_ = false`
  is lost. A CPU that sleeps on `hcv` does not see `quit`: `~CompStarter` waits
  until some coroutine becomes ready. `LoopsStartAndEnd` says what remains; no
  property is about the race itself, whose outcome is undefined.

Of the session (`Sock5Session` has all of these as behaviour):

- A method list that has not arrived makes `operator[]` throw through `run()`;
  the session ends without closing its descriptor.
- The client is told that it is linked although `socket()` or `connect()`
  failed, and port bytes that arrive late are relayed as payload.
- Bytes left over in `__rxBuf` are looked at only after the next `recv`.
- A remote side that closes is not reported to the client, and a session whose
  client has gone waits for its remote side; `SessionEnds` excepts that.
- `writev` on a closed connection raises `SIGPIPE`, which ends the process, and
  `gethostbyname` blocks the CPU thread; the model answers -1 and at once.

## Proofs

Eight modules hold theorems for all values of the constants, under the
assumptions named in the modules and in the theorems. In each, an invariant
`IInv` is shown to hold initially and to be kept by every action (one lemma or
step per action), and the properties follow from it. (`CoroutineProofs` calls
the one of `LazyFrames` `FramesInv`, `ServerProofs` that of `EchoServer`
`ServerInv` and that of `Sock5Session` `SessionInv`, `TransferProofs` that of `TimedWait` `WaitInv`; `RingBuffer`, whose
proofs stand beside those of `TimedWait`, calls its specification `BufferSpec`.)

`MuCoreProofs` (any finite set of coroutines that unlock only what they own,
`BlindTasks = {}`): `TypeCorrect`, `Mutex` (`MutualExclusion`), `UnlockSucceeds`
(`OwnerCanUnlock`), `NobodyStranded` (`NoStrandedWaiter`), and
`ImplementsFifoLock`: the three atomics refine `FifoLock`. None of these is
inductive. `IInv` adds that `waiter_` is the number of coroutines between their
increment and their decrement (`CountInv`); that at most one coroutine carries
the lock, and one does whenever somebody is counted (`CarryInv`); that `tid_`
names the owner from before it runs (`TidInv`); that a release which saw others
waiting will find one and hands over to a suspended coroutine that is no longer
in line (`HandOverInv`); and that the line holds suspended coroutines, each once
(`ItemsInv`). The increment and the decrement are the crux: either the increment
sees 0 and the coroutine owns the mutex, or the decrement sees more than 1 and
hands it over, which is a fact about the cardinality of a set from which one
element is added or removed.

`SchedulerProofs` (any threads, any coroutines): `TypeCorrect`,
`WakeupsAreKept` (`NoLostWakeup`), `FramesAreExclusive` (`FrameExclusive`). Here
`IInv` adds who holds `hmu` (`HmuInv`), which calls carry a handle (`ArgInv`),
that a CPU about to sleep has seen an empty queue that has not changed since
(`SleepInv`), that some CPU is awake or some notification is to come while
something is queued (`AwakeInv`), and that a coroutine is in one place only: in
the queue once, or on one CPU, or in one `wakeUpReady` (`PlaceInv`).

`MpmcQueueProofs` (any threads and values): `NodesAreHeldAlone` (`HeldAlone`) and
`ImplementsFifoQueue` (`FifoUnlessTorn`: the queue on nodes refines `FifoQueue`
until a growth tears it). Each list is given a history: `U` numbers the nodes of
the used list in the order in which they were exchanged into `uTail_`, `S` those
of the spare list, and two indices say where each list begins and ends, so that a
node whose `next_` is not stored yet is still in its place (`Links`, `Ends`). All
the nodes in the two ranges and in the hands of threads are different (`Apart`),
and what the used range holds, with the values not yet stored by their
enqueuers, is `line` (`Content`). `BaseInv`, `LockInv` and `GrowInv` hold even
when the queue is torn: who is inside which lock, and that every node grown is
paid for by one enqueue, which is why the supply of nodes suffices. The plain
store of a growth is the only step that can break `Apart`, and exactly when
`sTail # sHead` in that moment, which is what `torn` records.

`CoroutineProofs`, of `WaitFlag` (one CPU, any getters): `ReturnsOnce` (`GetReturnsOnce`). With
one CPU whoever is in the middle of `wait` or `notify` is the only one that runs
(`CpuInv`), so a getter still sees the flag that it tested and stands in `waitQ`
exactly if it was not set (`FlagInv`); what waits there is suspended
(`QueueInv`), and what is ready has not gone on yet (`ReadyInv`).

`IRQTableProofs` (any coroutines and descriptors): `TableKept`
(`TableMatchesEpoll`), for any number of ICUs, and `OrderKept` (`LoadOrder`), for
two or more. Only the holder of `fMapLk_` touches the data (`LockInv`), it knows
whether its descriptor is registered (`FdInv`) and owns it alone (`OwnInv`);
together with the types and with what each epoll set holds (`EpollInv`) that is
`TableInv`, which every step keeps whatever order the ICUs are in, also with the
single ICU of the programs. `IInv` adds the order (`LoadIsCounted`, `OrderInv`).
`FirstPos` is what makes `pos` right: once anything has been registered the first
ICU knows that it is first. With one ICU it does not, and `OrderKept` would be
false.

`ICULoopProofs` (any coroutines, files and data): `RequestsAreKept`
(`NoLostRequest`), `EdgesAreKept` (`NoForgottenReadiness`). `EdgeInv` says where
readiness is remembered, in epoll's list or in `revents_`, and that a file with
a waiter for what is in `revents_` is in `list_`. It needs that every coroutine
is in the queues once (`FuncInv`, `ItemInv`) and that a `FileWQ` goes through its
life in order (`Life`), so that a pointer that dangles is never that of a
registered file.

`TransferProofs`, of `RingBuffer` (any bytes, any size below the range of the
index type):
`SegmentsStayApart` (`SegmentsApart`), `ImplementsByteFifo` (`IsFifo`). `BufferInv`
adds to the types what a waiting transfer relies on: the places that a `recv` was
given are the next free ones and hold what has come (`RecvInv`); those that a
`send` was given are the next used ones, `tcnt` and `offset` say how many of them
have gone out, and these are the front of the content (`SendInv`). The work is the
arithmetic of walking round the ring (`Walk`): what an index and the number of
used bytes become, on both sides of the wrap, and that the two segments read one
after the other are the content; and that of a round of `writev`, which may end in
either segment (`BeforeIs`, `CursorMoves`).
With a size equal to the range or above it, `u_int16_t` would cut a capacity.

`TransferProofs`, of `TimedWait` (any coroutines, programs, limits and amounts):
`WaitersArePaired` (`EntryPerWaiter`), `SleepForgetsNothing` (`NothingForgotten`),
`WritesAreExact` (`WriteExact`). `Waiters` says that the place where a coroutine
is queued tells what it is doing, once per list; `Timers` that the deadlines are
sorted and that the timerfd covers the first unless its expiration is still in
epoll's list or in `list_`; `FileListed` that a `FileWQ` with an event for one of
its entries is in `list_`; `Edges` that whatever holds of the socket is in
`revents_`, or an edge will tell it, or it is a full send buffer that a writer
has found full; `Writers` that a writer's progress is what has gone out.
`Paired`, that a limited wait still has its timer, is kept only if no transfer is
limited, because a transfer may block again and its callback has then erased the
timer (see above): `WaitersArePaired` has that as its hypothesis
(`NoTransferLimited`), which every program of the repository satisfies; the other
two theorems have none. The proofs rest on a small theory of lists, among it what
`Without` (the erasing of entries) does, proved by induction over a set of
numbers (`UpTo`).

`ServerProofs`, of `LifeCycle` (any number and order of components): `LifeIsOrderly`
(`OrderlyLife`). A loop stands behind the promise that `start` sets (`StartInv`),
and what main has joined stays over (`JoinInv`).

`ServerProofs`, of `EchoServer` (any clients, data, limit of descriptors and size
of buffers): `DescriptorsAreOwned` (`EveryDescriptorIsOwned`), `EchoIsInOrder`
(`EchoesInOrder`). A client goes from the listen queue to `accept` and from there
to its `EchoCtx`, never back (`QueueInv`, `FdInv`). What it has sent is what it
was given, then its buffer, then what has not been read (`Flow`); while a send is
under way the front of the buffer has already gone out (`Behind`). Of the failed
`send` whose result `EchoCtx` ignores, and which keeps a half-sent buffer, the
invariant says why nothing is repeated: a send fails only behind the peer's
shut-down, and then all that follow fail too.

`ServerProofs`, of `Sock5Session` (any scripts, any data of the remote side, any
buffers that hold the ten bytes of the longest answer; what polite means is
`ScriptsAssumption`): `NothingIsUsedAfterClose` (`NothingAfterClose`),
`AnswersAreInOrder` (`AnswersInOrder`), `RelayIsInOrder` (`RelayedInOrder`),
`SessionsLive` (`LivesWhilePeersDo`). No assumption is made on how many bytes a
script has, on where fragments end, on which calls fail or on when a side goes.
`SessionInv` says

- where the two coroutines stand in each state of the session and with which
  descriptors (`Places`, `Descriptors`): `handleRLink` runs only after the
  request was answered and has ended before `run` closes anything;
- what a send under way still has to do (`Transfers`): the last `unsent` bytes of
  its buffer, unless it has failed, and then the peer is known to have gone or
  the descriptor never was one;
- of the answers in the order in which they must go out, which are out, which are
  in `__txBuf` and which still come from the remote side (`ToClient`). Two
  coroutines send from `__txBuf`, so this needs that neither has begun when the
  buffer is taken to be empty (`TxIdle`). As long as the client is not known to
  have gone the three parts join without a gap; after that nothing goes out, and
  what lies in the buffer no longer matters;
- the same of the client's bytes behind the first k (`ToRemote`). Fragments make
  k any number: bytes of a request that come late are relayed;
- that for a polite client k is the end of its greeting or of its request
  (`Polite`): the whole message is in `__rxBuf` when `handleAuth` or `handleReq`
  looks at it, they take it as a whole, and so `__rxBuf` is empty when the next
  `recv` begins. That is why a full buffer, which `recv` reports as 0 like the
  end of the stream, does not end a session whose sides are both there
  (`RelayGone` says the same of `handleRLink`).

`CoroutineProofs`, of `LazyFrames` (any tasks and frames): `FramesAreOwned` (`FrameHasOneOwner`).
What exists is held by one holder that exists (`HeldInv`, `OneInv`, `KeptInv`); a
`Lazy` holds a frame that has not started, an awaiter one that has (`KindInv`);
a frame that has not started or has ended holds nothing (`IdleInv`); a task is
resumed at a frame of its own (`TopInv`), and an active frame is awaited by its
continuation (`CallInv`).

Model-checked only: every liveness property (`LockGranted`, `QueuedIsResumed`,
`SpinEnds`, `CallReturns`, `DataIsDelivered`, `GetReturns`, `OwedIsGiven`,
`ScanEnds`, `SessionEnds`, `RelayGoesOn`, `PendingIsAccepted`, `EchoedOrClosed`,
`LoopsStartAndEnd`), which is out of the prover's reach; and that `LazyFrames`
implements `CallStack`, whose mapping is a recursive walk over continuations.

## Not modelled

- `send` of `ASocket.cpp`: nothing calls it, and it tests a stale `errno`.
- `TimedWait` and the sessions count the units of a transfer; the arithmetic on
  the vectors of `writev` is in `RingBuffer` alone.
- `Generator`: the scans of `ICULoop` and `TimedWait` use it as if its `ready`
  began as false. It is not initialised, and has_next() reads it.
- The order in which `CoKernel`'s other members are destroyed, `init` and
  `deinit` of the acceptor, and destructors that only log.
- The counter that numbers tasks (`Task.h:20`) is not atomic; `MuCore` gives
  every coroutine a number of its own.
- How a coroutine frame is laid out and transferred to is the compiler's;
  exceptions that reach `Task` end there, as in the code.
- `ACond_variable`, `CvCore`, `HttpCtxt`: declared or sketched, nothing calls
  them. Programs and tests without the library, and utilities without state.
- The destructor of `MpmcQueue`, a value type whose move throws, and memory
  running out.

## Plan

1. `MuCore` with `FifoLock`, `Scheduler`, `MpmcQueue` with `FifoQueue`,
   `IRQTable`, `ICULoop`, `WaitFlag`, `TimedWait`, `RingBuffer` with `ByteFifo`:
   done.
2. Sessions and life: `Connection`, `Sock5Session`, `EchoServer`, `LifeCycle`,
   `LazyFrames` with `CallStack`: done.
3. Proofs of the mutex and the queue (each with its refinement), scheduler,
   futures with one CPU, descriptor table, ICU loop, ring buffer (with its
   refinement), waits and transfers, life cycle, echo server, SOCKS5 session and
   frames: done. Every safety invariant that a run checks is a theorem.
4. Left: a model of `Generator` with its `ready` chosen freely; the frames'
   refinement of `CallStack`, if its mapping can be stated without recursion.
