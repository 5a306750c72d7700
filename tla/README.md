# A TLA+ model of SummerNet

SummerNet is a small C++ network library in the reactor style: one event loop per
thread, `poll(2)` underneath, callbacks above. These modules model the parts of it
that run concurrently or keep redundant state; TLC checks them on small instances, and
TLAPS proves the safety properties and refinements for all. Every definition is
written from the source (`src/SummerNet`); the repository has no documentation and no
tests, so what the program claims of itself is what its asserts, its `LOG_FATAL`s and
its comments say.
`PROJECT.json` names, for each definition, the lines it models.

Two builds exist: `build.sh` makes a debug build, with asserts; CMake's default,
Release, defines `NDEBUG` (`CMakeLists.txt:28`). The models have the asserts. An
assert that fails aborts the program, so a model stops there (a `failed` flag).

## 1. Inventory

| Part | Source | State | Operations | Model |
|---|---|---|---|---|
| EventLoop | `net/EventLoop` | `looping_ quit_ handlingPendingFunctors_ pendingFunctors_ mutex_`, the wakeup pipe, `activeChannels_` | `Loop Quit RunInLoop QueueInLoop Wakeup HandleRead HandlePendingFunctors` | `EventLoop`, abstract: `FunctorQueue` |
| Loop threads | `net/EventLoopThread`, `net/EventLoopThreadPool` | `loop_ mutex_ cond_ thread_`; `loops_ next_ start_ threadNum_` | `Start ThreadFunc GetNextLoop`, destructors | `LoopThreads` |
| Mutex, Condition | `base/Mutex.h`, `base/Condition.h` | pthread mutex and condition, `holder_` | `Lock Unlock Wait NotifyAll` | in `LoopThreads` |
| PollPoller, Channel | `net/poller/PollPoller`, `net/Channel` | `channels_ pollFds_`, each channel's `events_ index_` | `UpdateChannel RemoveChannel Poll`, `Channel`'s `Enable...`, `Disable...`, `Remove` | `PollPoller`, abstract: `PollSet` |
| Buffer | `net/Buffer` | `buffer_ readIndex_ writeIndex_` | `Append ReadFd MakeSpace Retrieve...` | `Buffer`, abstract: `ByteQueue` |
| TcpConnection | `net/TcpConnection` | `state_`, channel, `outputBuffer_` | `Send Shutdown`, four event callbacks, establishment, destruction | `TcpConnection` |
| TimerQueue, Timer | `net/TimerQueue`, `net/Timer.h`, `net/TimerId` | `timerList_`, the timer pipe; per timer a thread, `repeat_ cancelled` | `AddTimer Cancel HandleRead HandleTimeout` | `TimerQueue` |
| TcpServer, Acceptor | `net/TcpServer`, `net/Acceptor` | `connectionMap_ connectionId_ start_ listenning_` | `Start NewConnection RemoveConnection ~TcpServer`, `Listen HandleRead` | `TcpServer`, abstract: `Sessions`; one connection's view in `TcpConnection` |
| CountDownLatch | `base/CountDownLatch` | `count_`, mutex, condition | `Wait CountDown` | not modelled (unused) |
| TimerFd | `base/TimerFd` | `isTiming_`, pipe, thread | `SetTime` | not modelled (unused) |
| Sockets | `net/Socket`, `net/SocketOps` | a descriptor | one system call each | `Accept` and `Close` in `TcpServer`; other outcomes are inputs of the models |
| Addresses | `net/InetAddress`, `net/Endian` | – | conversions | not modelled (nothing decides by them) |
| Logging, Singleton, Types | `base/...` | – | – | not modelled |
| Examples | `net/example` | – | user callbacks | what they may call is a user action of the models |

**How the parts interact.** A thread that is not a loop's reaches it through
`RunInLoop`: push under the mutex, then write to the wakeup pipe. `TcpConnection::Send`
and `Shutdown`, `TcpServer::RemoveConnection`, `TimerQueue::AddTimer` and `Cancel` all
go that way. Inside a loop everything is a callback: poll reports channels, channels
call `TcpConnection`, `Acceptor`, `TimerQueue` or the loop's own `HandleRead`, and those
call user code, which may call back into any of them. Timer threads talk to the loop
through a second pipe. `TcpServer` takes loops from the pool in turn.

**What is hard.** The two steps of a hand-over against the loop's poll and swap. Two
blocking pipes with finite room. A swap that must not mix batches. Redundant indices
under swap-removal. Index arithmetic around a reserved area. Direct writes against
queued ones. A check and a store on `state_` from another thread against the close.
Timers that expire, block, are cancelled and are erased in any order. The start-up
handshake, and a quit flag that is reset on entry. Connections whose last reference may
be dropped on any thread, and descriptors that the kernel gives out again at once.

**What makes each part correct.**

* EventLoop: a functor posted from another thread runs once, in order, on the loop's
  thread; a loop never sleeps on one; blocked writers are released; `Quit` works.
* Loop threads: `Start` returns, and returns a loop that exists; connections are spread
  evenly; a `Quit` ends its thread.
* PollPoller: map, array and indices agree; poll reports those who asked, no others.
* Buffer: bytes come out as they went in; the indices stay in order; what fits, fits.
* TcpConnection: the stream is whole and ordered per sender, ends only behind
  everything accepted, and does end; the channel is disabled before it is removed.
* TcpServer: each connection comes up once and goes down once, on its own loop; its
  descriptor is its own until it is closed, is not closed while a poller has it, and does
  come back when the peer has left.
* TimerQueue: every expiration runs its callback once; after a cancel none starts.

## 2. Modules

**`FunctorQueue`** says what `RunInLoop` promises: on the loop's own thread a functor
runs at once, from another it joins a queue that the loop executes from the front.
**`EventLoop`** is the mechanism. `pc[l]` is where loop l's thread is in `Loop()`:
`test` the `while`, `poll` blocked in `poll(2)`, `events` between channels, `callback`
in a channel's callback, `run` between functors, `functor` in one. `waking[t]` is the
loop whose pipe thread t is about to write to: it splits `QueueInLoop` between its
critical section and `Wakeup()`. The local vector of `HandlePendingFunctors` is
`functors`. The swap, being inside the mutex, is one step with the assignment of
`handlingPendingFunctors_` before it. A channel other than the wakeup channel is `"io"`:
its callback is user code, which like a functor's body may post and quit. Each functor
is handed over once, so that "runs once" can be said; `ran` is a history variable.
Refinement: `queue` is `functors \o pending`. The pipe's capacity is 64 KiB in the
program, 1 message in the instances: nothing depends on the number but when it is full.

**`LoopThreads`** has a base thread that starts up to `MaxThreads` threads and then
either hands out their loops and quits them all, as the pool does, or destroys single
`EventLoopThread`s, which quits and joins. The mutex is two variables: `owner`, the
pthread mutex, and `holder`, the field that `IsLockedByThisThread` reads, written in
steps of their own; so `Lock`, `Unlock` and `Wait` are two or three steps each.
`"asleep"` is inside `pthread_cond_wait`, and may end by itself. An `EventLoopThread` that
is destroyed before its `Start` crashes (`DestroyUnstarted`). `Loop()` is reduced to
its entry (`quit_ = false`, then `looping_ = true`) and its exit.

**`PollSet`** is the set of interests and the rule of what poll reports. **`PollPoller`**
keeps `channels`, `pollFds` and each channel's `index` as the code does; `ready` is what
is pending on the descriptors when poll is called, shared with `PollSet`, so that
nothing can go unreported; the negated
descriptor `-fd - 1` is the field `ignored`. All operations run on the loop's thread, so
each is one step, except `Poll`, which is two: what `poll(2)` finds ready (`PollReturns`)
and `FillActiveChannels` (`Report`). `POLLHUP` and `POLLERR` come unasked (`Alarms`). The
poller expects that a channel is first updated to ask for something and removed when it
asks for nothing; only asserts check that, and the library does not always keep to it
(section 5). So the operations come in every order, `misused` has the channels whose own
calls came out of turn, and `failed` the one an assert failed on.

**`ByteQueue`** is a queue of bytes. **`Buffer`** has the size of the vector, both
indices and the contents by position; `bytes[i]` has the number of the byte (modulo
`Period`), so that order and loss show. `ReadFd`'s second buffer of 65536 bytes is
`ExtraSize`.

**`TcpConnection`** is one connection with its loop's thread `Io`, other threads
(`Callers`), the peer and the server's entry for it. `pending` is the loop's functor
queue, which is what `EventLoop` implements. `pc` and `revents` are the dispatch of
`Channel::HandleEventsWithGuard`; the user callbacks are points in which `Io` may `Send`
and `Shutdown`. `Shutdown` on another thread is three steps: the test of `state_`, the
store, the post. The output is a sequence of bytes `<<t, i>>`, the i-th byte of thread
t. `Setups` are the ways the library may be used: loop of the pool or the server's own,
server destroyed or not, who calls `Shutdown`; `CarefulUseSafe` says in which of them
no assert fails; the other properties hold in all, `NothingSkipped` unless a thread
other than `Io` calls `Shutdown`. The program does not ignore `SIGPIPE` (section 5), so a
write that meets `EPIPE` ends it (`killed`); only `ECONNRESET` is returned. `peer` says
which of them a reset leaves behind: `"reset"` for `ECONNRESET`, `"broken"`, behind a
half-close, for `EPIPE`, and `"dead"` once the socket's error was read, from when on every
write is an `EPIPE`.

**`TimerQueue`** has the loop's thread and one thread per timer
(`waiting → writing → written → waiting` or `done`). `Expire` is the end of the wait
(after it `Cancel` has nothing to abort), `HandleTimeout` the blocking write of the id,
`Rearm` the rest. A timer that was erased while its thread is still in `HandleTimeout` is
freed memory: the thread reads what was there, or crashes.

**`Sessions`** says what a server promises without mentioning loops: a connection gets a
descriptor nobody else has, its user is called back twice while it is open, and then it
is closed. **`TcpServer`** is the server with its acceptor, pool and many connections.
Every loop's thread goes `poll → events → run → poll`: one batch of functors per turn, as
`HandlePendingFunctors` takes it. A connection is alive while somebody refers to it: the
server's `map`, a functor that is queued, running or executed in a batch that still
stands (`held`), or user code (`users`); a descriptor is open while its connection is
alive. `Established`, `Closed` and `Destroyed` say what the three methods make of a
connection, and have the asserts of `TcpConnection`, `Channel::Remove` and
`PollPoller::UpdateChannel` beside them. `failed` names what ended the program:
`"accept"` a failed `accept(2)`, `"destructor"` an assert of `~TcpServer` or
`~Acceptor`, `"assert"` any other, `"dangling"` a call of a destroyed channel. The server
may be destroyed in a functor or outside `Loop()`, where it becomes `"gone"`, or in the
callback of a timer or another server's channel, where it becomes `"torn"`: poll's list
may then have channels of its own. `~EventLoopThreadPool` (`EventLoopThreadPool.cpp:18`)
only tells the pool's loops to quit: it neither joins nor deletes its threads, so a pool's
loop goes on beside a server that is gone and stops at any later time (`StopLoop`). That
`~EventLoop` then fails its own assert (`threads_dtor`) is left out, so the model shows
more interleavings than a build with asserts has. `Shutdown` and `Send` are here for what
they may do to a connection the server removes. User code calls `Shutdown` on the
connection's loop in one step; on another thread it is a check and a store
(`ShutdownCheck`, `ShutdownStore`), on up to `MaxShared` connections, and any number of
threads may be between the two. A store that comes after `HandleClose` makes a closed
connection `DISCONNECTING`; a `Send` then enables its writing (`Reopen`, the slot becomes
`"writing"`), and its removal fails `Channel::Remove`'s assert. On the base loop all of
that can happen inside `HandleClose`'s own callback (`HandleCloseReopens`). A `Send` may
also raise `SIGPIPE` (`failed = "sigpipe"`); one that does neither changes nothing here.
The refinement maps the calls of `connectionCallback_` and the descriptors of the connections alive.

`MCEventLoop`, `MCPollPoller` and `MCTcpConnection` only give instances. Definitions named
`X_Something` and commented "Faulty variant" are deliberate bugs: each property is known
to fail when its definition `X` is replaced by one of them.

## 3. Runs

| Run | Instance | Shows |
|---|---|---|
| `loop` | 2 loops, 1 client, 4 functors, pipe of 1; symmetric | `NoLostWakeup`, `MutualBlockNeedsBacklog`, and that the loops implement `FunctorQueue` |
| `loop_live` | 2 loops, 4 functors posted in a fixed order, pipe of 1, fair | `PostedRuns` without poll timeouts, `QuitStops` with them, `WriterReleased` but for a reader that is itself blocked for good |
| `threads` | up to 3 threads, 3 picks per loop, no asserts, fair | `HolderHasMutex`, `LoopsExist`, `SpreadEvenly`, `StartReturns`, `QuitEndsThread` |
| `threads_dtor` | 1 thread, asserts | the assert of `~EventLoop` fails |
| `poller` | 3 channels, symmetric; every operation in every order, every combination of events ready | `BookkeepingOK`, `AssertsHold` (an assert fails only on a channel that was itself misused), implements `PollSet` |
| `buffer` | prepend area 2, initial room 2, extra buffer 3, vector up to 7 | `IndicesOK`, `FittingAppendOk`, implements `ByteQueue` |
| `buffer_space` | the same | an append that should get room fails an assert |
| `conn` | `Io` and 1 caller, 2-byte messages, one from `Io`, two from the caller; pooled or not, server destroyed or not, `Shutdown` called by nobody, `Io` or all; fair | `CarefulUseSafe`, `StreamIntact`, `NothingSkipped`, `WritingIffOutput`, `OutputKept`, `ShutdownCompletes`, `PeerLeftIsRemoved` |
| `conn_resurrect` | `Io` and 1 caller that calls `Shutdown` | an assert fails after a closed connection was reopened |
| `server` | 3 connections, one of them shut down by other threads too, 2 descriptors, no pool or one of 1 or 2 loops, fair | `AssertsHold` but for its three causes, `RegisteredExists`, `LeaversReleased`, implements `Sessions` |
| `timers` | 2 timers, 2 expirations each, pipe of 1, fair | `TimersKept`, `RunsAreExpirations`, `CancelledStaysQuiet`, `ExpirationRuns` |
| `timers_cancel` | the same | the assert of `CancelInLoop` fails |

**Why the bounds are enough to be interesting.** With a pipe of one message and four
functors, a writer blocks, messages stay behind after a batch, a batch of several
functors is swapped while others are posted, and two loops block on each other (which
needs `2 * PipeCap + 2` functors, as `MutualBlockNeedsBacklog` says); `loop_live` has the
same four, so that its properties meet that block as well. Three channels are
the fewest for a removal that moves one slot past another. The buffer's sizes make
appends that fit at once, fit after a move, need growth, and fall in the gap between,
and reads that end before, at and behind the end of the vector. Two messages per thread
show a loss in the middle; two bytes per message show a partial write. Two timers with
two expirations and a pipe of one make one thread block on another's id, an id stay in
the pipe across a cancel, and a repeating timer cancelled between two expirations.
Three connections with two descriptors make the third reuse one, or `accept(2)` fail for
want of one; two loops in the pool make the turn wrap round, and removals of connections
on different loops meet in the server's. One connection that other threads shut down
(`MaxShared`) is enough to reopen it before its removal, between its removal's two loops
and after it, while the others go their ordinary way; the descriptor it leaves is taken by
a connection that is not shared.
Symmetry is used in `loop`, over functors and over loops, and in `poller`, over
descriptors: nothing tells them apart, and the properties are safety properties. In
`loop_live`, where symmetry would not be sound, whoever posts a functor takes the next one
(`InTurn` in `MCEventLoop`); no fairness is assumed of those calls, so this only names the
functors in the order they are posted.

**Deadlock** is not checked where the system may really stop: two loops on each other's
pipes (`loop`, `loop_live`), a poller after an abort, a base thread that is done or joins a
loop that forgot its `Quit` (`LoopThreads`), a buffer after an abort, a connection or timers with nothing left.

**Fairness.** Threads are scheduled: weak fairness of each thread's own steps. Calls by
user code, `Quit`, timeouts, spurious wakeups and the peer have none. Stronger
assumptions stand where they are used:

* `loop_live`: nothing of `poll(2)` for `PostedRuns`, which leaves out a loop that is for
  ever blocked in a wakeup write (section 5); `QuitStops` assumes that poll times
  out (`TimesOut`), as it does after `PollTimeout`; `WriterReleased` that poll does not
  fail with `EINTR` for ever (`PollsWell`). It leaves out a writer to a loop whose own
  thread is for good blocked on a loop that is blocked too or does not loop
  (`BlockedOn`): two loops on each other's pipes is the case of it that section 5 has. The
  three properties do not say that such a block is absent: it is not.
* `threads`: a thread that waits for a mutex gets it if it is unlocked again and again
  (strong fairness of the lock steps).
* `conn`: each iteration of the loop polls and runs what was posted, so neither starves
  the other (strong fairness of `RunFunctor` and of each kind of event); the peer goes on
  reading while it has not left; a `Shutdown` that began is completed.
* `server`: weak fairness of each loop's thread and nothing else. Users may keep their
  references, peers and clients may stay for ever. `LeaversReleased` says that again and
  again all connections whose peers left are released; as peers do not come back and a
  released connection stays so, each of them is, in the end. A connection of a loop that
  stopped counts as released when the library has dropped it: nothing polls it.
* `timers`: the loop gets to its pipe, and a thread that waits for room gets it.

## 4. What is proved

Every invariant of the passing runs, every refinement and the one action property that
is not about fairness are theorems: they hold for every value of the constants, not
only in the runs' instances. Each proof module says of its component what an
inductive invariant has to say, proves that the initial states have it and that every
action keeps it (one lemma per action or group of actions), and reads the theorems off.
The inductive invariants were model-checked on the runs' instances before they were
proved.

| Module | Theorems | For all | Assumed of the constants |
|---|---|---|---|
| `EventLoopProofs` | `TypeCorrect` (`TypeOK`), `WakeupSafe` (`NoLostWakeup`), `ImplementsQueue` (`FunctorQueue`), `MutualBlockBound` (`MutualBlockNeedsBacklog`) | loops, clients, functors, capacities, infinite sets too | `PipeCap` is positive; loops and clients are different threads, none is `None` |
| `LoopThreadsProofs` | `TypeCorrect`, `HolderSafe` (`HolderHasMutex`), `LoopsSafe` (`LoopsExist`), `SpreadSafe` (`SpreadEvenly`) | numbers of threads and picks; asserts or none; the pool and single threads | `MaxThreads` is positive, `MaxPicks` a natural, `Asserts` a Boolean, `None` no natural |
| `PollPollerProofs` | `TypeCorrect`, `BookkeepingSafe` (`BookkeepingOK`), `AssertsSafe` (`AssertsHold`), `ImplementsPollSet` (`PollSet`) | sets of descriptors | there are finitely many descriptors (a process has a limit) |
| `BufferProofs` | `TypeCorrect`, `IndicesSafe` (`IndicesOK`), `FittingSafe` (`FittingAppendOk`), `ImplementsByteQueue` (`ByteQueue`) | sizes of the areas and lengths | the sizes are naturals; bytes are numbered modulo more than the vector holds |
| `TcpConnectionProofs` | `TypeCorrect`, `WritingSafe` (`WritingIffOutput`), `OutputSafe` (`OutputKept`), `CarefulSafe` (`CarefulUseSafe`) | threads, message lengths, numbers of messages, setups | `Io` is no caller; the lengths are naturals, that of a message positive |
| `TcpStreamProofs` | `StreamSafe` (`StreamIntact`), `NothingSkippedSafe` (`NothingSkipped`) | the same | the same |
| `TcpServerProofs` | `TypeCorrect`, `AssertsSafe` (`AssertsHold`), `RegisteredSafe` (`RegisteredExists`), `ImplementsSessions` (`Sessions`) | threads, connections, descriptors | the bounds are naturals; `None` is no descriptor or number |
| `TimerQueueProofs` | `TypeCorrect`, `TimersSafe` (`TimersKept`), `RunsSafe` (`RunsAreExpirations`), `CancelSafe` (`CancelledStaysQuiet`, an action property) | timers, capacities, expirations | `PipeCap` is positive, `MaxFires` a natural, `None` no timer |

**EventLoop.** `TypeOK` is inductive. A lemma, `DrainedInv`, says that the local vector is
empty outside `HandlePendingFunctors`, as the model keeps it in a variable of its own.
`NoLostWakeup` is inductive with `TypeOK`; the step to look at is `HandleRead`, which may
take the last message but leaves the thread at `events`, on its way to the swap, and
`TakeFunctors`, which leaves `pending` empty. The refinement needs `DrainedInv`: a swap is
a stutter only if nothing of an older batch is left, and a functor executed
is the head of `functors \o pending` (`ConcatHeadTail`); a post appends at its end
(`ConcatAppend`). `MutualBlockBound` is a counting argument. `Backed` says that the
messages in a loop's pipe and the threads about to write one are together no more than
the functors ever handed to that loop; `Apart` that those are distinct for distinct
loops. A writer blocked on a full pipe is one more than `PipeCap`, so two of them need
`2 * PipeCap + 2` functors. The sets of functors and threads may be infinite: what was
handed over so far is finite, and the invariant says so.

**LoopThreads.** One inductive invariant, `IInv`, has all four; none of them is
inductive alone. `InTurn` says that threads are started in order and that the i-th
pointer returned is the i-th thread's, which bounds `loops` and tells a thread being
started from those handed out. `Critical` says who owns the mutex at each place of
`Start` and `ThreadFunc`, and that `holder_` is cleared before the mutex is given up:
`HolderHasMutex` needs it at every release. `Published` says that a `loop_` that is set,
hence one that was returned, belongs to a constructed `EventLoop`, and that a thread
past `Loop()` has seen `quit_`. `InRotation` counts the turns: loops before `next_` are
one ahead of the others.

**PollPoller.** `BookkeepingOK` and `AssertsHold` are inductive with two facts the code
relies on without a word: who is not in the poller asks for nothing (`StrangersQuiet`),
and a slot that asks for nothing is negated (`EmptyIgnored`), on which `RemoveChannel`'s
last assert depends, unless its channel was misused. Every order of calls is covered:
`AssertsHold` says that an assert takes a misuse of the very channel it is about. That the
slots belong to different channels makes room for one more (`RoomForOne`), which bounds
`index_`. In the refinement a swap-removal takes one
descriptor out of `muted` and moves another's slot without changing the set.

**Buffer.** `IndicesOK` is inductive; the work is in what the helpers make of the bytes
stored: `ResizedKeeps` and `MovedKeeps` keep them, `AppendedStores` adds at the end,
`RetrievedDrops` takes from the front, and `ArrivalsSplit` joins the two halves of a
`readv`. `FittingAppendOk` follows: where `MakeSpace` moves, the bytes end up at
`PrepSize`, and what fits behind that is room enough. The hypothesis is needed:
`buffer_space` shows what happens without it.

**TcpConnection.** `IInv` ties `WritingIffOutput` and `OutputKept` to why a channel is
taken down. `Left` says that it is only because the peer left or the server may die,
`Dispatching` that the events still to be dispatched have their reason, `Up` that a
connection in `CONNECTED` is polled, `Fresh` that nothing happens before establishment.
`Staged` is a conjunct under `Careful` only, since without it the code does fail: for
each stage between the end of the stream and the removal of the channel it says what
has been done and which single functor or call is left to do.

**The stream.** `TcpStreamProofs` adds what the runs' two-byte messages show, for all
lengths. `StreamInv` has the accepted stream, `wire \o output`, made of whole messages
(`Intact`); each posted `Send` is one whole message none of which is in the stream
(`Waits`), the functors of one thread are in the order of their bytes (`InOrder`), and a
thread has sent whole messages (`Numbered`). `FlowStep` sorts the actions by what they
do to the stream: leave it, post, send at once, send what was posted; a message
extends an intact stream to an intact one (`ExtendsIntact`). For `NothingSkipped` the
byte before each message is in the stream or in a functor that is still posted
(`Chained`) until the connection is `Dead`; that is for good as long as no other thread
calls `Shutdown` (`DeadStep`), the condition that `conn_resurrect` shows to be needed.

**TcpServer.** `Staged` has every connection in one of five stages, from unborn to gone,
with the state, slot, number of calls and membership in the map that belong to it.
`Posted` says that there is at most one functor about each connection among all a loop
has to execute, on the loop and at the stage its assert demands; `DestructionPosted`
that what is erased but still polled has its destruction posted, which keeps it alive.
`Called` says that whoever is about to be called is open, unless the server is torn,
and `Distinct` that no two connections alive share a descriptor. `AssertsHold` and
`RegisteredExists` follow, and each step is a step of `Sessions` or a stutter because
a connection's stage moves only forward. A connection that a `Shutdown` on another thread
reopened on the base loop inside `HandleClose` is in a stage of its own, `Stuck`, in which
the program has ended; `Marked` says that who is about to be marked has been connected, so
that a late mark meets no connection that is still to be established. `AssertsHold` says nothing of the destructors' own asserts, of a torn server or of
a reopened connection: the code fails there (section 5).

**TimerQueue.** The number of copies of an id in the pipe is what the argument counts:
`Accounted` says that runs, copies and a write under way are together no more than the
expirations. With `OneShot` that leaves a one-shot timer a single copy, so the entry
erased after its run is not looked for again. `Listed` and `Fresh` give the rest of
`TimersKept`: a timer with a live thread or an id in the pipe is in the list, and one
functor at most adds each.

**Only model-checked.** Liveness, which is out of the prover's reach: `PostedRuns`,
`QuitStops`, `WriterReleased`, `StartReturns`, `QuitEndsThread`, `ShutdownCompletes`,
`PeerLeftIsRemoved`, `LeaversReleased`, `ExpirationRuns`. The runs that expect a
violation are counterexamples and need no proof.

## 5. What the code does not keep

Shown by a run:

* **`threads_dtor`**: `~EventLoop` asserts `looping_` (`EventLoop.cpp:60`), which `Loop()`
  has cleared. Every loop that ran and is destroyed aborts a debug build, so each
  `EventLoopThread` that is told to quit does.
* **`buffer_space`**: `MakeSpace` (`Buffer.cpp:45`) counts the whole of
  `PrependableBytes()` as room, though a move frees `prepSize` less. An append of up to
  `prepSize` bytes more than fit, e.g. 1025 to 1032 bytes into a new buffer, fails an
  assert; without asserts it is copied beyond the end of the vector.
* **`conn_resurrect`**: the check and the store of `Shutdown` (`TcpConnection.cpp:114`)
  on a thread other than the loop's may have `HandleClose` between them. The connection
  goes from `DISCONNECTED` back to `DISCONNECTING`, and `Send` works on it again; what it
  sends may follow a message that was dropped while it was closed.
* **`timers_cancel`**: `CancelInLoop` (`TimerQueue.cpp:78`) asserts that the timer is
  there; a one-shot timer that fired is not.

Seen while modelling, without a run:

* `EventLoop.cpp:18` defines a class whose constructor ignores `SIGPIPE`, but there is no
  object of it: a write that fails with `EPIPE` kills the process, and the branch of
  `SendInLoop` for it (`TcpConnection.cpp:93`) is never reached. It takes an established
  connection whose peer closes its end and then resets, or resets once and had its error
  read, and a `Send` before the loop has handled that; or a `Send` behind the SHUT_WR of a
  `Shutdown`. `TcpConnection!WriteError` and `TcpServer!Send` have the death as an outcome
  (`killed`, `"sigpipe"`), so every property of theirs says what holds until then.
* In `TcpServer` as in `TcpConnection`, a `Shutdown` on another thread may reopen a closed
  connection (`Reopened`); what fails is `Channel::Remove`'s assert in
  `ConnectionDestroyed`, or `UpdateChannel`'s if the channel is removed already.
* `~EventLoopThread` before `Start` calls `Quit()` on a null `loop_` and would look at a
  null `thread_` (`EventLoopThread.cpp:20`; `LoopThreads!DestroyUnstarted`).
* The destructor's cases, all in `TcpServer!DestructorAsserts`. `~TcpServer`
  (`TcpServer.cpp:36`) runs `ConnectionDestroyed` on the server's loop: for a connection of
  a pool loop that is the wrong thread, and `AssertInLoopThread` ends the program. For a
  connection of its own loop that is `DISCONNECTING`, the channel is removed without being
  disabled (`TcpConnection.cpp:44`), and `Channel::Remove`'s assert fails. `~Acceptor`
  (`Acceptor.cpp:23`) before `Listen` registers a
  channel that asks for nothing with the plain descriptor (`PollPoller.cpp:69`), and
  `RemoveChannel`'s assert on the negated one fails. `PollPoller` has both as misuses.
* `sockets::Accept` calls `SetNonblockAndCloseOnExec` before it looks at the result
  (`SocketOps.cpp:77`). On -1 its `fcntl` fails and `LOG_FATAL` ends the program: the
  switch that lets `EAGAIN`, `EMFILE` and others pass (`SocketOps.cpp:82`), and
  `Acceptor::HandleRead`'s branch for them, are never reached. A server out of descriptors
  dies of the next client (`TcpServer!AcceptFails`).
* `TcpServer::start_` is tested but never set (`TcpServer.cpp:49`): a second `Start` gets
  as far as the pool's own assert.
* A muted slot's descriptor is never restored: a channel that asks for events again is
  not polled. Only a connection that was reopened does that in the library.
  `PollSet` states it as the code does it, so no property would catch it.
* `Quit()` before the thread enters `Loop()` is forgotten; `~EventLoopThread` then joins
  for ever. `Quit()` on a loop that sleeps takes up to `PollTimeout`, 10 s.
* Two loops that post to each other can block on each other's pipes for good; `loop` and
  `loop_live` reach it, and `MutualBlockNeedsBacklog` says what it takes. A loop can
  also block on the full pipe of one that is idle because it never enters `Loop()` or has
  left it; the functors posted to the blocked loop then wait with it.
* Functors posted after the last swap of a loop that quits never run.
* `Send` from another thread keeps a raw pointer to the caller's data.
* A peer's half-close drops the output that is still queued for it.
* A repeating timer cancelled between expiration and re-arming goes on firing, unheard;
  its entry is never erased. A one-shot timer may be freed while its thread is still in
  `HandleTimeout`. `~TimerQueue` closes the pipe under its threads.
* `activeChannels_` holds raw pointers: a callback that destroys another ready channel
  leaves one dangling. A `TcpServer` destroyed in the callback of a channel that is not
  its own does that to its connections (`server = "torn"` in `TcpServer`).

## 6. What is left out

* Payloads, addresses, names, log output, socket options, `writeCompleteCallback_`
  (`TcpServer` never sets it).
* The number of bytes in `inputBuffer_` of a connection: reading never fails for it, and
  `Buffer` has its own model. `TcpServer` has of a connection only what the server
  relies on; messages, errors and `EINTR` are in `TcpConnection` and `EventLoop`.
* `~TimerQueue`. Only `~EventLoop` runs it, and fails its own assert first; without
  asserts it closes the pipe under timer threads, whose writes then fail or reach
  whatever got the descriptor.
* `TimerFd` and `CountDownLatch`: nothing in the library constructs one. `TimerFd::SetTime`
  tests and sets `isTiming_` in two steps (`TimerFd.cpp:32`), so two threads may both start
  a timer.
* `Buffer::Swap`, `Channel::DisableReading`, `Condition::NotifyOne`: no callers.
* User code that destroys a server inside a callback of one of its own connections, or
  quits a loop that others own.
* Memory order: `state_`, `quit_`, `looping_` are atomics, the rest is behind a mutex or
  on one thread, `Timer::cancelled` included; `EventLoopThread::loop_` is read and cleared
  outside the mutex, and so are `holder_`'s reads. `Timer::Cancel` calls into asio's timer
  from another thread than the one that waits on it, which asio does not support: it is
  modelled as if it worked.

## 7. Plan

1. Done: `FunctorQueue`/`EventLoop` and `LoopThreads` with their proofs,
   `PollSet`/`PollPoller`, `ByteQueue`/`Buffer`, `TcpConnection`, `Sessions`/`TcpServer`,
   `TimerQueue`.
2. Done: the proofs of every safety property and refinement (section 4).
3. Proofs to add: facts about steps that the inductive invariants give and no run
   checks yet: that two loops that block each other do so for good, that a connection of
   `TcpServer` moves through its stages only forward, that a closed `TcpConnection` stays
   closed in a careful use.
4. Composition: the queues of `TcpConnection` and `TcpServer` instantiated from
   `FunctorQueue`, so that the models meet in one interface.
