# Formal models of apollo

apollo is a C++ network framework for Linux in the reactor style: event loops
with one thread each, TCP connections that live in them, a caching memory
allocator behind `operator new`, a logger, and an RPC layer found through
ZooKeeper.  This directory holds TLA+ modules translated from its source, the
TLC runs that check them on small instances, and TLAPS proofs of what holds for
every instance.  Paths below are relative to `apollo/` in the repository.

The repository has no tests; its documentation is `README.md` and the comments.
As it stands it does not compile (`include/mempool/radixtree.h:72` and `:90`,
`include/rpc/rpcprovider.h`, and `net/connector.h` holds an implementation the
build never compiles); the models follow what those lines plainly mean.

## 1. The system

| Component | State | Operations | Talks to |
|---|---|---|---|
| `EventLoop` | `quit_`, `pendingFunctors_` (mutex), `callingPendingFunctors_`, eventfd | `loop`, `quit`, `runInLoop`, `queueInLoop`, `wakeup`, timers | its poller, any thread |
| `Channel`, `EPollPoller` | interest in events, status in the poller, tie | `enable*`, `disable*`, `remove`, `handleEvent`, `poll` | `EventLoop`, `TcpConnection` |
| `PollPoller` | array of `pollfd`, map of descriptors, index kept in the channel | the same | alternative to `EPollPoller` |
| `EventLoopThread`, `Thread` | `loop_` (mutex, condition variable), joined or detached | `startLoop`, `threadFunc`, destructor | `EventLoop` |
| `EventLoopThreadPool` | loops, `next_` | `start`, `getNextLoop` | `TcpServer` |
| `TcpConnection` | `state_` (atomic), channel, input and output `Buffer`, callbacks | `send`, `shutdown`, `forceClose`, `connectEstablished`, `connectDestoryed`, `handle*` | its loop, other threads, `TcpServer` or `TcpClient` |
| `TcpServer`, `Accepter` | map of connections, pool | `newConnection`, `removeConnection`, destructor | pool loops, connections |
| `TimerQueue` | sets of timers by time and by identity, those cancelled during callbacks, timerfd | `addTimer`, `cancel`, `handleRead`, `reset` | `EventLoop`, `Connector` |
| `Connector`, `TcpClient` | `connect_`, `state_`, retry delay, connection (mutex) | `start`, `stop`, `restart`, `handleWrite`, `retry`, `disconnect`, destructor | timers, `TcpConnection` |
| `Buffer` | bytes, reader and writer index | `readFd`, `append`, `retrieve` | `TcpConnection` |
| Allocator | per thread: free lists; per size class: spans (mutex); pages: lists of spans, page map, pool of `Span` (mutex); sbrk heap | `concurrentAlloc`, `concurrentFree` | everything that allocates |
| Logger | map of loggers, appenders, formatters (a mutex each) | `log`, `setFormatter`, `addAppender`, `delAppender`, `reopen`, `init` | `ConfigParser`, everything |
| `ConfigParser` | the parsed `config.json` | `parse` | Logger, RPC |
| RPC | services by name; package and result of a call; a ZooKeeper session | `notifyService`, `run`, `onMessage`, `CallMethod` | `TcpServer`, `TcpClient`, `ZkClient`, protobuf messages |
| `ZkClient` | a session; its semaphore | `start`, `create`, `getData` | the ZooKeeper server |

**Where it is hard.**  A loop's queue, `quit_` and the wakeups are touched by any
thread between any two steps of `loop()`.  A connection's `state_` is read by
other threads before a functor reaches its loop.  A connection is held by shared
pointers in the server's map, in functors and in callers, while its channel
knows it by a weak pointer and some functors by a bare one.  A connection is
closed in one loop and leaves the map in another.  A thread is told to end in
steps that interleave with its beginning.  The allocator moves objects between
four owners under three kinds of locks, one of which is released in the middle of
an operation, and finds a block's span through a map read without a lock.  A
`Connector` gives a channel up in one functor and destroys it in the next, while
timers it cannot cancel are pending.  `PollPoller` moves entries of an array whose
indices others keep.  The bytes of a stream arrive cut up anywhere and pass through
buffers that move them.  An RPC provider may die between any two steps, and its
ZooKeeper session lives on.  Loggers take each other's mutexes.

**What makes each component correct.**

- `EventLoop`: no functor is lost, run twice or out of order; the loop does not
  sleep over a functor or a `quit()`.
- `EventLoopThread`: `startLoop` returns a loop that exists; the destructor ends
  the thread.
- `TcpConnection`, `TcpServer`: one callback when a connection comes up and one
  when it is gone; the poller holds no channel of a dead connection; bytes leave
  in order; a shutdown comes after what was sent before it; a closed connection
  leaves the server.
- Allocator: blocks in use are disjoint; a block finds its way back to where it
  came from; no object is in two places; spans are cut and joined without loss.
- Timers: a timer runs, and not after it was cancelled; none is used after it was
  deleted; the timerfd is armed whenever a timer waits.
- `Connector`, `TcpClient`: one attempt at a time, whose descriptor is closed or
  handed over; none after `stop`; the poller holds no channel of an attempt that is
  over; a client that is to reconnect does.
- `PollPoller`: array, map and the channels' indices agree.
- `Buffer`: what is appended comes out, in order, wherever the bytes are moved.
- RPC: a method runs at most once for a call; a call returns its own answer or an
  error, and returns; an address found is that of a provider that registered it.
- Logger: lines are not mixed; the mutexes do not deadlock.

## 2. Modules

| Module | Models | State and actions |
|---|---|---|
| `TaskQueue` | what an `EventLoop` promises, as an abstract specification | a queue, what was executed, whether the loop runs |
| `EventLoop` | `net/eventloop.cc`, with `poll` and `handleEvent` | `pc` is where the loop's thread is: outside `loop()`, at its `while`, in `poll`, among events, in a callback, before the swap, in the batch, in a functor. A push, the eventfd write that follows it, the swap and each functor are separate actions |
| `EventLoopThread` | `net/eventloopthread.cc`, `net/thread.cc` | extends `EventLoop` with the owner and the thread: creation, the wait on the condition variable (spurious wakeups included), publication of `loop_`, `loop()`, its end, the two stages of the destructor |
| `TcpConnection` | `net/tcpconnection.cc`, `net/channel.cc` and `updateChannel`/`removeChannel` of `net/epollpoller.cc` | a connection is a record; each handler is a function on it |
| `TcpServer` | `net/tcpserver.cc`, `getNextLoop`, and the threads that call a connection | a queue of functors per loop, the map, the handles of user threads; an operation from outside the loop is three steps: read `state_`, write it, queue the functor |
| `TcpClient` | `net/tcpclient.cc` and the `Connector` of `net/connector.h` | extends `TcpConnection`; the sockets and who owns each, the attempt's channel, timers, the events and functors of the loop's turn, and the steps of another thread's call |
| `Buffer` | `net/buffer.cc` | a record and the functions the methods are |
| `PollPoller` | `net/pollpoller.cc` | `pollfds_`, `channels_` and each channel's index; `updateChannel` and `removeChannel` as functions of them |
| `EchoServer` | `handleRead`, `send` and `handleWrite` of connections with their buffers, over `PollPoller` | extends both: the kernel's bytes, the two buffers, descriptors given out again; `poll`, one event and one functor are an action each |
| `SizeClasses` | `AlignHelper` (`include/mempool/utilis.h`) | pure functions |
| `PageCache` | `mempool/pagecache.cc`, `RadixTree::get/set`, `ObjectPool`, `SpanList` | a record and the functions `newSpan` and `revertSpanToPageCache` are made of |
| `Heap` | `concurrentAlloc`, `concurrentFree`, `ThreadCache`, `CentralCache` | extends the two; `fetchRangeObj` is one action if the bucket has an object, else three, as `getOneSpan` releases its lock |
| `TimerQueue` | `net/timerqueue.cc`, `net/timer.cc`, `runAfter`, `runEvery` and `cancel` of `EventLoop`, `Timestamp` | timers at addresses that are used again, the three sets, the batch `handleRead` is running, the timerfd and a clock of seconds; `handleRead` is one action up to the first callback, one for each callback, one for `reset`, so that code in callbacks and other threads acts in between |
| `Message` | the generated `*.pb.cc` and `*.pb.h` | a message is the tuple of its fields; serializing and parsing are functions to and from tags and values |
| `RpcRegistry` | `RpcProvider::run` and `rpc/zkclient.cc` | znodes and sessions (the external server's), where each provider is; `zoo_exists` and `zoo_create` are two actions |
| `Rpc` | `rpc/rpcchannelimpl.cc`, `rpc/rpcprovider.cc`, the example's service | extends `RpcRegistry` and `Message`: where each caller is, the bytes both ways, `result_`, the response; `onMessage` of the provider is one action that takes the bytes it got apart |
| `LogFormatter` | `LogFormatter::init` | a function of the pattern |
| `ConfigParser` | `configparser.cc` | which file is accepted, and the loggers in it |
| `Logger` | `logger/logger.cc`, `logappender.cc`, `logevent.cc` | extends the two; who holds which mutex and what it waits for, one item of a line at a time |
| `*Proofs` | theorems (section 4); each begins with what it needs of sequences | |
| `MC*` | values of the constants for TLC | |

In `TcpServer` a loop is what `TaskQueue` says of it: a queue of functors its
thread runs in order, among the events of its channels.  That `EventLoop` keeps
this promise is checked by the run `loop` and its safety part is proved, so the
larger models need not repeat the wakeups.  `Rpc` in the same way stands on what the
runs of the TCP modules show: bytes in order, and the end of a stream after them.

Names are the source's where TLA+ allows (misspellings included:
`connectDestoryed`).  Definitions whose name ends in `Mutant` are plausible bugs of
the definition they are named after; each property is known to fail with one.

## 3. Runs

`P` runs pass; `V` runs are meant to find the violation they name (section 6).

| Run | Kind | Instance | Shows |
|---|---|---|---|
| `loop` | P | 2 clients, 3 functors, 1 channel | a sleeping loop has a wakeup due if a functor (`NoLostWakeup`) or a `quit()` (`NoLostQuit`) waits; `EventLoop` implements `TaskQueue`, safety and fairness; with no timeout of `poll` at all, every functor is run unless it was queued by the loop's own thread before `loop()` (`PromptRun`), and `quit()` ends the loop (`QuitReturns`) |
| `elt_handshake` | P | owner, 1 user | `startLoop` terminates with a loop that exists; the destructor of a *running* loop returns and no thread outlives the object |
| `tcp_lifecycle` | P | 2 connections in a pool of two loops, 2 messages, a thread that sends, callbacks that send and shut down, the server destroyed at any time | callbacks once each and in order; no channel of a dead connection in the poller; bytes in order; what was sent before a shutdown is on the wire before the end of the stream |
| `tcp_live` | P | 1 connection without a pool, everyone calls everything | a closed connection leaves, a shutdown completes, whatever races |
| `client` | P | 2 sockets, all results of `connect(2)`, with and without `enableRetry`, 2 calls of another thread, destroyed by either thread | `PolledChannelsLive`, `SocketsOwned`, `ConnectionKnown`, `StopHolds`; a client that is to reconnect does (`Reconnects`) |
| `echo` | P | 3 connections over 2 descriptors, 3 bytes, buffers of 1 byte, `extrabuf` of 1 | `PollfdsMatch`: array, map and indices agree, whatever is removed from the middle; `BytesPreserved`; every connection is `Served` |
| `heap_threads` | P | 2 threads, 3 sizes, 2 blocks at a time, blocks freed by either thread | blocks are disjoint and inside the heap; the page map leads from each block to its class; each object is in one place and `useCnt_` counts those out of the span; free spans are in the list of their size and mapped at both ends; no page is lost |
| `timer` | P | 2 timers at 2 addresses, added and cancelled by another thread, the loop and callbacks | each timer is in `timers_` and `activeTimers_`, or in the batch, or on its way to the loop, and in one of these only, so it is deleted once (`OwnedOnce`); it runs as often as asked and only its own cancellation ends it early (`RunsAsAsked`); it is gone after one (`CancelledIsGone`); the timerfd is armed, and every timer comes to run |
| `rpc` | P | 2 callers (2 calls and 1), 2 providers started twice each, 1 killed | `AddressesFresh`, `RunsWhatWasAsked`, `AnswersOwnRequest`, `NoneForgotten` |
| `logger` | P | 2 threads, 2 loggers, 2 appenders, 3 operations | lines are not mixed; nobody waits for a mutex in a circle |
| `elt_quit_lost` | V | owner only | `QuitFromOwnerQuits` |
| `rpc_success` | V | 1 caller, 1 provider | `SuccessIsAnswered` |

The type invariants (`TypeOK`, `EltTypeOK`) hold in these instances as well; no run lists
them, as the other invariants say more.  Theorems use those of `EventLoop` and
`EventLoopThread`.

**Bounds.**  A functor and a message is used once (`Functors`, `Messages`): order
and loss show with two or three, and nothing in the code depends on how many
there were.  Two clients are enough for pushes and eventfd writes of different
threads to overlap with each other and with the loop; one user thread is enough
for the races with a connection's loop, as users share nothing but `state_` and the
queue.  A message is two chunks, so a write takes all, part or none of it.
`highWaterMark_` changes nothing the models observe beyond the branch it selects.

*Client.*  Two sockets let an attempt begin while the connection of the last one, or
its channel, is still there; `MaxCalls` = 2 calls of the other thread are a stop and
what undoes it.  `MaxConnects` = 1 is the documented use: `connect()` once.

*Echo.*  With three channels a removal from the middle of the array moves an entry,
and with two descriptors a descriptor is given out again.  A vector of one byte with
one in front makes every append choose between moving, growing and neither; with an
`extrabuf` of one byte `readv` fills one part, or both, or leaves bytes behind.  One
peer sends three bytes and the others none: the proof covers the bytes for any number
of peers, and what the others do to the poller is what this run is for.

*Heap.*  The sizes and the 129 page lists are the code's own; `Requests`
has a class of two objects a span, a span the lists take back and one they do not;
`MaxPage` = 300 pages allows two times `sbrk` of 128 pages, hence cutting, joining
and the limit on joining; `Gaps` puts a page of foreign memory between two spans
or not; `MaxSpans` and `MaxHeld` bound what is cut and held.

*Timer.*  Two timers are enough for one to expire with, before or after the other, to
cancel the other from its callback, and to be created at the address of the other; a
second has two microseconds, so that the units do not hide the rest (findings), and
every timer runs within `MaxClock` = 5 seconds.

*Rpc.*  Two calls of one caller show what is left from the first; the second caller
shows that answers do not cross.  A provider is started twice (`MaxRuns`), so its znodes
may be those of its first session; the second provider meets them between its
`zoo_exists` and `zoo_create`.  One kill (`MaxCrashes`) beside the exits of the code.

*Logger.*  Two threads are enough for a circle of two mutexes, and one for a circle
through the root logger.  An empty pattern, one that is an error and one of two items are
given to `setFormatter`.  `MaxOps` = 3 operations; the clock runs from 3 to 6 seconds,
so that a file is opened again.

**Where a run stops.**  `CHECK_DEADLOCK FALSE` is used where the bounded number of
connections, blocks, calls or operations lets the system come to rest, and for
`EventLoopThread`, which ends.  `loop` is checked for deadlock; `logger` checks its own,
`NoDeadlock`: that nobody waits for a mutex that leads back to it.

**Fairness.**  `loop`: weak fairness of the loop's own thread and of a client that
has pushed and must still write the eventfd; none for the timeout of `poll`, for
I/O, or for calling any operation.  A running thread is scheduled again and again,
and its callbacks return: nothing else is assumed.  `RefinesTaskQueueFairness` adds
the timeout as a premise, as `TaskQueue` promises progress for functors queued
before `loop()` too, and only the timeout gives it.  `elt_handshake`: the same for the
owner and the thread; spurious wakeups are never owed.  `TcpServer`: weak fairness of
each loop's queue, of an event of each connection (epoll is level-triggered: an
event that stays ready is reported) and of a user thread inside an operation.  The
kernel's taking of bytes is part of the write event: an open peer reads.
`timer`: the clock moves on, a ready timerfd is handled, callbacks return; and strong
fairness of the loop's functors, since each turn of `loop()` ends with
`doPendingFunctors` whatever events it began with.  `echo`: weak fairness of the loop's
turn as a whole, no more: each turn handles all that is ready.  `client`: the loop's
turns; `Poll(TRUE)`, a turn that finds a timer expired; the other thread completes its
calls; and, as `Reconnects` is about what the client does and not about the network,
of attempts made again and again one succeeds.  Nothing makes the client itself try.

## 4. Proofs

The theorems hold for every value of the constants that satisfies the named
assumptions.

**`EventLoopProofs`**, for any set of threads, functors and channels (the loop's
thread is one of the threads, the wakeup channel is not a user's).

- `TypeCorrect`: `[]TypeOK`.
- `WakeupNeverLost`: `[]NoLostWakeup`.  Not inductive alone: that a wakeup is due must
  be kept from a push until `poll`, through the handling of events and the batch.
  `WakeupInv` says where the loop's thread may be with functors queued and no wakeup
  due: only before the swap that will take them.  `BatchInv` says that the local
  `functors` is empty outside the batch.
- `QuitNeverLost`: `[]NoLostQuit`, from the same invariant.
- `ImplementsTaskQueue`: every behaviour satisfies the safety part of `TaskQueue`,
  under the mapping `queue` = the batch followed by `pendingFunctors_`, `looping` = the
  thread is inside `loop()`.

- `StartLoopReturnsLoop` (`[]StartLoopGivesLoop`) and `ThreadEndsFirst`
  (`[]NoThreadOutlivesObject`), of `EventLoopThread`.  The invariant relates three views
  of one handshake: `loop_` is set exactly between the two critical sections of
  `threadFunc` (`PointerInv`); nobody has quit the loop before the destructor (`QuitInv`);
  and there is a thread from `startLoop` on, for which the object is still there
  (`OwnerInv`).

The loop's own invariant is `IInv == TypeOK /\ BatchInv /\ WakeupInv /\ NoLostQuit`; the
proof has a step per action.

**`TcpServerProofs`**, for any connections, messages, user threads and pool of loops.

- `ServerBytesInOrder`: `[]BytesInOrder`, with no hypothesis: whatever the callbacks and
  the other threads call, and wherever the server is destroyed.
- `ServerPolledConnectionsLive` (`[]PolledConnectionsLive`) and `ServerSentBeforeShutdown`
  (`[]SentBeforeShutdown`), where threads other than a connection's loop only send on it
  (`OnlySends`, as in the run `tcp_lifecycle`).  Their `shutdown` and `forceClose` store
  `kDisconnecting` over `kDisconnected`, so that a later `send` brings a removed channel
  back into the poller, and end the stream before messages that still wait (section 6).
- `ServerUpThenDownOnce` (`[]UpThenDownOnce`), where moreover no callback calls
  `forceClose` on a connection of a server that may be destroyed (`NoLateForce`); TLC shows
  that this is needed as well (section 6).

None of the three is inductive.  `Life` says of one connection what its `state_`, its
channel's status and interest, its output buffer, the functors queued for it and its
place in the map have to do with each other: that a channel in the poller is in the map
or has a functor coming that will remove it (`Closes`), that `kConnecting` is exactly the
time before `connectEstablished`, and that a send to a connection nobody will remove any
more does not enable writing (`Quiet`).  `Told` adds how often each callback has run.
`Ordered` gives what `Life` needs of the queues: `connectEstablished` comes before
everything else that is queued for a connection, in the connection's own loop.
`SentInv` says which loop accepted a promised message.  The proof goes through a
connection's handlers first, as functions on its record, and lifts each to the server.

**`TimerQueueProofs`**, for any timers, finite set of addresses, delays, intervals and
threads: `TimerOwnedOnce` (`[]OwnedOnce`), `TimerRunsAsAsked` (`[]RunsAsAsked`),
`TimerCancelledIsGone` (`[]CancelledIsGone`) and `TimerTimerfdArmed` (`[]TimerfdArmed`).
What makes them inductive: an id that is still around anywhere, in a functor, with a user
or in `cancelingTimers_`, never names the timer that has the address now unless it is
that timer's (`SequenceInv`), which is what the sequence numbers are for; there is one
`addTimerInLoop` for a timer (`TaskInv`); the batch has a timer once (`BatchInv`); a timer
in it has run exactly if `handleRead` is past it (`RanInv`); which of its timers are
cancelled is remembered, and only these (`CancelInv`); the timerfd is set for no later
than any timer while `handleRead` does not run (`ArmedInv`).  `DeadlineOrder` is what the
last one needs of `howMuchTimeFromNow`; `MinIsLeast`, that the begin of `timers_` is
there.

**`HeapProofs`** begins with `SizeClasses`, for every size up to `kMaxBytes`: `RoundUpFits`
(a block is as large as asked for, by less than the alignment more), `IndexInRange` (one of
the 208 lists), `FreedWhereTaken` (the rounded size has the class of the size asked
for, so `concurrentFree`, which knows only the former, finds the list),
`OneSizePerClass` (blocks of a list have one size), `SpanOfClassIsListed` (a class's span
has 1 to 128 pages and holds an object, so it is mapped page by page).  Five
ranges, one division each: `Ranges` states it and the rest follows by arithmetic.

The rest is about `Heap`, for any threads, any requests and any gaps in the memory `sbrk`
gives, however much is allocated: `FreedBlocksFindTheirClass` (`[]FreeFindsClass`),
`FreeSpansAreListed` (`[]FreeSpansListed`), `PagesAreKept` (`NoPageLost`),
`ObjectsAreInOnePlace` (`[]ObjectsInOnePlace`) and `HandedOutIsDisjoint`
(`[]HandedOutDisjoint`).  None of these properties is inductive.  The invariant has three
layers, and TLC checked each on the instance of `heap_threads` before its proof.

- `Good(c, Y, X)` is what `PageCache` relies on.  Spans lie in the heap and apart (`Laid`);
  each that is not in use is in the list of its size, once, and has no object out
  (`Listing`); the page map knows pages of live spans only, leads to a span in use from all
  its pages (from the first, if the lists cannot keep it) and to another from its two ends
  (`Mapping`).  The last is why a stale entry does no harm: what `revertSpan` finds next to
  a span and not in use is a whole span, which ends or begins there (`NeighbourIs`).
  Inside `newSpan` and `revertSpan` spans are for a while in no list or not yet mapped: `Y`
  and `X` are those.  `NewSpanIs` and `RevertSpanIs` go through the code in its order, one
  lemma a step; the two loops of `revertSpan` are an induction on their turns, which
  `JoinAllIs` does by hand (`UpTo`).
- `HeapIs` says what the clients have of it.  A span in use is cut into objects of one class
  or is one large block; the buckets of `CentralCache`, the `FreeList`s and the program have
  objects of spans in use, of the class they are kept under; a span a thread has made and
  not yet added is in nobody else's hands (`FetchingOk`).
- `PlacedIs` says that what is out of a span is with the program or in one list, once, and
  that `useCnt_` counts it.  It also covers the span between `GetSpan` and `AddSpan`, which
  `ObjectsInOnePlace` does not see.

Every theorem about `Heap` assumes `~FreesHuge`, that spans above 128 pages are not given
back: `brk(2)` takes what lies above with them, and `NoPageLost` and `HandedOutDisjoint` fail
(section 6).  `HandedOutIsDisjoint` assumes in addition
that the last object of a class's span has room for the bytes asked for (`RoomForLast`), as
it need not where the class does not divide its span.  117 of the 208 classes divide it,
among them all up to 512 bytes and all above 64 KB (`RoomAtBothEnds`), so
`SmallAndLargeLieApart` needs no such assumption for a program that asks for these.

**`EchoServerProofs`** begins with `Buffer`, for any sizes of it, its spare bytes and
`extrabuf`: `AppendAppends`, `ReadFdAppends` and `RetrieveTakes` say what the methods do to
the bytes that are readable, and that the indices stay in order.  `WriteAppends` is the
common part; moving and growing leave what is readable as it is.

`EchoPreservesBytes` (`[]BytesPreserved`), for any number of connections and bytes.  The invariant adds to the property that both buffers of every
connection are in order; each action moves a prefix of one of the four sequences to the
end of the one in front, by the theorems about `Buffer`, and concatenation is
associative (`CatAssociative`).

`PollerAgrees` (`[]PollfdsMatch`), for any number of connections and descriptors, in the
same module.  `PollerInv` adds to the property that the map holds exactly the channels
whose connections live, and that every descriptor in the array, negated or not, is that of
the channel whose index leads there.  That does not suffice: `removeChannel` of a channel
that is not registered, or was removed before, would spoil the array, so `LoopInv` says
what the loop has still to do: its active channels are distinct and live, its queued
`connectDestoryed` are for distinct live connections, and a channel whose end of stream is
still to be read has none queued.

**`RpcProofs`**, for any providers, services, methods and callers (services and methods
are finitely many).

- `RoundTrip`, of `Message`: for any message of up to three fields the bytes written are
  parsed to it again, whichever fields are left out because they have their default value.
  `Shape` says where in the bytes each field is.
- `AddressesStayFresh`: `[]AddressesFresh`.  The invariant adds that a provider that
  talks to the server has a session the server keeps (`SessionInv`), which is what makes
  the owner of a znode one that still exists, and what a znode with an address is named
  (`PathInv`).
- `PackageUnderstood`: `onMessage` takes any package `CallMethod` builds apart into the
  request it was made of, and runs the method: no length is misread, nothing is ignored
  or thrown.  From `RoundTrip` of header and arguments, and `SubstrOfConcat`.
- `CallsAreTheirOwn` (`[]RunsWhatWasAsked`), `AnswersAreTheirOwn` (`[]AnswersOwnRequest`)
  and `CallersAreRemembered` (`[]NoneForgotten`), where bytes arrive in one piece
  (`Pieces = FALSE`) and each call has a channel of its own (`NewChannel = TRUE`); both are
  needed, as TLC shows (section 6).  The third hypothesis says that `None`, the value of a
  field without one, is no sequence of bytes.
  `Exchange` lists what may be on a connection and in `result_`: the package of the call
  and nothing else, or no answer, or its own.  `RanInv` says that a call whose package
  may still arrive (`Pending`) is not among those a method was run for.

**`TcpClientProofs`**, for any sockets, results of `connect(2)` and calls of another thread:
`ClientPolledChannelsLive` (`[]PolledChannelsLive`), `ClientSocketsOwned`
(`[]SocketsOwned`), `ClientConnectionKnown` (`[]ConnectionKnown`) and `ClientStopHolds`
(`[]StopHolds`), for a client that is destroyed with care (`CarefulOwner`) and calls
`connect()` once (`MaxConnects <= 1`).  Without either, TLC finds some of them violated
(section 6).

What the properties rest on is spread over the queued functors, the timers and the events
of a turn; the invariant relates these, and TLC checked it on the instance of `client`
first.

- `DriverInv`: what leads to a connection is a start that is called or queued, a retry that
  is timed, an attempt, or `restart()`.  There is one of them at a time, none while a
  connection is up, and none once the client is gone.  `StartInv` is why a start, queued
  once, runs once.
- `ResetInv`: the functor that destroys the channel of an attempt has run before anything
  begins another, or it would destroy that one's.  `resetChannel` is queued behind the
  event of its attempt and a new attempt begins with a timer or a functor, so the order
  of the queue and of the turn decides; that a retry's timer does not expire while the
  functor is still queued is the assumption on the length of a turn (section 5).  The
  invariant also says that the functor has run before a new connection has its first event.
- `HeldInv`: the connection that is up is `connection_`, or, where the client is gone, the
  one a queued `forceCloseInLoop` holds; the destructor queues the latter before it lets
  go of the former.  This is why the channel of a connection is removed before the
  last pointer goes.
- `AttemptInv` and `ConnInv` give each descriptor its one owner, and `StopInv` says what
  may still be under way after `stop()`: an attempt whose `stopInLoop` is queued or about to
  be.

The proof follows the set of connections that are up and the functors of the batch and of
the queue (`Early`, `Late`).  The loop's steps are of five kinds, a lemma each, which the
handlers are then cases of: an attempt begins (`StartStep`), ends (`AttemptOverStep`) or
succeeds (`ConnectedStep`), a connection ends (`CloseStep`), or none of these (`QuietStep`).

**`LoggerProofs`**: `LoggerLinesWhole` (`[]LinesWhole`), for any threads, loggers,
appenders, configurations and patterns, empty ones included.  That lines do not mix follows
from two mutexes.  A thread inside a call holds that of the logger it is at, so nobody
changes the list it goes through and it is still at the appender it locked; and an
appender's mutex is held by the thread that writes to it and by no other (`HoldInv`).  So
the output of an appender ends with a whole line, or with the part of one that its holder
has written, of the formatter the appender has, which nobody sets meanwhile (`LineInv`).
The root logger a logger has is in the map (`RootInv`), or `log` would go on to one that is
not.

**Model-checked only.** All liveness, `TaskQueue`'s fairness included, and `NoDeadlock` of
`Logger`, which is about `ENABLED`; every other invariant of the runs has a theorem. The
provers at hand do not handle liveness under fairness or `ENABLED`, and no induction
theorem that takes a predicate as its parameter. An induction over a finite set or an
interval can still be had by hand, from the set of its counterexamples and a smallest of
these (`MinIsLeast`, `UpTo`), so a recursive function that counts to a bound can be
reasoned about, as `JoinAll`; what `LogFormatter` makes of every pattern is out of reach.

## 5. Assumptions

- A condition variable, epoll, poll, an eventfd and sbrk behave as documented; a program
  ignores SIGPIPE (nothing in the repository does so).
- `brk` is page-aligned when the first span is taken.
- Only its destructor quits the loop of an `EventLoopThread`.
- A thread that has queued a functor for a connection keeps the connection until the
  functor has run (`CallersWait`).
- `connect()` of a client is called once (`MaxConnects`), and another thread destroys a
  client only while it is connected (`CarefulOwner`).  A turn of the loop takes less than
  the 500 ms after which a retry begins.
- A block is freed by a thread that has a `ThreadCache`; `concurrentFree` asserts it.
- Blocks above 128 pages are not freed (`FreesHuge`), and the last object of a span has room
  for what was asked for (`RoomForLast`).
- `Timestamp::now` counts what the rest of the timers counts (`kMicroSecondsPerSecond`).
- The clock does not go back, as `time` may when it is set.
- An RPC package arrives whole in one `onMessage` (`Pieces`), a caller takes a new channel
  for each call (`NewChannel`), as the example does, and ZooKeeper's watcher does not run
  before `zoo_set_context` (`EarlyEvent`).

- Addresses are finitely many positive numbers, bounds are natural numbers, the threads
  that use connections are not the loops', and `None` differs from the values it stands
  beside (the `ASSUME`s of `TimerQueue`, `TcpServer`, `TcpClient`, `EchoServer` and `Logger`).
- The configuration of a logger names appenders (`FilesAssumption`); there is one that
  writes to the terminal, which the root logger gets where there is no configuration.

Each of those with a constant of its own names a finding below: setting the constant otherwise
shows it.

## 6. Findings

Shown by a run:

- `elt_quit_lost`: `loop()` resets `quit_` after the loop was published, and forgets a
  `quit()` of the destructor; `join` never returns.
- `rpc_success`: a connection that ends without an answer leaves `result_` empty, which
  parses, so the call does not fail.

Shown by changing a run's `.cfg`, as said:

- Another thread's shutdown: `handleWrite` ends the stream although a message sent before
  the shutdown is still queued.  `SentBeforeShutdown` fails with
  `UserOps = {"send", "shutdown"}` in `Tcp_lifecycle.cfg`; `tcpconnection.h` means the state
  `kDisconnecting` for just that case.
- Functors of `send` and `shutdown` hold a bare `this`: `NoCallOnDestroyed` of `TcpServer`
  fails with `CallersWait = FALSE`.
- `shutdown` and `forceClose` test `state_` and store it in two steps, so a connection
  that the loop closed in between becomes `kDisconnecting` again, and a queued
  `forceCloseInLoop` then closes it twice, callbacks included: with
  `"forceClose"` in `UserOps` of `Tcp_lifecycle.cfg`, `UpThenDownOnce` fails.
- `forceClose` in a callback while the server is destroyed: `connectDestoryed` runs first,
  removes the channel and, as `state_` is no longer `kConnected`, calls nothing;
  `forceCloseInLoop` then calls `handleClose`, whose `disableAll` adds the channel to epoll
  again, where the hangup that is always reported calls it a second time.  With
  `CallbackOps = {"send", "forceClose"}` in `Tcp_lifecycle.cfg`, `UpThenDownOnce` fails.
- The last object of a span may reach into the next span, where the class does not divide
  it: `HandedOutDisjoint` fails with `Requests <- Overrun` in `Heap_threads.cfg`.
- Freeing a block of more than 128 pages moves the end of the heap below blocks in use:
  with `FreesHuge = TRUE`, `NoPageLost` and `HandedOutDisjoint` fail.
- `Timestamp::now` counts seconds where `addTime` and the timerfd count microseconds, so a
  timer runs a million times later than `eventloop.h` says, and the timerfd fires in vain
  in the meantime: `RunsWhenDue` fails with `kMicroSecondsPerSecond = 1000000` and one timer.
- `~TcpClient` queues `stopInLoop` on the bare `Connector` it then frees: with
  `CarefulOwner = FALSE`, `NoFunctorOnDestroyed` and `PolledChannelsLive` fail.
- `connect()` called twice begins two attempts, of which the second loses the channel of the
  first: with `MaxConnects = 2`, `PolledChannelsLive` and `ConnectionKnown` fail.
- A provider started again before its old session expired finds the old znodes, leaves
  them, and loses them when that session expires: `Published` fails, with one provider and
  `RestartEarly = TRUE`.  It holds for one provider with `RestartEarly = FALSE`; with a
  second provider that shares the service it fails in any case.
- A package that arrives in two pieces is taken for two: with `Pieces = TRUE`,
  `RunsWhatWasAsked`, `AnswersOwnRequest` and `NoneForgotten` fail.
- `result_` is not cleared between calls on one channel: with `NewChannel = FALSE`,
  `AnswersOwnRequest` fails.
- A file appender asks for `std::ios::app` when it opens its file again, every three seconds,
  but `OpenForWrite` (`common.cc`) first opens it without the mode, which truncates it:
  `NothingLost` fails in `Logger.cfg`.
- The root logger need not exist when another is configured: `LoggersHaveRoot` fails with
  `Files <- BusinessFirst` and `Name = {0, 1}`, for which `README.md:232` promises it.

Met while modelling, without a run:

- `queueInLoop` from the loop's own thread before `loop()` writes no wakeup, so the
  functor waits for another event or the timeout (`net/eventloop.cc`; `eventloop.h` says
  the loop is woken).  `PromptRun` excludes exactly these functors.
- `quit()` touches the loop after the store that lets it end and be destroyed; the
  destructor of `EventLoopThread` reads `loop_` without its mutex.
- `send` passes `c_str()` of the caller's string to a functor that runs later.
- Any late `enable*` of a channel that was removed adds it to epoll again:
  `updateChannel` does not look.  `PollPoller::removeChannel` leaves the index in the channel.
- `closeCallback_` holds a bare `TcpServer`, and the pool's loops run on after the body
  of its destructor.
- Read errors of a connection are logged and nothing else.
- `PollPoller` inherits privately from `Poller` and does not compile with `APLUSEPOLL`.
- `FreeList::push` and `pop` do not count, so thread caches never return an object
  although `README.md` describes the reclaiming; `releaseList` has no caller.
- `systemAlloc` compares with `nullptr`, while `sbrk` reports failure with -1.
- `addTimer` reads `timer->sequence()` after the hand-off; by then the timer may be gone and
  its address another timer's, whose id the caller then gets.
- A `cancel` by the loop's own thread before the timer's `addTimerInLoop` has run is
  forgotten, and so is one of a one-shot timer by an earlier callback of its batch: the
  timer still runs.  `cancelled` in `TimerQueue` records a cancel where it takes effect.
- `reset` restarts a timer at the time `handleRead` began plus its interval; the comment at
  `net/timerqueue.cc:191` says at its old expiration plus its interval.
- A `stop()` between `removeConnection` and its `restart()` is undone by the latter;
  `StopHolds` exempts clients that reconnect by themselves.
- `Connector::handleWrite` tests what `getsockopt` returned and not the error it fetched;
  the delay of a retry is not reset by `start()`; the local address of a client's connection
  is uninitialised, as `getsockname` writes the peer's.
- A second `CallMethod` on a channel runs the pending `stopInLoop` of the `Connector` the
  first one destroyed; each call leaks the socket it creates for nothing; the controller's
  failure is only cleared by `Reset()`.
- A provider refused for ever is tried for ever; `onMessage`'s error paths leave the
  connection open; a provider that loses the race for a znode exits.
- The watcher may run before `zoo_set_context` and post a null semaphore; `getData` does not
  terminate its buffer; `RpcProvider` and `ZkClient` do not compile as they stand.
- `level_` and `hasFormatter_` of an appender and `lastTime_` of a file appender are not
  initialised.  `%%` in a pattern is always an error.  `addAppender` tests for a formatter
  and sets one under two lockings, so it may replace one set in between.  A file without the
  `rpc` or `zookeeper` section discards the logging configuration as well.  Two appenders on
  one file overwrite each other.

## 7. Not modelled

The vendored `json.hpp` and the benchmark of the allocator; accept(2) failures; the
high-water-mark callback; `Buffer::swap`, which has no caller; the growth of a retry's
delay; the destruction of the pool and of `TimerQueue`; arenas, reflection and unknown
fields of the generated code; what a log item prints; the examples that measure or print.
Why, for each component, is in `PROJECT.json`.

## 8. Plan

1. The destruction of `EventLoopThreadPool` after the body of `~TcpServer`, with the
   pool's loops as `EventLoopThread`s.
2. `Rpc` over `TcpClient` in place of what it assumes of it.
