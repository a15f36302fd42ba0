# CzyNetFrame: a TLA+ model

CzyNetFrame is a reactor-style network library in C++ (`src/src/net`) with the
helpers it needs (`src/src/base`): logging, queues, timers, calendars.  This
directory holds TLA+ modules of its stateful parts, the TLC configurations that
check them on small instances, and TLAPS proofs of the properties that matter
most.  Every definition is translated from the source; `PROJECT.json` names the
lines ("map"), the runs, the mutants that show each property can fail, the
hazards and the findings.

The top-level `CMakeLists.txt` sets the build type `Debug`, so assertions are
compiled in: a failed assertion ends the process, and the models treat it so.

## The system and its parts

| part | state | operations | what makes it correct |
| --- | --- | --- | --- |
| `EventLoop` | functor queue, eventfd, running flag | `loop`, `queueInLoop`, `runInLoop`, `quit`, `wakeUp` | no lost wake-up; functors run once and in order; `quit` ends the loop; its destructor leaves the poller |
| `EpollPoller`, `Channel` | interest, index, fd map, epoll set, event vector | `enable*`, `disable*`, `remove`, `poll` | the kernel watches what the channel asks for; nobody is left out of the reports |
| `TimerQueue` | two ordered lists, timerfd, canceled ids | `addTimer`, `cancel`, `handleRead`, `reset` | lists agree, timerfd set in time, canceled timers stay out |
| `TcpConnection` | state, channel, output buffer | `send`, `shutDown`, `forceClose`, read and write callbacks | messages whole and in order, buffered output waited for, one close |
| `TcpServer`, `Acceptor` | connection map, listening flag | `start`, accept, `removeConnection`, destructor | a closed connection leaves the map |
| `Buffer` | vector with two indices | `append`, `retrieve`, `prepend`, `readFd`, `shrink` | it is a queue of bytes |
| `AsyncLog` | two spare buffers, full buffers | `append`, backend loop, `stop` | nothing lost but a cut batch; assertions hold |
| `LogFile`, `AppendFile` | size, day, counters | `append`, `flush`, `rollFile` | late lines bounded, size bounded |
| `BlockQueue`, `BoundedBlockQueue` | queue or ring, condition variables | `push`, `pop` | FIFO, nobody needed sleeps; the bounded one does what the unbounded one does |
| `EventLoopThread`, `EventLoopThreadPool` | threads, their loops, next index | `start`, `startLoop`, `threadFunc`, `getNextLoop`, `setThreadNum` | `startLoop` returns a loop, loops are dealt out in turn |
| `Date`, `TimeZone` | tables of a zone file | conversions, `loadZoneFile` | calendar and local time, both ways |
| `Log`, `LogStream` | level, sinks and zone of the process; date cached by each thread; a record's buffer | the macros, `<<`, `~Log`, the setters | the date is of the record's second, a record is whole |
| `TimerManagerList`, `TimerManagerWheel` (`LstTimer`) | linked timers, slots | `addNode`, `adjustNode`, `deleteNode`, `delNode`, `tick` | every timer linked once until it runs, in the list late by a bounded time, in the wheel on time |
| number formatting (`LogStream.cc`) | none | `convert`, `convertHex`, `formatSI`, `formatIEC` | numbers read back, quantities keep their width |
| `ThreadPool` | queue, thread handles | `pushTask`, `run`, `stop` | not modelled, see below |
| `TimeStamp`, `Sockets`, `SocketOps`, `InetAddress`, `StringPiece`, `Singleton`, `CurrentThread` | none of their own | wrappers | not modelled: system calls and conversions; what they return is a choice in `TcpServer` |

How the parts meet: a loop thread waits in `EpollPoller::poll`, calls the
callbacks of the reported channels (timerfd, eventfd, acceptor, connections) and
then runs the functors other threads have queued.  Everything that belongs to a
loop is changed by its thread only; other threads reach it through
`queueInLoop`, or through plain fields (`m_stat`, `m_isRunning`) without a lock.
The server's map lives on the base loop and its connections on the loops of the
thread pool, so a close crosses two loops.  Log lines go from any thread to
`AsyncLog`, whose thread hands them to `LogFile`, once `g_output` is set to it.

What is hard here: the two-step hand-over of work (push, then write the
eventfd), batches swapped out while others arrive, a timer canceled by a
callback of its own batch, addresses that are reused, a state tested on one
thread and changed on another, results of system calls kept in unsigned
variables, fields no constructor sets, conditions of time that are looked at
once in a while, a date cached while zone and clock change, and timers that
callbacks delete under a walk over them.

## Modules

* `Executor` - what `queueInLoop` promises: a serial executor.
* `EventLoop` - one loop, its owner and other threads.  `pc` is the place of the
  owner thread in `loop()`; `waking` holds the threads between their write of
  shared state and their write of the eventfd.  A functor is its number.  The
  eventfd counter is 0 or 1, since only "readable" matters.
* `EventLoopProofs` - theorems about `EventLoop`.
* `TimerQueue` - the lists, the heap of timers, the timerfd and two clocks.
  `LoopAddTimer` and `LoopCancel` are calls on the loop thread, `Client*` the two
  halves of `addTimer` and `cancel` on another thread.  `cancelled` and `done`
  record history for the properties, and `adding` keeps the sequence number of
  the timer a thread has handed over beside its address, to tell whether the
  thread then reads its own timer.  `TimerQueueProofs` has its theorems.
* `Channel` - `Channel` together with `EpollPoller`'s bookkeeping, as operators
  on one record that includes the kernel's epoll entry.
* `TcpServer` - extends `Channel`; server, acceptor, connections, loops, peers.
  Handlers are operators from state to state, composed as the code composes
  calls.  `abort` is the place of the assertion that ended the process.  Another
  thread's call takes the steps of the code: test `m_stat` (`ClientSend`,
  `ClientCall`), set it (`ClientSet`), queue the functor (`ClientQueue`).  The
  server's destructor goes from connection to connection (`Destroy`,
  `EndConnection`, `EndAcceptor`; `ending` has those still to come), since the I/O
  loops go on meanwhile.  `TcpServerProofs` has its theorems.
  `conn[c].revived` records that a `ClientSet` came after the close.
* `ByteQueue`, `Buffer`, `MCBuffer`, `BufferProofs` - a queue of bytes, the class
  that implements it, byte chunks for TLC, and the proofs.  The integer calls are appends, prepends and
  retrievals of a few bytes.
* `AsyncLog`, `AsyncLogProofs` - the logger; a `unique_ptr` is a sequence of at
  most one buffer.  `Held` puts the file, the rest of the batch, the full buffers
  and the current one in a row.  `threadSafe` is the `m_threadSafe` of the backend's
  `LogFile`, which no constructor sets: where it happens to be true an `append` to
  the file may lock its mutex twice, and the backend is `stuck`.  Which `append`
  that is depends on the clock and is left to `LogFile`.
* `LogFile` - rolling and flushing; a day has `KRollPerSeconds` seconds.
* `LoggingProofs` - the theorems about `LogFile` and `Log`.
* `BlockQueue`, `BoundedBlockQueue` - queue or ring, mutex and condition
  variables, with spurious wake-ups.  `BlockQueue` is also the specification the
  ring implements for its consumers.  `BoundedBlockQueueProofs` proves that it
  does.
* `LoopThreads` - the start of the I/O threads and the pool.  `pc` is the base
  thread in `start()` and `startLoop()`, `wpc` each thread in `threadFunc()`; what
  runs under `m_mux` is one step.  It extends `Channel` for the destructor of a loop
  that has ended (`DestroyLoop`), on the stack of its thread and after `m_mux` is
  released: it disables and removes the wake-up channel.  `picks`, `quits` and
  `resized` are history.
  `LoopThreadsProofs` has its theorems.
* `Date`, `TimeZone`, `Numbers` - the conversions as operators; a zone file is a
  record of what the reader takes from it, a character is the value of its digit.
  `Conversions` walks over their inputs beside a calendar of its own, and
  `MCConversions` gives it transitions, offsets and numbers.
* `Log`, `MCLog` - extends `TimeZone`; a record from its macro to its sink.  `pc`
  is the place of a thread in `formatTime()` and `~Log()`, one step for each read
  of a global variable; what a thread does to its own record in between is one
  step.  A record is the sequence of the pieces its buffer took, each a name and
  a length, in a buffer of the code's 4000 bytes.  Its specification is `LogSpec`,
  since one module proves about `Log` and `LogFile`.
* `LstTimer` - the timer list and the timer wheel over one set of links; a
  behaviour has one of them.  `tick()` is taken node by node, since callbacks may
  call back.  `limit` and `born` record what the properties compare with;
  `confused` marks that a callback has taken the node its own `tick()` goes on by.

## Runs

Bounds are constants of the modules, marked "bound" where they are declared.

* `event_loop`: an owner, two other threads, two I/O channels, an event vector
  of initial length one, three functors.  Shows `NoLostWakeup` (a loop that waits
  with work queued or after `quit` is about to be woken), `IsSerialExecutor`
  (refinement of `Executor`), `ReadyChannelReported` (the event vector grows until
  nobody is left out), `QueuedFunctorRuns` and `QuitEndsLoop` without the help of
  the 500 ms time-out, and `EveryFunctorRuns` with it.  Three functors
  are enough for a batch of one, a batch of two and one queued by a functor; a
  vector of length one is full at once, so its growth is exercised.
* `timer_queue`: two addresses, two timers, another thread, time to 2, one step
  back of the clock, two queued calls.  `ListsAgree`, `NoTimerVanishes` (an old id
  never cancels another timer), `ArmedInTime`, `EndedStaysOut`, `DueTimerExpires`,
  `ReturnedIdIsTheTimers`: `addTimer` on another thread reads its timer after the
  loop thread may have deleted it, and this says when that matters - not while
  the timer may still run, where a timer whose number `m_cancelingTimer` has by
  such an id counts as ended.  Two timers are enough for an earlier, an equal and a
  later neighbour, and the second may take the first one's address; two queued
  calls let a cancellation wait behind an addition.
* `tcp_server`: one connection on an I/O loop, the server on the base loop, a
  client thread, messages of two units, two `send` calls and one other call.
  `PollerConsistent`, `StreamInOrder`, `RemovalUnderWay`, `OutputWatched`, and
  `AssertionsExplained`, which says in which circumstances the assertions on a
  close fail: a connection is removed twice only after another thread's
  `forceClose` or `shutDown` overlapped its close, closed twice only between the
  close and the removal, and its removed channel is updated only once the
  server's destructor has ended it (`EpollPoller.cc:35`).  Two units make short writes possible; two messages
  make an order; one other call is enough to overlap a close.  (It passes with two
  calls as well, ten times the states.)
* `tcp_server_remove` (violation): an ordinary close ends in the assertion of
  `Channel::remove`.
* `buffer`: chunks of one to three bytes in a buffer of two, one byte in front.
  `IsByteQueue` (refinement of `ByteQueue`) and `GrowsOnlyWhenFull`.
* `async_log`: six lines of two lengths, buffers of four units, a batch limit of
  three.  `LoopAssertionsHold`, `NothingLost`, `LineReachesFile` (unless the batch
  was cut, the process ended at `AsyncLog.cc:43` or the backend is stuck).
* `bounded_block_queue`: three producers, three consumers, three slots, seven
  items, so that the ring wraps twice.  `NoSleeperForgotten`,
  `IsBlockQueue` (refinement of `BlockQueue`), `WaitingConsumerServed`.
* `log_file`: days of four seconds, a check every three lines, more than two
  days.  `NewDayNewFile`, `OverdueFlushBounded`, `OversizeOnlyInRollSecond`.
* `loop_threads`: up to three threads, two of their loops quit at any time, two
  turns of `getNextLoop`, `setThreadNum` at any time.  `StartLoopReturns` (whoever
  gets the mutex first, unless a loop that was quit has ended the process),
  `StartedLoopsUsable`, `BalancedPicks`.  Three threads show an order that two do
  not; threads are started one by one, so more add nothing.
* `conversions`: every day of 1900 to 2500, four times of day on those whose seconds
  fit 32 bits, and 135 zones of up to three transitions, two types and three
  offsets, with damaged files, over 80 seconds, and numbers around every edge of
  a digit, a unit and the 32 bits TLC has.  `DatesAreCivil`, `LocalTimeInverse`,
  `NumbersReadable`.  Three transitions are the least with one that is neither
  first nor last; seconds in the place of hours keep the walk short.  The
  property leaves out what the table cannot tell: a local time repeated by the
  first or the last transition (always taken as the later one) or skipped by the
  first (always taken by the first type).
* `log`: two threads, two seconds (the Epoch's first among them), one zone and
  none, a filtered and a fatal macro, messages that end just below, at and above
  the limit of the buffer; zone, clock, level and sinks change at any time.
  `DateIsOfTheSecond`, `RecordWhole`.  The threads are symmetric.  Two seconds are enough to leave a second and come back to it.
* `lst_timer`: three timers, a wheel of three slots, timeouts of less than one
  turn, a whole turn and two turns, four ticks or seconds.  `LinksSound`,
  `ShortTimersOnTime`, `ListLateBounded`.  Three timers are a current node, a stored
  one and one behind it; three slots give a short timer a slot that is not the
  next.  `ShortTimersOnTime` is exact for timeouts of less than a turn only, see
  below.

Type invariants are part of an invariant of each run (`ListsAgree`,
`PollerConsistent`, `NothingLost`, `IsByteQueue`, `NoSleeperForgotten`,
`NewDayNewFile`, `LinksSound`); those of `EventLoop` and `LoopThreads` are proved.

Deadlock is checked for `event_loop` and `buffer`.  The other systems may stop:
a process that has aborted or waits for itself, a clock at its bound, a queue
with nobody left to push.

## Fairness

* `EventLoop`: the loop thread takes its steps, `epoll_wait` returns when
  something is ready, callbacks and functors return, a thread inside `wakeUp`
  finishes it.  Nothing makes anybody call `loop`, `queueInLoop` or `quit`.  The
  time-out is no part of it; `EveryFunctorRuns` assumes it in its own statement.
* `TimerQueue`: the loop iterates, so it polls the timerfd, handles it and runs
  its functors again and again; time passes.
* `AsyncLog`: the backend thread runs, and its timed wait ends.  Nothing is assumed
  of a backend that is stuck in `LogFile::append`: it has no step.
* `BoundedBlockQueue`: a thread that was woken gets the mutex in the end.
* `LoopThreads`: the base thread in `start()` and the threads in `threadFunc()`
  take their steps, destructors included.  Nobody need quit a loop, and no wait ends by itself.

## Proofs

All by TLAPS, for every value of the constants that satisfies the named
assumptions of the modules.

* `TypeCorrect`, `WakeupsAreNotLost`, `LoopIsSerialExecutor` (`EventLoopProofs`).
  `NoLostWakeup` speaks of a loop in `poll()` only, and is not inductive:
  `WakeInv` adds what holds before the loop gets there, at each place of
  `loop()` - which functors may still be in the queue without a wake-up, because
  the swap lies ahead, and that `m_callingPendingFunctors` is true exactly where
  a nested call needs it.  The refinement needs `BatchInv`: outside the batch the
  swapped-out vector is empty, so a swap moves nothing past anything, and the
  functors are numbered without a gap.  A step of the loop is then `RunHead`, a
  call is `Submit`, and everything else stutters.
* `ListsAlwaysAgree`, `EndedTimersStayOut`, `TimersDoNotVanish`, `IdsAreReturned`,
  `TimerfdIsArmed` (`TimerQueueProofs`): every invariant and the action property of
  `timer_queue`, for any number of timers, addresses, clients and jumps of the
  clock.  `Core` is `ListsAgree` with `HeapInv` (sequence numbers tell timers apart
  where addresses do not) and `BatchInv` (there is a batch only inside
  `handleRead`, and no timer is queued twice); `AddStep`, `CancelStep` and `ResetStep`
  say what the three handlers do to the lists.  `EndInv` says where the number of
  an ended timer can still be found: in the batch, and then in
  `m_cancelingTimer`, or nowhere the loop would look.  `AddingInv` follows the timer
  of a thread that has not yet returned from `addTimer()`: it is on the heap or
  has ended, so a reused address cannot lend it a number while it may still run.
  `ArmedInTime` is inductive over `Core`.
* `PollerStaysConsistent`, `OutputStaysWatched`, `ClosedConnectionsLeave`,
  `FailuresAreExplained`, `MessagesStayInOrder` (`TcpServerProofs`), for any number
  of connections, loops, clients and calls, where clients are threads that run no
  loop.  One inductive invariant, `IInv`, carries the first four.  A
  connection's part of it, `ConnInv`, says that a reported channel is still mapped
  (`ActiveOf`), how the index and the events of its channel follow its state
  (`ChanOf`), and which functors may wait for it, on which loop, in which order
  and how often (`PendingOf`, `RemovalOf`, `FunctorsOf`): `connectionEstablished()`
  is queued before `connectionDestory()`, a removal at most once unless another
  thread has revived the connection, and `connectionDestory()` only for a
  connection that has left the map or that the destructor has handed over.  The
  functors of a loop are its batch followed by its queue (`Work`), so `SwapFunctors`
  changes nothing.  Handlers are operators, so the proof has one lemma for each of
  them about the state it begins with and the one it leaves (`SendStep`,
  `WriteStep`, `CloseStep`, `DestoryStep`, `RemoveStep`, ...), and one for each
  action that applies it; frame lemmas (`ConnStep`, `LifeFrame`, `ActiveFrame`) say
  that the other connections do not notice.  `MessagesStayInOrder` needs more:
  `StreamInOrder` looks at bytes a connection already has, and what makes it true
  lies in the loops.  `Streams` adds that a `send` waiting in a loop comes after
  every message of its thread that its stream holds (`After`), that the waiting
  sends of one thread are in the order of its calls (`WaitingInv`), and that the
  call a thread is in comes after all of these (`CallingInv`).  A message is then
  appended to whole messages of smaller numbers, whether `sendInLoop` writes all of
  it, a part or nothing (`Blocks`), and a later write only moves bytes from the
  buffer to the wire.
* `BufferIsByteQueue`, `GrowthIsNeeded` (`BufferProofs`).  The invariant is
  `TypeOK` and, because `retrieve()` of everything resets the indices without
  looking, that the vector has at least `KCheapPrepend` bytes.  `Holds(b, q)` says
  that a valid buffer has content `q`; one lemma for each member function says
  what it makes of `q` (`MakeSpaceStep`, `WriteStep`, `AppendStep`, `ReadInStep`,
  `RetrieveStep`, ...) and, where the vector may grow, that it had to (`Full`).
* `BackendAssertionsHold` (`AsyncLogProofs`).  The strengthening `AssertInv` says
  which spare buffers the backend holds at each place, and that a used-up
  `m_nextBuffer` goes with a full buffer in `m_vecBuffer` (`NextOK`): this is why
  the batch has a second buffer to give back, and it survives the cut because the
  cut keeps two.
* `NoLineIsLost` (`AsyncLogProofs`).  `LostInv` adds to `AssertInv` how much of the
  batch is written at each place (`WriterOK`) and that a recycled `m_nextBuffer` is
  empty.  `LinesOfConcat` and `InOrderConcat` reduce the lines and the order of a
  row of buffers to those of its parts, so each step is a fact about sets of
  lines: `append` adds a largest line to the last buffer or to an empty one behind
  it (`AddLine`), the swap adds an empty buffer (`AddEmpty`), the cut takes buffers
  out of the middle (`DropMiddle`), a write joins the first two (`MergeFirst`).
* `SleepersAreServed`, `RingIsBlockQueue` (`BoundedBlockQueueProofs`).
  `NoSleeperForgotten` counts threads and is inductive once `SizeTests` has turned
  the comparisons of `m_head` and `m_tail` into a number of items and `NotifyCounts`
  has said what `notify_one` does to the counts.  The refinement needs `RingInv`:
  the slots from head to tail hold the items pushed and not yet popped.  A `push`
  then appends to the content and a `pop` takes its head, wherever the indices
  wrap (`SlotAfter`).
* `DatesAreCurrent` (`LoggingProofs`).  `DateInv` says what a
  thread's cached date and second are worth at each place of `formatTime()`: the
  two agree except while they are written (`CacheOK`), what `valid()` returned is
  true of a zone set since then (`ReadingOK`), and the record's second is the
  cached one afterwards (`SecondOK`).  That the assertion on the length of `t_time`
  fails in second 0 only needs that no time is formatted to nothing: the calendar
  never yields month 0 (`MonthIsNotZero`), for every integer.  It is assumed that a
  zone with data has an offset for every second.
* `DaysAreSplit`, `FlushesAreBounded`, `OversizeIsExplained` (`LoggingProofs`).  The
  bounds follow because the lines that come late are at most those counted since
  the last check (`DayInv`, `FlushInv`).  That holds only while lateness, once
  there, lasts until the check, which is what `ClockInv` and the monotone days
  (`DaysGrow`) are for, and only while the clock is not set back.
* `TypeCorrect`, `PoolLoopsUsable`, `PicksAreBalanced` (`LoopThreadsProofs`).
  `StartInv` ties the length of `m_vecLoops` to the place in `start()`, so that the
  vector never outgrows `m_threadNum`; `ThreadInv` says that only the thread being
  started is ahead of the vector, and that `m_loop` is set from `Publish` until
  after a `quit`, which makes the second, unlocked read of it safe - both while the
  process lives, which a loop that was quit may end anywhere; `PickInv` says
  that exactly the loops before `m_nextIdx` are one pick ahead.  `WrapAround` is the
  arithmetic of the remainder.

What the proofs found out about the model, beyond what the small instances
showed: with three timers an id read from a deleted timer can end another
thread's timer after its next run, which `ReturnedIdIsTheTimers` did not allow;
a destructor of the server in one step hid that the I/O loops meet its
half-finished work, and with it the failing assertion at `EpollPoller.cc:35`;
and a callback could run in `TimerQueue` outside its batch, which two timers made
no difference of.

Only model-checked: liveness (fairness and `ENABLED` are out of the prover's
reach); the conversions, whose references are inductions over days and digits,
as that of `RecordWhole` is over the pieces of a record; and the properties of
`LstTimer`, which speak of the timers that can be reached along the links, an
induction over the length of the way.  `StreamInOrder`, `NothingLost` and every other
safety property of a run is proved.

## Findings and known behaviour without a run

`PROJECT.json` "findings" has the violation above.  The model shows more
failing assertions that no run of their own is spent on: `TcpServer.cc:75` (a
revived connection is removed twice; `AssertionsExplained` says how),
`EpollPoller.cc:67` (a destructor disables a channel, which marks it as deleted,
and then removes it: so does that of the server, and `~EventLoop()`, with which
every loop of the pool that is told to quit ends the process, `DestroyLoop`),
`TcpConnection.cc:170` (a closed connection is polled and closed
again), `Buffer.h:88` (the failed write of `handleWrite`), `TcpServer.cc:88`
(`m_isListen` is never initialized), `TcpConnection.cc:213` (a failed `::write`
leaves a remainder of `len + 1`), `AsyncLog.cc:43` (stopped before started).
To see one, check the invariant `abort # "<place>"` of `TcpServer`.  Likewise
`~stuck` of `LogFile`, and `pc # "stuck"` of `AsyncLog`: the flush inside `append`
waits for the mutex `append` holds.  In `LoopThreads` every way to destroy a pool that has threads ends the
process: the test of `m_loop` in `~EventLoopThread` is the wrong way round.

Behaviour that properties allow and a reader should know: a `quit()` from another
thread before `loop()` is forgotten, since `loop()` sets `m_isRunning`; a `cancel`
that reaches the loop before its timer does nothing; `shutdownInLoop()` shuts
down a connection that still has output, and never one without;
`handleEvent()` chooses one callback, so a socket that is always readable keeps
its write callback from running; a FATAL record that goes to `AsyncLog` is lost
in its buffers when `g_flush` is still that of stdout, which is all `AsyncLog`
leaves it (`AsyncLog.cc:14` sets only the output); a thread whose first record is
of second 0 fails the assertion at `Log.cc:52`, and a zone that is taken away
between `valid()` and `toLocalTime()` the one at `TimeZone.cc:453`; a timer of the
wheel with a timeout of a turn or more runs a turn early, against the comment at
`LstTimer.cc:89` (`m_rotation` is "after how many turns" the node is deleted, but
`tick()` decrements it on the first visit, in which no turn has passed: with a
timeout of `TIME_SLOTS` that is the very next tick); a wheel callback that
deletes its own timer, or the next one, spoils the links of the slot, and a list
callback that deletes its own timer makes `tick()` read freed memory.

## Abstractions

* A handler or a functor on a loop thread is one step where it shares nothing
  but queues and `m_stat` with others (`TcpServer`); in `EventLoop` the steps are
  the statements.
* Plain flags read by other threads are taken to be visible at once.
* Bytes, messages, lines and the pieces of a record are numbers, short sequences
  or names with lengths; addresses are left out.
* A connection object stays after its end: use after destruction through the raw
  `this` of `send` is a hazard without a property.
* `TcpServer` has no timer queue of its own: a delayed close fires some time
  later.

## Not modelled

* `ThreadPool`: `pushTask()` and `stop()` change a `std::queue` without the mutex
  its runners hold.  That is a data race on the memory of a library class; what
  it can do is not in this source.  No other part uses the pool.
* `SocketOps`, `Sockets`, `InetAddress`, `Endian.h`: wrappers of system calls and of
  byte order.  What they return is a choice in `TcpServer`.
* `StringPiece`, `Singleton`, `NonCopyAble`, `CallbackDefine.h`, `CurrentThread`: no
  state beyond a cached thread id and a lazily made instance.
* The searches of `Buffer` (`findCRLF`, `findEOL`) and `ReadSmallFile`, which change
  nothing; the units of `formatSI` and `formatIEC` above M and floating point text,
  beyond TLC's integers; the text `Date` and `TimeStamp` write.
* `main.cc`: an example program.

## Plan

Done first: the loop, timers, connections, the logger; then `Buffer`, `LogFile`,
`BoundedBlockQueue`, the loop threads and the calendar; then `Log`, `LogStream`,
`LstTimer` and `BlockQueue`; then the proofs above, last those of `StreamInOrder`,
`NothingLost` and `DateIsOfTheSecond`.  Left for later: lifetimes of
`TcpConnection`, and `AsyncLog` composed with `LogFile`.
