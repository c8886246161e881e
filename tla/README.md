# Verification of tinyWS

tinyWS is a web server in C++ built on a small reactor library (in the style of
muduo). The repository holds three variants of it under `src/`:

- `multiThread/`: one process; a loop that accepts and a pool of loop threads
  that serve the connections. It is the main variant.
- `multiProcess1/`: a parent accepts and passes descriptors to its children.
- `multiProcess2/`: parent and children share the listening descriptor and take
  turns with a process-shared mutex.

Beside them, `WebBench/` is the load generator they are measured with.

There are no tests in the repository. What the code promises is in its
assertions (`NDEBUG` is not defined, so a failed one aborts the server), in the
comments of its headers, in `doc/problems.md` and in the READMEs.

This directory holds TLA+ modules translated from the sources, TLC
configurations that check them on small instances and TLAPS proofs for every
instance. `PROJECT.json` maps each definition to the lines it stands for.

## 1. Inventory

### 1.1 Components of multiThread

| component | state | operations | who calls it |
|---|---|---|---|
| EventLoop | `looping_ quit_ callingPendingFuntors_ activeChannels_ pendingFunctors_`, eventfd | `loop quit runInLoop queueInLoop wakeup handleRead doPendingFunctors` | its own thread; any thread calls `quit`, `runInLoop`, `queueInLoop` |
| EventLoopThread | `loop_`, thread, mutex, condition | `startThread threadFunction` destructor | owner and the new thread |
| EventLoopThreadPool | `loops_ next_` | `start getNextLoop` | the accepting loop |
| TcpServer | `connectionMap_ nextConnectionId_` | `start newConnection removeConnection removeConnectionInLoop` destructor | the accepting loop; `removeConnection` from any loop |
| TcpConnection | `state_`, channel, input and output `Buffer` | `connectionEstablished connectionDestroyed send shutdown handleRead handleWrite handleClose handleError` | its loop; `send`/`shutdown` from any thread |
| Channel, Epoll | `event_ revent_ statusInEpoll_ tie_`; `channelMap_` | `updateChannel removeChannel poll handleEvent` | the loop that owns them |
| Acceptor | listening socket, channel | `listen hadleRead` | the accepting loop |
| TimerQueue, Timer, TimerId | `timers_ activeTimers_ cancelingTimers_ callingExpiredTimers_`, timerfd | `addTimer cancel handleRead` and what they call | its loop; `addTimer`, `cancel` from any thread |
| Buffer | `readerIndex_ writerIndex_`, bytes | `append prepend retrieve* readFd makeSpace` | the connection |
| HttpServer, HttpContext, HttpRequest, HttpResponse | parse state and request of a connection | `onConnection onMessage onRequest parseRequest` | callbacks of a connection |
| Connector, TcpClient | `connect_ state_ retryDelayMs_`, channel, `connection_` | `start stop restart connect disconnect` | one loop, other threads |
| BlockingQueue, BoundedBlockingQueue, ThreadPool, CountDownLatch, Condition, MutexLock, Thread | queues, counters | `put take run start stop wait countDown` | any thread |
| AsyncLogging, LogFile, Logger, LogStream | two front buffers, full buffers | `append start stop threadFunction` | any thread and the logging thread |
| ObjectPool, SpinLock, Singleton, ThreadLocal, any, Atomic, Exception, FileUtil | - | wrappers | - |

### 1.1b Components of the variants with processes, and WebBench

| component | state | operations | who calls it |
|---|---|---|---|
| multiProcess1 ProcessPool | `pids_ pipes_ next_ running_` | `createChildAndSetParent createChildProcess addChildInfoToParent sendToChild parentStart killAll` | the parent |
| multiProcess1 Process, SocketPair | its own loop, one end of a socket pair | `start receiveFd newConnection` | the child |
| multiProcess2 TcpServer, EventLoop, ProcessMutexLock | `isLock_`, a mutex in shared memory, the hooks of the loop | `lockAcceptor unlockAcceptor start` | every process |
| multiProcess2 ProcessPool | `pids_ processNum_` | `createChildProcess createNewChildProcess killAll` | the first process, and children that inherit it |
| signal handlers, `status_*` | flags of a process | set by signals, read by the loops | the kernel |
| TcpConnection, Channel, Epoll of both | as above, without a second thread | as above, called directly | the loop of the process |
| webbench | counts of each child, a pipe | `bench benchcore alarm_handler` | the user |

### 1.2 How they interact

- `EventLoop` is the meeting point. Another thread hands it work by
  `queueInLoop`: push under `mutex_`, unlock, and then write the eventfd. The
  loop sleeps in `epoll_wait`, handles the ready channels, and then swaps
  `pendingFunctors_` out and runs it.
- `TcpServer` lives in the base loop. A new connection is put into
  `connectionMap_`, a loop is chosen by `getNextLoop`, and
  `connectionEstablished` is queued there with a `shared_ptr`. A close starts in
  the loop of the connection (`handleClose`), crosses to the base loop
  (`removeConnectionInLoop`) and returns (`connectionDestroyed`).
- Object lifetime is the protocol: `Epoll` keeps raw pointers to `Channel`s, a
  channel belongs to a `TcpConnection`, and that is kept by the map, by the
  functors bound with it and by user code.
- `TimerQueue` uses the loop twice: its timerfd is a channel, and `addTimer`
  and `cancel` called elsewhere become functors.
- `EventLoopThread` publishes a pointer to an object on another thread's stack.
- `multiProcess1` replaces the pool by `ProcessPool` and sends descriptors over
  a `SocketPair`; `multiProcess2` forks loops that share the listening socket
  and a `ProcessMutexLock`. Both use signals to stop and restart children.

### 1.3 What is hard here, and what would make it correct

- *Lost wakeups*: a functor or `quit()` that arrives between the check and the
  sleep. Correct when the loop never sleeps on work (`NoSleepOnWork`) and every
  queued functor is served without the help of the poll timeout.
- *Start and stop of a loop thread*: a condition-variable handshake, and a
  `quit()` that may meet a loop that has not started.
- *Life of a connection*: three hops between two loops; a closed channel that is
  enabled again by a late `send()`; a destructor that runs with functors still
  queued. Correct when no assertion fails, epoll knows only live channels,
  nobody is forgotten, and every closed connection is given back.
- *Timers*: two containers of the same timers, one timerfd for all, callbacks
  that add and cancel while the expired batch runs, cancellation from another
  thread through a weak pointer. Correct when the containers agree, the timerfd
  is armed for the earliest timer, nothing fires early, a cancelled timer stays
  out and none stalls.
- *Output*: order and completeness of bytes when the socket takes less than all, and
  a close that has to wait for the last byte.
- *Input*: requests that are cut anywhere, several at once, or bad ones; a parser
  that keeps its state between two messages of the socket.
- *Connecting*: a retry timer that nobody cancels, a `stop()` from anywhere, and a
  channel that is reset later than it is removed.
- *The thread pool*: condition variables, and what is queued when `stop()` comes.
- *Processes*: signals that set flags in the middle of anything, children that
  die while they are forked, a mutex whose holder may die.
- *Descriptors*: a number that is closed is given to the next `accept`, while somebody may
  still know it by the old meaning; tables that are full; descriptors that a fork copies.
- *Numbers*: bytes in two orders, the least integer, an ordinal that runs past the end.

Every hazard met so far, at its line, is listed in `PROJECT.json` under
`hazards`, with the properties that watch it or the reason why none does yet.

## 2. Plan

In order of importance.

| # | modules | what they cover | abstract specification | theorems | state |
|---|---|---|---|---|---|
| 1 | Executor, EventLoop, EventLoopProofs | the loop and its cross-thread calls | Executor | types, no sleep on work, refinement | done |
| 2 | EventLoopThread, EventLoopProofs | start handshake and destructor (extends EventLoop) | EventLoop, Executor | types, refinement, Handshake | done |
| 3 | TcpServer, TcpServerProofs | server, pool, connection, channel registration | - | types, NoAssertionFails, RegisteredIsHeld, NoneForgotten, StateForward, UsersDoNoHarm | done |
| 4 | TimerQueue, TimerQueueProofs | timers and timerfd | - | all its safety invariants | done |
| 5 | ByteQueue, Buffer, NetProofs, BufferIntegers, UtilityProofs | the byte buffer, in all three variants; integers and lines in it | ByteQueue | refinement, assertions, ValuesArrive | done |
| 6 | Http, HttpConnection, HttpLine, ConnectionProofs, ProcessHttpConnection | parser, pipelining, output, close; the text of a line; the same in a process | - | AnswersInOrder, LinesAreUnderstood, PrefixOfAnswers | done; PatientIsAnswered checked |
| 7 | Connector, NetProofs | connect, retry, stop, reset of the channel | - | OneStartIsSafe | done |
| 8 | ProcessConnection, ProcessServer1, ProcessServer1Proofs | multiProcess1 | - | ClosesCleanly | done |
| 9 | Descriptors, ProcessServer1Proofs, Sockets, ConnectionProofs | numbers of descriptors: between processes, and within one | - | DescriptorsAreOwned, NumbersAreCurrent | done |
| 10 | ProcessServer2, ProcessServer2Proofs | multiProcess2 and its accept mutex | - | types, ListensInTurn | done |
| 11 | ThreadPool, BlockingQueues, LogStream, WebBench, WebBenchOptions, EventLoopProofs, UtilityProofs | utilities, load generator | - | Fifo, OneByOne, RequestIsWellFormed, NumbersFit | done; what the others promise is liveness, and checked |
| 12 | ProcessTimerQueue, TimerQueueProofs | the timers of a process (extends TimerQueue) | - | TimersKept | done; that timers fire is checked |

Composition: EventLoopThread extends EventLoop; TcpServer and TimerQueue use of
the loop what Executor promises (a queue of functors, in order, each once), which
is the reason for proving that refinement first. HttpConnection is the detail behind
TcpServer's `out` bit and its `AfterCallback`, and Buffer the one behind
HttpConnection's sequences: that a Buffer is a queue of bytes is what `net` checks.
ProcessServer1 and ProcessServer2 share ProcessConnection; ProcessHttpConnection is the detail
behind its `pending`. Descriptors adds to ProcessServer1, and Sockets to TcpServer and
ProcessServer2, the numbers that these leave out by naming connections.

MCNet, MCConnections, MCParent and MCUtilities each put modules side by side that share
nothing: a variable `kind`, chosen at the start, says which of them a behaviour is about, and
the variables of the others keep their initial values. One run then answers for all. The modules
that have proofs are extended, so that a run and a theorem name the same property: Buffer, Connector and
BufferIntegers in MCNet, HttpConnection, HttpLine and Sockets in MCConnections, ProcessServer1 and
Descriptors in MCParent, EventLoopThread, BlockingQueues, WebBenchOptions and LogStream in MCUtilities. ProcessTimerQueue and
ProcessHttpConnection are instantiated. (In MCConnections the connection of a process has the input and
the client of the other one, and a `conn` of its own.)

All modules are written to be proved about: parameters are CONSTANTS with named
assumptions, one action per operation, recursive functions in the place of
recursive operators.

## 3. Modules and the code

### Executor
What the rest of the program needs of a loop: `fresh` calls are either submitted
to a FIFO `queue` and executed from its head, or run on the spot
(`runInLoop` in the loop's own thread); `done` is the order of execution.

### EventLoop
`EventLoop.{h,cpp}`, with `Channel` and `Epoll` reduced to readiness of two
descriptors. `pc` is the program counter of the loop's thread. The actions
`Loop`, `CheckQuit`, `PollReady`, `PollTimeout`, `HandleRead`, `BeginCallback`,
`EndCallback`, `EndHandling` are the statements of `loop()` and `handleRead()`;
`Swap`, `BeginFunctor`, `EndFunctor`, `EndBatch` those of `doPendingFunctors()`.
User code runs at `callback` and `functor` and may call `queueInLoop`,
`runInLoop` and `quit`. For another thread, the push and the write of the
eventfd are two steps (`QueueFromThread`, `Wakeup`), because the code
unlocks between them; `quit()` likewise. `quit_` is a plain `bool` read and
written by two threads; the model takes it as one that is eventually seen.

### EventLoopThread
Extends EventLoop with the thread's `stage` and its owner's `opc`. The wait loop
of `startThread` is `CheckLoop` and a sleep that `Publish` (set and notify, one
critical section) or a spurious wakeup ends. The destructor is `Destroy`
(`quit()`), `QuitWakes` (its write of the eventfd) and `Join`.

### TcpServer
A connection is a record: `state`, the loop it belongs to, the events its channel
asks for, the status in epoll, whether output is pending, and what the peer did.
`Held(c)` is whether some `shared_ptr` is left: in `connectionMap_`, in a queued
or swapped-out functor that binds one, or in a user thread. Every assertion on the
path (`~TcpConnection`, `~Channel`, `handleClose`, `connectionEstablished`,
`removeConnectionInLoop`, `Channel::remove`) is kept: the first that fails is
recorded in `failed`, and nothing runs after it. The batch of a loop keeps its
references until it is destroyed as a whole, as the local vector of
`doPendingFunctors` does. Message and connection callbacks are those of a server
like `HttpServer`: they may send, then may shut down (`AfterCallback`).
A user thread keeps a `shared_ptr` and calls `send` or `shutdown`: the test of
`state_`, the store to it and `runInLoop` are separate steps. `~TcpServer` runs in
the base loop between two handlers.

### TimerQueue
Times are relative: `due[t]` is the timer's expiry less the present, `alarm` the
time left on the timerfd, and `Tick` moves all of them. One unit is the 100 us
below which `howMuchTimeFromNow` never arms. `HandleRead` is `handleRead` up to
the callbacks (`getExpired` included), `RunTimer` the start of one callback,
`Reset` the end of it. `AddFromLoop`, `CancelFromLoop` are calls in the loop's
thread, also from inside a timer's callback; `AddFromThread`, `CancelFromThread`
queue, and `RunFunctor` runs what they queued. `Alive(t)` is whether the weak
pointer in a `TimerId` still locks; `cancel` asks nothing else, so a timer may be cancelled several
times, by the same or by different threads. `Alive` counts the pointers of the two containers and of a
queued `addTimerInLoop`; those that `cancel` itself and a batch of functors hold for a moment longer
are left out, as they only let a late cancellation find its timer.

### ByteQueue and Buffer
`Buffer.{h,cpp}`. The vector and its two indexes are a record, cell `i` of the vector
is element `i + 1`; every member function is an operator that returns the buffer after the
call, and the state machine is a user that makes any call whose precondition
holds. The bytes themselves are in the model, three values of them, so that a copy to the
wrong place shows. `readFd` may call `readv` twice: the calls are steps of their own,
with `stored` and `result` beside each other. What a user sees is
`Readable(buffer)`, and that is the refinement mapping to ByteQueue.

### BufferIntegers
`appendInt32`, `peekInt32`, `readInt32`, their kin and `findEOL`/`retrieveUntil`, between two
hosts. A message is put together by appending and by `prependInt` of its length, its bytes
come to the reader in pieces, and the reader looks (`peek`) and takes when enough is there.
`order` is the byte order of each host. `htobe` is the library's, from one number to
another; `Encoded` and `peekInt` put its unsigned result through a signed variable, as the code does.
The number of values of a byte is any even one, 256 in the code, and lines have no LF in their text.
A Buffer is here what ByteQueue says of it.

### Http and HttpConnection
Http is the parser as operators (the three servers have one text of it: `HttpContext.cpp` differs
between them in the namespace and in signatures only, and Buffer's reading side likewise). A line is two cells, its text and the CRLF, and the
texts are classes: what `processRequestLine` and the search for a colon tell apart.
`parseRequest` is a function over the turns of its loop; a turn that would change nothing
for ever leaves `more` set (`failed = "spin"`). HttpConnection is one connection
with its socket, both buffers, context and answers. `HandleRead(k)`
takes any number of cells that have arrived, runs the parser and `onMessage`, and with them
`send` and `shutdown`; `HandleWrite(k)` writes any part. An answer is two cells
too. `wrote` is what the socket took; `answers` the answers that `send` accepted, 0
for the 400. The client asks for one of a few scripts, all at once
or, if `patient`, one request after the other.

### HttpLine
`processRequestLine` with the setters of HttpRequest (`processRequestText`), and `addHeader` with
`getHeader` (`addHeaderText`), over lines of tokens: words, the separators that the code searches for, and white space that is not
a space. Each `std::find` is a position in the line (`find`), so that the comparisons with `end` and
the steps over a separator are those of the code. `LinesAreUnderstood` compares with a
grammar written down independently.

### ProcessHttpConnection
Extends HttpConnection by the connection of a process: the same parser and client, and another
output. `send` keeps what is left without asking for the write event, so a client may get
a prefix of its answers; `shutdown` sends the end at once or never.

### Connector
`connect_` and a record `k` of the other members, with what waits for them: functors
in the queue of the loop, retry timers, the attempt in the kernel. `Poll`,
`HandleChannel`, `HandleTimer`, `Swap`, `RunFunctor` and `EndRound` are the loop;
`CallConnect`, `CallStop` and `Queue` a thread that calls `TcpClient::connect` or
`stop`, which set the flag first and queue the functor afterwards; `StopInCallback` is
`stop()` from a callback. Delays are left out: a waiting retry may come at any time.

### ProcessConnection
A connection of the variants with processes as a record and its operations as operators, since
there one thread does everything in nested calls. `status` and `watched` are what Epoll
thinks and what the kernel does; they come apart in multiProcess1, whose
`updateChannel` does not set `kDeleted` (`MarksDeleted`).

### ProcessServer1
The parent forks (`Fork`), does its own part (`AddChild`), and each child its part
(`ChildStarts`) at any later time. Handlers are installed at different times on
both sides, so a signal finds default, inherited or own handlers. `listened` is the epoll
instance of the parent, which a child can change (`ClearInSubProcess`). `Accept` is a turn of
the accept loop with `sendToChild`; `ReceiveFd` is the child's end of the pipe. `Crash`
kills a child anywhere. A round of a child's loop handles the events it got from
one `epoll_wait` in any order.

### ProcessServer2
Every process, the first, its children and those that replace dead ones, is a
record of the same kind and runs the same rounds: `Lock` (the hook before the round),
`Poll`, `Accept` with `unlockAcceptor`, `HandleMessage`, `HandleClose`. The flags are looked at
between them as in `loop()`. `Leave` is the end of `start()` and the destructors,
which destroy the shared mutex; `Replace` and `NoRoom` are
`createNewChildProcess`, which a child runs too when it inherited the handler of
SIGCHLD and has children. Both constructors leave `started_` uninitialised: it starts as either
value.

### Descriptors
multiProcess1, with `processNum_` children, a number chosen at the start. `table[p]` is the table of process `p`, 0 the parent: what is open under each number.
`forked`, `sockets` and `serving` are who holds which number: the ends of the pairs, the `Socket` objects
of the parent (listening, of a connection, moved from), the connections of a child.
`Fork` copies the table, and each side does to it what its code does afterwards. `Accept` goes on to
the copies of `Socket` up to `sendFd`; `ReceiveFd` takes a message out of `flight`, which
may find the child's table full. `stray` collects a `close` of a number that was not open
or meant something else.

### Sockets
The numbers within one process: `table`, the `Socket` of each connection, `epoll[l]` as the
kernel has it beside `status` (`channelMap_` and `statusInEpoll_` of each loop), and the list
of events of a round with its size. The last reference to a connection may go in a queued
functor, in the destroyed batch of another loop or in a thread that keeps it (`kept`); the
number is free from there, and `Accept` takes the lowest free one. A full table is a
failing `accept`, which epoll reports again and again. `server` says at the start which one it is:
some io loops beside the base loop, the base loop alone, or the loop of multiProcess2, that does
everything in nested calls (`Direct`).

### ThreadPool, BlockingQueues, LogStream, WebBench, WebBenchOptions
Small modules that one run checks side by side. In ThreadPool (and ThreadPool_cpp11, the same
with `std::thread`) and in BlockingQueues a critical section is one step; `wait` gives up the mutex,
and `notify` wakes any one sleeper. BlockingQueues keeps `circular_buffer` as cells and two indexes;
producers that are done count a `CountDownLatch` down. LogStream
has `formatInteger` with its two tables around the digit zero, the loop of `convert` as a recursive
function, `cut`, and the test for room in front of each number. In WebBench a child is at a call that may
block (`connect`, `write`, `read`) or at the top of its loop; `Alarm` comes anywhere
and may make the call fail. `errors` counts what failed without the alarm. WebBenchOptions
is `main` up to the benchmark: options in any order and number, then `build_request`, with its
refusals of URLs and its choices of version and headers.

### ProcessTimerQueue
Extends TimerQueue. `addTimer` and `cancel` act at once, and `reset` arms the
timerfd inside its loop, so a round without an expired timer does not arm it.

## 4. Runs

| run | result | what it shows |
|---|---|---|
| `loop` | passes | The loop never sleeps on work, implements Executor, serves every functor queued while it runs and obeys quit(), with no help of the 10 s poll timeout. |
| `server` | passes | Connections opened and closed by clients and by callbacks: no assertion fails, epoll knows live channels only, none is forgotten, a closed connection is given back and one that is shut down gets closed. |
| `server_users` | passes | With a user thread that sends or shuts down, and `~TcpServer`: a late `send()` does not make a removal happen twice, and a late `shutdown()` makes no handler of a loop abort (`UsersDoNoHarm`). |
| `timers` | passes | Containers agree, timerfd armed, none early, cancelled ones stay out, none stalls, and no assertion fails but that of a cancellation that finds its timer gone: with callbacks that take no measurable time. |
| `net` | passes | No sequence of legal calls of a Buffer fails an assertion or gives up the room in front, what can be read is a queue of bytes, and integers and lines arrive as they were sent; a client that connects once may stop at any moment, and after `stop()` all comes to rest; the timers of a process keep their containers in order and fire as long as none is cancelled. |
| `connections` | passes | The client gets whole answers in order, one that waits gets all, the parser aborts only in a connection it refused, a close that was put off follows the last byte; in a process it gets a prefix and an answer if the socket took it; every line is taken as the grammar says; numbers in epoll, in Channels and in the kernel are of the same connection, although numbers return; nobody who sent something is passed over for ever. |
| `parent` | passes | multiProcess1: closes are clean and deaths noticed, clients are served while no process ends, all children end with the parent; each descriptor is closed once by its owner, and when a client has hung up no process holds its socket. |
| `mutex` | passes | multiProcess2: one process at most watches the listening socket, it holds the mutex and keeps it until it ends; clients are served while no process ends. |
| `utilities` | passes | EventLoopThread: the start handshake has no lost notify and startThread returns, and so does the destructor if loop() was entered before it. ThreadPool gives each task to a worker and its `stop()` returns; the queues keep their order, the bounded one loses the oldest element exactly when it holds `capacity` others and never another, a take takes one, and who waits is woken; logged numbers are complete and read as they are; webbench's request is one that HTTP allows, with the target and the port that fit its receiver, its counts leave out what the alarm broke, and it prints the sums of all children. |
| `parent_output` | violated | multiProcess1 (and 2): `send()` enables reading where its comment says writing, and the rest of an answer is never sent. |
| `queue_room` | violated | BoundedBlockingQueue: `put()` says that it waits until the queue has room; it never waits, and the oldest element is lost. |
| `process_timers` | violated | multiProcess1 (and 2): a cancelled timer takes the timerfd with it, and the timers that wait do not fire. |

Each violated run states what a comment of the source says and is described, with that
line quoted, under `findings` in `PROJECT.json`.

An invariant such as `UsersDoNoHarm`, `AssertionsHold` or `ListensInTurn` is a conjunction of
named parts that are stated where it is defined; the composing modules state a property of a
component for the behaviours that are about it.

### Bounds

- `loop`: two foreign threads and three functors. Two threads are needed for one
  to sit between push and wakeup while the other overtakes it; three functors for
  one in the batch, one queued by it and one queued from outside. The theorems of
  section 6 remove both bounds for the safety part.
- `server`: two connections, and a pool of two loops or none. Two connections of
  one loop meet in the single-threaded case, two loops beside the base in the
  other; a connection touches only its own loop and the base. `MaxQueue` bounds
  only the calls of user threads, and so is not met in `server`.
- `server_users`: one connection, one user thread, `MaxQueue` 2.
- `timers`: two timers, delays -1 (`runAt` in the past), 0, 1 and 2, intervals 0 and 2, times told apart up to
  `Past` units back. Two timers give every order of due times around one timerfd;
  a timer that repeats comes with one that does not. Another thread cancels while at most
  `MaxQueued` = 3 functors wait: one timer can be cancelled twice, with the other's addition or
  cancellation before, between or behind the two. (`net` and `process_timers`, where nothing is
  queued, have 0.)
- `net`: the Buffer has 2 cells in front, 2 at first, an extra buffer of 2, at most 7 cells; chunks of 0,
  1, 2, 3 and 4 bytes. So every comparison of `makeSpace` and `readFd` is met on both
  sides and at equality, and `readFd` can fill everything exactly and read again. Numbers have 1 or 2
  digits of base 4, two of which are CR and LF, so that numbers look like ends of lines; two items
  are sent, which puts one before the other. The client makes three calls and three attempts:
  connect, stop and connect again, or a stop from both sides. Two timers, as in `timers`.
- `connections`: scripts of two or three requests, good, with
  `Connection: close`, with a bad line of each kind, or with a line that is no header. A
  third request meets what the second left. Cuts are at every cell. Lines of four tokens
  after nothing or after `GET` and a space: one more than separate a version from a method.
  Sockets has no or one io loop, three visitors, one of them busy, three numbers and one event to a
  round at first: a third visitor meets a full table, or a number that was used, and rounds
  are full and grow.
- `parent`: two children, two clients, one signal or crash. Two children are needed for one to
  be forked after the other's death; two clients for the turn to come round and for two
  events in one round. One fault meets every state; the faults that follow
  from it (SIGINT of `killAll`, SIGCHLD) are not counted. Descriptors has one child with
  three visitors and tables of 5, and two children with two visitors (`Pair`) and tables of 6: one or two
  numbers are left for connections, so tables get full and numbers return.
  `parent_output` needs one child, one client and no fault.
- `mutex`: three processes and two more to replace dead ones, one client, one fault.
  One client is enough for the mutex, whose state does not depend on who accepts.
- `utilities`: the owner of an EventLoopThread, one more thread, two functors; two workers and three
  tasks; two producers with three elements each, two consumers and room for two: the indexes go round the four
  cells, and elements are forgotten;
  integers of eight bits and three digits, whose least one is no other's negative, in a stream of 12 characters
  that keeps 6 free; two clients of webbench with at most two requests
  and one failure that has a cause other than the alarm; three options, whose numbers, like the
  ports, are -1, 0 or 2 (`Given`): `atoi` of a negative number, of zero or of text, and of another number.
- `queue_room`: two producers with two elements each, two consumers and room for two: one element more
  than there is room.
- `process_timers`: two timers, delays and intervals as in `timers`.

### Fairness

- The loop's thread keeps running and callbacks return: weak fairness of the
  loop's steps. A thread inside `queueInLoop` or `quit` gets to its write of the
  eventfd.
- Nothing is assumed of the poll timeout: a functor that is only rescued by it
  counts as not served.
- Epoll is level-triggered (`Epoll.cpp` never sets `EPOLLET`), so an event is
  reported until handled: weak fairness of `ReadClose` and `Writable`. The second
  also says that a client that is still there reads what it is sent.
- Time passes: weak fairness of `Tick`. The timers of multiThread: weak fairness of `LoopStep` and of
  `HandleRead` by itself, as every turn of `loop()` handles the descriptors that are ready, the timerfd
  among them, and only then one batch of functors. Without it cancellations that keep coming from another thread
  could keep the timerfd waiting.
- Sockets and Descriptors: each loop and each process goes on (`Step`, `SubStep`). Clients
  need not come, send or hang up, and who keeps a connection need not let it go.
- HttpConnection: what is ready is handled, and the client takes its output: weak
  fairness of `HandleRead`, `HandleClose`, `HandleWrite`. Nothing is assumed of a client's
  questions.
- Connector: the loop runs, the kernel ends each attempt, a call that was begun is
  finished, and a retry timer that waits expires (strong fairness, since the loop is not in
  `Poll` all the time).
- Processes: each goes on. `epoll_wait` has a timeout in both variants (10 s and
  500 ms), so a flag that is set after the look at it is seen. Clients, signals and crashes
  need not come.
- ThreadPool and BlockingQueues: every thread that is not asleep goes on.
  Tasks return. WebBench: the children and the parent go on, and the alarm comes.

`CHECK_DEADLOCK FALSE` is set where the program really may stop: an
EventLoopThread that has been joined, a server with no client left (or that was
aborted), timers after a failed assertion, a connection or a process that has ended.

## 5. What is only model-checked, and known limits

Every safety invariant and every action property of a passing run is a theorem of section 6, and so are
the two refinements. What stays with TLC:

- Liveness, everywhere, as the prover cannot reason about fairness and ENABLED: `LoopServes`,
  `OwnerGoesOn`, `ConnectionsEnd`, `TimersFire`, `StopEnds`, `ProcessTimers`, `ThreadAnswers`,
  `ProcessIsAnswered`, `EveryoneHasATurn`, `ClientIsServed` of both variants with processes, `AllEnd`,
  `HungUpIsClosed`, `PoolServes`, `BenchPrints` and `QueueServes`. The safe parts of `ProcessTimers`,
  `ProcessIsAnswered` and `QueueServes` are proved (`ProcessTimersKept`, `PrefixIsAnswered`,
  `QueuesKeepOrder`). `BenchPrints` and `PoolServes` have none: what they say of the sums
  and of a task is said of the moment they lead to.
- That a client that waits for its answer gets one (`PatientIsAnswered`); it needs scripts
  in which each message is one request.
- What TcpServer keeps when the server is destroyed, or when one thread both sends and shuts down:
  see `UsersAreHarmless` in section 6.

Behaviour that the models contain and that is outside of the passing runs, found
while they were written:

- `queueInLoop` by the owner before `loop()` does not wake: the functor waits for
  the first event or for the timeout. (`EarlyQueue` in EventLoop; the theorem
  `NeverSleepsOnWork` assumes it away, `ImplementsExecutor` does not.)
- `shutdown()` of another thread may overwrite `kDisconnected` by
  `kDisconnecting`, as the test and the store are not one step: `StateForward`
  holds without user threads only.
- A destructor of EventLoopThread that calls `quit()` before `loop()` is entered joins for
  ever: `loop()` stores `quit_ = false` (`DestroyEarly` in EventLoopThread).
- `shutdownWrite` calls `shutdown(2)` with `SHUT_RD`: the connection's own next read
  returns 0 and closes it; `ConnectionsEnd` and `ThreadAnswers` hold because of it.
- The connection callback is not called after a close, although `TcpConnection.h`
  promises it: `handleClose` has set `kDisconnected` before `connectionDestroyed` looks.
- A `send()` of another thread that was queued before the close enables writing on a
  closed channel; its next event, its removal or its destruction fails an assertion
  (`NoAssertionFails` with `UserOps` of `send`).
- `handleRead` of TimerQueue in the very microsecond a timer is due fails the assertion
  of `getExpired` (`ExactHit`). A callback that outlasts the next due time leaves the timerfd
  disarmed and the timers stall (`SlowCallbacks`). A one-shot timer that runs between
  another thread's `cancel` and `cancelInLoop` fails the assertion there (`TimerQueue.cpp:124`), and so
  does the second of two cancellations of one timer, repeating or not, that was queued while the timer was there:
  `cancel` asks only whether the timer exists, and the first `cancelInLoop` frees it. `NoAssertionFails` says
  that these are the only cases.
- A message that `send` meets with output pending is dropped: a client that pipelines may miss
  whole answers. (`ThreadAnswers` promises them to one that does not.)
- A request line with a known method and no `HTTP/1.1` sets the method; the line stays in
  the buffer, and the next message of that connection fails the assertion of `setMethod`
  (`AnswersInOrder` says also that it is in no other).
- TcpClient: `newConnection` stores its connection nowhere, so a successful connect ends in
  the assertion of `~TcpConnection`. A second `connect()` while an attempt is under
  way fails the assertion of `startInLoop`.
- ThreadPool: `stop()` leaves tasks in the queue (`PoolServes` promises them for a pool that is not
  stopped).
- BoundedBlockingQueue: `push_back` drops the oldest element when it is full, so `put` never
  waits, although its comments say that it does (`queue_room`); `circular_buffer` allocates `capacity` cells and uses two more, so an element may
  come back changed (`Lost` in BlockingQueues).
- Buffer: `shrink` throws the data away. LogStream: characters, strings and flags are lost, as
  `FixedBuffer::append` is empty.
- multiProcess1: a child that starts takes the timerfd of the parent out of the shared epoll
  instance. A child that dies ends the whole server. A child that dies
  before the parent has handlers is not noticed. The flag `child_quit` that a child
  inherits at its fork keeps it from ever handling an event.
- multiProcess2: a process that ends with the mutex leaves it locked, and no other process
  accepts again; one that ends in good order destroys the mutex of all. A
  process that replaces a dead one has a loop without hooks and accepts nothing;
  `createNewChildProcess` returns no value when there is no room. `killAll` of a child
  reaches its elder siblings, whose pids it inherited.
- A failing `fork` is not modelled. In multiProcess1 `createChildProcess` goes on into the code of
  the child, in the parent, which then leaves by `exit(0)`; in multiProcess2 `createChildProcess`
  leaves that child out, and `createNewChildProcess` returns -1, so that nobody replaces the dead one.
- In both variants with processes, `send()` does not ask for the write event (`parent_output`), so `handleWrite` never
  runs; timers stall after a cancellation (`process_timers`), which is why `ProcessTimers` is about
  behaviours without one.
- multiProcess1: `receiveFd` uses what is in its message at the end of the stream or when
  its table is full; the destructor of SocketPair has its condition the wrong way round and closes nothing; a
  child leaves by `exit(0)`, which does not destroy `Process`.
- webbench: `keep_alive` is true for every request. `atoi` makes the numbers of the command line, and only a 0 of
  `-c`, `-t` and of the port in a URL is corrected: a negative number passes, and a negative `-c` makes the parent
  go on as if it were a child; a proxy is given any port, 0 included. (`RequestIsWellFormed` says what is corrected;
  the benchmark itself, in WebBench, is that of a positive `-c`.) The parent has the pipe's writing end open, so it waits for ever for a child
  that died. With keep-alive, the loop that connects again does not look at
  `timerexpired`.
- `~TcpServer` queues `connectionDestroyed` with a raw pointer and drops the map:
  the functor may find its connection gone; for a `kDisconnecting` connection
  `Channel::remove` asserts. `UsersDoNoHarm` is what holds
  in spite of it.
- In the loop's thread, `cancel` of a timer whose `addTimerInLoop` is still queued
  by another thread has no effect.
- A failure of `accept` for want of a number is reported again without rest, until a number
  is free (Sockets, Descriptors).
- A data race on `quit_`; `SIGPIPE` is not ignored; functions that end without returning their value
  (`Channel::setRevents`, `Acceptor::createNonblocking` and `Epoll::poll` of the variants with
  processes), which is undefined but harmless where the value is not used. These are not modelled.

Abstracted: names and addresses of connections, the bytes in TcpServer (they are in
HttpConnection), the text of a request beyond its class, back-off delays, several events of one `epoll_wait` reported to channels that a
handler of the same round removes (the removal is always done in a functor, after the
round), and the value of the eventfd counter.

### Not modelled

- AsyncLogging and LogFile: nothing uses them, and the thread fails its first assertion, since
  `start()` has set `running_`.
- Logger and FileUtil: formatting and file output without a protocol.
- Singleton, ThreadLocal, SpinLock, ObjectPool, `any`, Atomic, Exception and the like: each wraps a
  library call; the shared ObjectPool does not compile.
- `take()` of BoundedBlockingQueue cannot be instantiated either (a const `front()` calls a non-const
  `empty()`); the model reads it as if `empty()` were const.
- Options of sockets, addresses and their formats, the `main` programs, and functions without a caller
  (`Connector::restart`, `TcpClient` after its connection is made, `sendFdToParent`,
  `killSoftly`, `clearDeadChild`, `swap`).
- In Sockets, the eventfd and timerfd among the events of a round, and the mutex of the other
  processes of multiProcess2, which ProcessServer2 has.
- Of webbench, the bytes it counts, and HTTP/0.9 and `--force`, which only skip calls.

## 6. Proofs

`EventLoopProofs` proves, for any sets `Threads` and `Functors`:

- `TypeCorrect`: `Spec => []TypeOK`.
- `NeverSleepsOnWork`: `~EarlyQueue` implies `Spec => []NoSleepOnWork`. The
  property is not inductive: it speaks of one location only. `BatchInv` relates
  `callingPendingFuntors_` and the local vector to the program counter, and
  `WakeInv` says that outside of the stretch from the handlers to the swap a queued
  functor is announced: the eventfd is readable or a thread is about to write
  it. The step that matters is `queueInLoop` from a functor, where the wakeup is
  sent because `callingPendingFuntors_` is set (`BatchInv`); from a callback
  none is sent, and none is needed, because the swap is still ahead.
- `ImplementsExecutor`: `Spec => Refinement`, with the queue of Executor mapped to
  `functors \o pendingFunctors`. `Swap` is a stutter because the local vector is
  empty there (`BatchInv`); `BeginFunctor` is `Execute`; each push is a `Submit`.

And for an EventLoopThread, whose module extends that of the loop:

- `ImplementsEventLoop`: what the thread and its owner do are steps of EventLoop, so
  `ThreadImplementsExecutor` follows from `ImplementsExecutor`.
- `ThreadTypeCorrect` and `HandshakeHolds`; the strengthening, `StageInv`, ties
  `loop_` to the stage of the new thread and to where its owner is.

and on BlockingQueues, for any capacity, any consumers and any finite set of producers:

- `QueuesKeepOrder`, the safe part of `QueueServes`: both queues are `Fifo`, each step of the bounded one puts
  one element, takes one or leaves it alone (`OneByOne`), and nobody passes the
  latch early. `Fifo` alone says only that what is there is in order; that a put forgets the oldest element
  exactly if it finds `capacity` others, and a take takes the oldest and no more, is an action property,
  proved from the same invariant (`PutsOne`, `TakesOne`). The indexes of `circular_buffer` run around its cells at most once, so
  a remainder is a difference (`Around`, `RingIs`); `Ring` says which element lies where, and
  `PopKeeps` and `PushKeeps` that it stays so, also in the push that drops the oldest. The bound,
  `capacity` of the `capacity + 2` cells in use after every `put`, is part of the invariant: it is why a buffer is
  never full before a push, and `put` never waits. The latch is at the number of producers
  that have not counted it down (`Working`).

`TimerQueueProofs`, for any finite set of timers, any delays and intervals:

- `TypeCorrect`, `ContainersStayEqual`, `CancelledForGood`, `NeverFiresEarly`. They
  share `SafeInv`. A cancelled timer that is in the batch must be in
  `cancelingTimers_` (`CancelInv`), or `reset` would put it back; a timer of the
  batch is due (`DueInv`) and in neither container (`ContainersAgree`); what is still
  queued is about timers that were created, and adds none that was cancelled, although it may
  cancel one again (`QueueInv`); a timer not created yet is nowhere (`UnusedInv`).
- `TimerfdStaysArmed`, if callbacks take no measurable time (`~SlowCallbacks`). `ArmInv`
  follows the timerfd while a batch runs: no time has passed since `getExpired`, so
  what is in `timers_` is not yet overdue, unless the timerfd is already armed for
  at once; that is why `reset` finds a timer it can arm for.
- `AssertionsHold`, if `handleRead` never runs in the very microsecond of a due time
  (`~ExactHit`): the only assertion that can fail is that of
  `cancelInLoop` that its timer exists, for a one-shot timer or for one that an earlier
  cancellation took out. `PresentInv` says that a repeating timer exists until a cancellation of it has
  been carried out.
- `ProcessTimersKept`, the safe part of `ProcessTimers`, for the variants with processes, under the same
  assumption: the containers agree, nothing is early, what is cancelled stays out, and no assertion fails. Its invariant is
  `SafeInv` with an empty queue, as a process has nobody to queue for it. What their `reset()` sets the timerfd to plays no part
  in it: it decides only whether the timers fire, which is where it goes wrong (run `process_timers`).

`TcpServerProofs`, for any connections, loops and pools:

- `TypeCorrect`, with user threads, without `~TcpServer`; no run repeats it. It contains that `next_` is a
  valid index of `loops_` and that no loop runs past its batch. `UserInv` is the
  strengthening: a thread that is in a call holds a connection.
- `AssertionsHold`, `EpollIsSafe`, `RemovalIsPending`, `NoWayBack`, if only the loops use
  connections (`UserOps` has no operations) and the server is not destroyed. Run
  `server_users` shows what is left without the assumptions. `NoWayBack` is that the
  state only moves forward (`StateForward`); it is proved only.
  The inductive invariant, `SafeInv`, looks at the functors each loop has still to
  run, the rest of its batch and then its queue, as one sequence (`Todo`):
  - `FunctorInv`: each waiting functor fits the state of its connection. It is
    `established` of a connecting one in its own loop, `remove` of a disconnected one
    of the map in the base loop, or `destroyed` of a disconnected one that has left
    the map, in its own loop; and it binds a `shared_ptr`.
  - `OnceInv`: no connection has two functors waiting. Without it, running one would
    falsify what `FunctorInv` says of the other.
  - `ConnInv`: an open connection is in the map and registered for reading, a
    disconnected one has no events, and if Epoll still knows its channel, it is in
    the map or a functor of it waits.

  `StepKeepsOthers` is the one lemma about all steps: a step is about one connection,
  runs at most the functor that waits for it and queues at most one; then everything
  said of the other connections stays. An action is left to show what it does to
  its own connection.

- `UsersAreHarmless`: while the server is up, and other threads only send or only shut down
  (`OneKind`), they do no harm (`UsersDoNoHarm`). Both assumptions are needed. `~TcpServer` is in
  run `server_users` and in no proof. A thread that both sends and shuts down can make the server
  abort in `removeConnectionInLoop`: a late `shutdown()` sets a closed connection back to
  `kDisconnecting`, a late `send()` puts its channel into epoll again, and the next event closes and
  removes it a second time. Of the two, either alone is safe, for a reason of its own (`HarmInv`):
  - With threads that only shut down (`Mute`), a connection that looks open again is not in epoll
    any more: what is alive is what is open *and* `kAdded`. Its removal therefore happens once.
  - With threads that only send, the state is that of the loops, and what is alive is what is open.
    A channel may come back to epoll, and an assertion may then fail, but neither that of
    `removeConnectionInLoop` nor that of `connectionEstablished`.

  `SuitsInv` and `SoleInv` are `FunctorInv` and `OnceInv` in this weaker form. `Moves` says of a
  step what it does to the functors that wait, in all loops; the lemmas that follow from it replace
  `StepKeepsOthers`, as a step of a user is about no loop in particular.

`NetProofs`, on Buffer, for any bytes, sizes in front, first sizes and chunks:

- `BufferIsSafe`: no assertion of Buffer fails, `readerIndex_ <= writerIndex_ <= size`, and what
  `readv` has stored is never taken for the end of the stream. The strengthening is `InOrder` and, for
  the time between the two calls of `readFd`, `CountInv`: the first call filled everything, the
  extra buffer included, so that the `-1` of a failing second call is outweighed.
- `BufferIsQueue`: `Spec => ImplementsQueue`. One lemma for each member function says
  what becomes of `Readable`. In `makeSpace` the data is moved to the front while it
  is copied, and in `prepend` the bytes go in front of the reader; the lemmas say
  that each cell of the result is that of the argument.

and on Connector, for any number of calls and attempts:

- `StopIsSafe`: `ClientSpec => []OneStartIsSafe`. `Line` is the functors that wait, those of the
  round first. `ChannelInv`: an attempt under way has its channel in epoll, and a removed
  channel waits for exactly one `resetChannelInLoop`. `TryingInv`: who wants to connect has a way
  to the next attempt. `OneWay`: after one `start()` there is only one, the call, its functor, a
  timer or the attempt. `StoppedForGood` is the reason that a retry never meets a channel that has not been
  reset: once `stop()` has begun, `connect_` stays false, and while it has not, a reset
  that waits runs in the round in which the channel was removed, before any timer of the next.

`ConnectionProofs`, on HttpConnection, for any scripts of the client, cut anywhere, and any parts in which the socket takes
the output:

- `AnswersAreInOrder`: `Spec => []AnswersInOrder`. Its lemmas are about the parser first.
  `parseRequest` is a recursive function, so `ParseIs` needs an induction; `SetInduction` takes
  it from the fact that every set of numbers has a least element, with the property
  written as a set. It shows that there are never more turns than cells (each turn but the last
  takes a line) and that a parse is `Sound`: it aborts only in a `Spoilt` context, one that has
  already the method of a line that was refused.
- The invariant of the connection is `Whole`: the stream is `Flat(answers)`; while the connection is open,
  it asks for the write event exactly if output is pending, and a shut reading side means that none
  is. The second part is stronger than `AnswersInOrder`, and is why `sendInLoop` never writes past pending
  output and why a shutdown that was put off waits for the last byte. `LastIs400` and
  `Spoilt(context_) => conn.state_ # "kConnected"` say what a refusal leaves behind.
- `PrefixIsAnswered`, the safe part of `ProcessAnswers`, for the connection of a process, which never asks for
  the write event: what was written and what is kept is still whole answers in the order of the requests
  (`Clipped`), and as long as nothing is kept, of all requests (`Complete`). Once something is kept
  nothing is sent any more; so a cut answer is the last one.

on HttpLine, for lines of any length and any beginnings:

- `LinesUnderstood`: `LineSpec => []LinesAreUnderstood`. `processRequestLine` finds a blank, a second
  one and a `?` by three searches, and steps over each of them whether it was found or not. `FoundIs`
  says what the three positions mean, `OkIs` for which of them the line is taken: the searches
  that run to the end leave a rest that cannot be the version. `LaidOut` compares with the
  grammar, the path and the query at their places. `LineInv` is needed for the headers alone: what
  `addHeader` stored stays, while the line it came from is replaced.

and on Sockets, for any clients, numbers, loops and sizes of a round, for multiThread and multiProcess2:

- `SocketNumbersAreCurrent`: `SocketsSpec => []NumbersAreCurrent`. A number is used again as soon as it is closed, and
  `channels_` is indexed by it, so an entry that survives its Socket would be found by the next one. The
  invariant, `SocketsInv`, goes around that circle: a number belongs to a connection exactly if the
  connection has it (`FdsInv`); the status of a channel says whether it is in the map, and which
  functor waits for it (`ConnOf`); an entry, or a watched channel, is that of a connection that has the number in
  this loop (`EntryOf`, `WatchOf`); the events of a round are distinct and watched (`RoundInv`); and a
  connection has one functor at most, in one loop (`OnceIn`). The step that matters is the
  release of the last `shared_ptr`, which closes the number: by then the connection has neither an entry nor a functor.

`ProcessServer1Proofs`, for any number of children, clients and faults, for both kinds of
`updateChannel`:

- `ClosesWell`: `Spec => []ClosesCleanly`. `ConnInv` says that a connection that a child
  serves is registered for reading and in the map, and that one that is closed has left both; the
  lemmas on `onMessage`, `handleClose` and `Destroyed` say that the operations keep that.
  `OneOwner` is strengthened by `RoundInv`: a child in whose round the pipe is has a
  descriptor to receive. `HandlerInv` is why a death is noticed: the parent has its handlers
  before a second child exists.

and on Descriptors, for any number of children and clients and any table that holds what the parent opens
(`Spare >= 4`):

- `DescriptorsOwned`: `DescriptorsSpec => []DescriptorsAreOwned`. The lowest free number is taken, so a number that the parent
  closes once too often is that of its next connection. `ParentInv` knows the parent's
  table wholly: its own files (`Own`), and at `NextNumber` nothing, or the connection that is on its way to
  `sendFd`, which the last of the Sockets on that way carries (`Carries`). In a child, a number stands for a
  client exactly while the child serves that client under it (`SubInv`). A client is in one child or on its
  way to one, never both (`ClientInv`), and once on that way (`OnceInFlight`).

`ProcessServer2Proofs`, for any number of processes, clients, faults and replacements, if
`updateChannel` sets `kDeleted` (`MarksDeleted`), as line 85 of `multiProcess2/net/Epoll.cpp` does:

- `TypeCorrect` and `Turns`: `Spec => []ListensInTurn`. `Turn(p, r, holder)` relates the flag
  `isLock_` of a process, what its acceptor's channel asks for and what its epoll watches to the holder of
  the mutex; `ProcessInv` is that for all processes, with what each location of a round adds.
  `ForkInv` says that nothing is in the place of a child that has not been forked; `ServedInv` and
  `ClientInv` are about the connections.

`UtilityProofs`, for any number of options and any integers for their numbers:

- `RequestsAreWellFormed`: `OptionsSpec => []RequestIsWellFormed`. `VersionFits` is the reason that
  a request without headers is a plain GET: whatever needs a header raises the version. `HeadersFit`
  follows the lines of the request as they are put together; `ToSetConcat` is the lemma on
  sequences it needs. As long as no proxy is named the port is still 80 (`OptionsInv`), so a server is
  asked at the port of its URL, or at 80.

on LogStream, for any integers and pointers, and any sizes that leave room for them:

- `LoggedFits`: `LogSpec => []NumbersFit`. In C++ a quotient is cut toward zero, and a remainder has the sign of
  the dividend: the digits of a negative number come out of negative remainders. After `k` turns of `convert`
  the digits written so far and what is left make the number (`Written`, `DigitsRead`), and `PowerIs`
  bounds the turns. The turns are a recursive function; that it exists is proved too
  (`ChainExists`), by induction over sets of numbers (`SetInduction`).

and on BufferIntegers, for both byte orders at either end, any even number of values of a byte, any sizes
of integers, and any lines without an LF:

- `StreamIsRead`: `NumbersSpec => []ValuesArrive`. The arithmetic comes first: a number is its bytes and the bytes are the
  number (`BytesOf`, `BytesAgain`), with the sign (`SignIs`); `htobe` turns them around on one kind of
  host and not on the other, and what lies in the buffer is the same (`HtobeIs`, `EncodedIs`); `PeekIs`
  is the way back. The invariant, `NumbersInv`, has the types, that the draft is the encoding of its
  values (`Carries`), that buffer and wire together are the encoding of what was sent and not taken
  (`StreamIsWhole`), and that there is no LF among the bytes already looked at. The lemmas on
  reading take an integer (`HeadCarried`, `CutOff`) or a line (`LineOff`) off its front. A line
  may be cut between its CR and its LF; `TextInFront` covers the CR that is the last byte so far.

The type invariants are theorems without a run of their own; those of the modules without
proofs are conjuncts of an invariant that is checked.

The proofs use no assumption on the constants but those named in the theorem and the
`ASSUME`s of the modules. Where an inductive invariant was in doubt, TLC checked it first, on the instances of
the runs.
