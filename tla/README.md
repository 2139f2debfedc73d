# LiveServer: a verification project in TLA+

LiveServer (`src/`) is a C++ network library after the reactor pattern: event loops over edge-triggered
epoll, each with its own thread, a queue of tasks for it, and a timing wheel; TCP connections, an acceptor
and byte buffers on top; and a small base library (logging, periodic tasks, strings). `src/src/main/main.cpp`
starts the log and prints a line; what exercises the library is `src/src/network/net/tests/`.

Paths below are relative to `src/src/`. This project models the parts in which the order of events
matters, checks them with TLC and proves the central ones with TLAPS.

## 1. Inventory

| component | state | operations | interacts with |
|---|---|---|---|
| **EventLoop** `network/net/EventLoop.*` | `looping_`, `functions_` under `lock_`, `events_`, `epoll_events_`, `pipEvent_`, `wheel_` | `Loop`, `Quit`, `RunInLoop` (4 forms), `RunFunctions`, `WakeUp`, `AddEvent`, `DelEvent`, `EnableEventWriting/Reading`, `RunAfter`, `RunEvery`, `InsertEntry` | every thread that calls `RunInLoop`; its events; its wheel; the kernel |
| **PipEvent** `network/net/PipEvent.*` | the two ends of a non-blocking pipe | `Write`, `OnRead` | written by any thread in `WakeUp`, read by the loop |
| **TimingWheel** `network/net/TimingWheel.*` | four wheels of slots of `shared_ptr`s, `tick_`, `last_ts_` | `InstertEntry`, `OnTimer`, `PopUp`, `RunAfter`, `RunEvery` | callbacks are called by destructors of entries, while a slot is being destroyed, and insert entries |
| **EventLoopThread** `network/net/EventLoopThread.*` | `loop_`, `thread_`, `running_`, `lock_`, `condition_`, `once_`, `promise_` | constructor, `StartEventLoop`, `Run`, `Loop`, destructor | owner, other callers and the worker it starts |
| **EventLoopThreadPool** `network/net/EventLoopThreadPool.*` | `threads_`, `loop_index_` | `Start`, `GetLoops`, `GetNextLoop` | EventLoopThread |
| **TcpConnect** `network/net/TcpConnect.*` | `mClose`, `mMessageBuffer`, `mIovecList`, callbacks, idle timeout | `Send` (list, buffer), `OnRead`, `OnWrite`, `OnClose`, `OnError`, `ForceClose` (the idle timeout has no effect: the call in the destructor of its entry is commented out, `TcpConnect.h:41`) | its loop, the socket, the callbacks of the user |
| **Connection** `network/net/Connection.*` | `active_`, `active_cb_`, contexts | `Active`, `Deactive`, accessors | its loop |
| **Acceptor** `network/net/Acceptor.*` | the listening socket, the callback | `Open`, `Start`, `Stop`, `OnRead`, `OnError`, `OnClose` | its loop, the accept queue |
| **MsgBuffer** `network/base/MsgBuffer.*` | `head_`, `initCap_`, `buffer_`, `tail_` | append, insert in front, retrieve, unwrite, `ReadFd`, `Swap`, growth | the connection that owns it, `readv` |
| **TaskMgr, Task** `base/TaskMgr.*`, `base/Task.*` | the set of tasks under `lock_`; `when_` of a task | `OnWork`, `Add`, `Del`, `Restart` | callbacks with `lock_` held; nothing in the repository uses them yet |
| **FileLog, Logger, LogStream** `base/` | file descriptor, name, type of rotation | `Open`, `WriteLog`, `Rotate` | every thread that logs; nothing in the repository calls `Rotate`, though the class is made to be rotated by another thread |
| **InetAddress, SocketOpt, StringUtils, Singleton, NonCopyable, TTime** | none of their own beyond a descriptor or an address | wrappers and pure functions | |

How they interact: a thread that is not the loop's own calls `RunInLoop`, which pushes a task under `lock_` and
writes a word in the pipe; the loop wakes from `epoll_wait`, dispatches its events (the pipe, the acceptor, the
connections), runs the queued tasks with `lock_` held, and turns its wheel. Connections send from their loop
only: `Send` and `ForceClose` are tasks. An `EventLoopThread` owns a thread in which an `EventLoop` lives on the stack.

What is hard here, and what makes each part correct (the full list, at its lines, is `hazards` in `PROJECT.json`):

* *EventLoop*: producers race with a consumer that is about to sleep on an edge-triggered pipe that is emptied
  one word at a time; locks are held during callbacks. Every task runs, once, in order, on its thread; no
  wake-up is lost; no circle of waiting threads; `Quit` is noticed though it wakes nobody.
* *TimingWheel*: callbacks run in the middle of a rotation; slots of minutes are counted from the insertion
  and popped at boundaries counted from the start. Nothing is late, and early only by a known amount.
* *EventLoopThread*: the thread starts before the members it uses are constructed. `Run` returns, to all its
  callers, only when there is a loop; the destructor joins.
* *TcpConnect*: partial writes, edge-triggered write events that are switched on and off, callbacks that
  send, delete or close in the middle of a handler. Bytes are not lost, repeated or left lying; closing is final.
* *MsgBuffer*: growth, moves and insertions in front over the same vector. It is a queue of bytes.
* *EventLoopThreadPool*: an atomic index, read and advanced in two steps, that overflows. Loops are dealt in turn.
* *Acceptor*: the socket is closed and opened again under the loop that accepts from it, and the kernel gives the
  old number to the new one. It is registered once, under the descriptor it has; no connection is left lying; stopped
  means stopped.
* *TaskMgr*: callbacks with the lock held, restarts without it. A task that is due is run, once each time, and none is dropped
  but one that is restarted between `OnWork`'s second look at its time and the erasure.
* *FileLog*: rename, open and dup2 with no lock. No line is lost unless its file is replaced by another, and lines stay in order.

## 2. Modules

| module | models | role |
|---|---|---|
| `Executor` | what a caller of `RunInLoop` may rely on | abstract specification |
| `EventLoop` | task queue, `lock_`, pipe, `Loop()`, `Quit`, for several loops and threads | implements `Executor` |
| `EventLoopProofs` | theorems about `EventLoop` | proofs |
| `MCEventLoop` | two loops, five tasks, who hands on what | for TLC |
| `TimingWheel` | the four wheels with their callbacks | |
| `TimingWheelProofs` | theorems about `TimingWheel` | proofs |
| `EventLoopThread` | one object from its constructor to its destructor | part of the pool |
| `EventLoopThreadPool` | the pool: `Start`, `GetNextLoop`, destruction | extends `EventLoopThread` |
| `EventLoopThreadPoolProofs` | theorems about both | proofs |
| `ByteQueue` | what a caller of a buffer may rely on | abstract specification |
| `MsgBuffer` | offsets, vector, growth | implements `ByteQueue` |
| `MsgBufferProofs` | theorems about `MsgBuffer` | proofs |
| `MCMsgBuffer` | bytes and chunks, the view | for TLC |
| `TcpConnect` | one connection with its loop, its socket and its peer | uses the promise of `Executor` |
| `MCTcpConnect` | three messages | for TLC |
| `Acceptor` | the listening socket, `events_`, epoll, the accept queue, descriptors | |
| `AcceptorProofs` | theorems about `Acceptor` | proofs |
| `TaskMgr` | the set of tasks, `OnWork`, `Restart` | |
| `TaskMgrProofs` | theorems about `TaskMgr` | proofs |
| `MCTaskMgr` | two tasks and their intervals | for TLC |
| `FileLog` | the log file, its names and its descriptor | |
| `FileLogProofs` | theorems about `FileLog` | proofs |
| `StringUtils` | splitting, names of files | pure functions and the state machine of the splitter |
| `MCStringUtils` | the strings | for TLC |
| `PiecesProofs` | theorems about `TcpConnect` and `StringUtils`, which both cut and join sequences | proofs |

Names of variables and actions are those of the code where there are any; `map` in `PROJECT.json` gives the
lines of each definition. Definitions named `Mutant...` stand beside the one they alter in the way a plausible
mistake would: with the mutant in its place the property listed for it is violated, which shows that the
property says something about the code.

**EventLoop.** `pc[l]` is where the thread of loop `l` is in `Loop()`, `post[t]` where thread `t` is in the queueing
branch of `RunInLoop`. Between two accesses to shared state there is a step of its own: lock and push; the test of
`pipEvent_` in `WakeUp` and its creation; `AddEvent`; the write with which `RunInLoop` ends. `RunFunctions` is
`RunFunctions` (lock), `TaskCall`, `RunBody`, `TaskDone` (pop, after the body) and `Unlock`. A task body is
abstracted to the task it hands on (`FollowUp`); handlers of other descriptors and timers of the loops in `Reacts`
may hand out any task. The pipe is external: pages of words, of which a page is free again only when its last
word is read, and an edge is queued by every successful write. `epoll_wait` may return at any time (its timeout is
one second) or fail.

**TimingWheel.** A slot is a set of items, an entry with the remainder that its wrapper inserts again. `PopUp` moves
a slot to `dying`; each item is then destroyed by a step of its own, between which the callback of an entry whose
last reference is gone (`Held`) runs and may insert entries or re-arm, as `RunEvery` does. `InstertEntry` keeps the
name that the code gives it. `RunAfter`, `RunEvery` and `InsertEntry` of EventLoop, with the locks they do not need on
the loop's own thread, are folded in.

**EventLoopThread.** The constructor is a step per member in the order of declaration, during which the worker may
run already; a mutex or a condition variable that is constructed after the worker has used it forgets the worker,
and `running_` before its initialiser is what the memory held (`Stale`). `Run` is a call (`RunCalled`), the entry into `call_once`, where
callers wait for the first of them (`RunCallOnce`), and the function. The destructor calls `Run`, tests `loop_` (`DestructorTest`), calls
`Quit` through it (`DestructorQuit`) and joins. Between the test and the call the worker may have left a loop that another caller quit,
and set `loop_` to `nullptr`; as nothing tells the compiler that another thread writes `loop_`, either value may be used
(`DestructorQuitStale`): the process ends, or the store goes where the loop was.

**MsgBuffer.** The operations are functions from buffer to buffer, since the code builds one from another
(`EnsureWritableBytes` makes a `MsgBuffer` and appends to it). `std::copy` on `char` is a `memmove`, hence `Copy` reads
all before it writes.

**TcpConnect.** One turn of a loop is `EpollWait`, the handlers in the order of `Loop()` (error, read, write), the
queued tasks. The socket is external: room in its send buffer, what waits to be read, and when an edge is queued
(new input; room after a write met a full buffer; `EPOLL_CTL_MOD` finding something that is asked for). `cb` is the stack of the
user's callbacks that run: a message or write-complete callback may send any number of messages (`CallbackSends`), of which one that is written at
once calls a write-complete callback inside it, call `ForceClose` on the spot (`CallbackCloses`) and delete the event (`CallbackDeletes`),
before it returns. The close callback may delete the event. A broken connection makes writes fail; the process is
taken to ignore `SIGPIPE`. Two histories are kept for what the code gets wrong: `overtaken`, a `Send` wrote past the queue; `repeated`, a `writev` took
more than the first segment, of which the code drops the first only.

**EventLoopThreadPool.** The threads of a pool share nothing, so one of them, at any `place`, is modelled by
`EventLoopThread` and the others only by their turn. `Start` may be called by several callers at once and calls `Run` of
thread after thread. `GetNextLoop` is two steps, the read of `loop_index_` and its increment; the index has
`2 * HalfRange` values and is converted to `size_t` before the `%`, as the code does. The call of `Loop()` on the thread that was picked is one step with
the increment: it reads `loop_`, which nothing changes in between as long as calls do not overlap, and for calls that do nothing is claimed.

**Acceptor.** `fd` is `event_read_fd_`, `socketOpt` the descriptor of `mSocketOpt`, `events` the keys under which the loop's
`events_` holds the acceptor, `epoll` the kernel's set. `Open` is one step: close the old descriptor, take a free
one, which may be the same (or -1 when `socket` fails), register it, bind, listen. The loop is `EpollWait`; `NotFound` or `Found`, the lookup in `events_`; `OnCloseStops`
and `OnCloseOpens`, the two calls of `OnClose`; `OnRead`; `Accept` with its callback until `AcceptEnds` or `AcceptFails`. `Stop` may come between any two of
them. `Start` is a queued task, or `Open` on the spot when the accept callback calls it (`StartOnTheSpot`). What `socket`, `bind`, `listen` and `accept4`
do when they fail was taken from how `SocketOpt` calls them. Descriptors are shared with the connections that
the acceptor hands out, so they do run out.

**TaskMgr.** `OnWork` is `OnWork` (lock, time), `Look` (at the next task, in any order: the set is ordered by address), `Run`,
`Return` (of the callback, which may have restarted its task, or called `Add` or `Del` and locked itself up), `Again` (the second
look at the time) and `Erase`. `Restart` may come between any two, for it takes no lock; `unseen` keeps those that came when the task was about to
be erased.

**FileLog.** Files are numbers in the order of their creation; `dir` says which one a name stands for. `WriteLog` is three steps (the
test of `fd_`, `write` looking its descriptor up, the line arriving), `Rotate` is three (rename; open; dup2 and
close). A logger's history is the sequence of files its lines went to. `Rotate` may be given a name that a file has; `rename` then replaces
that file, which is kept in `replaced`.

**StringUtils.** The functions on names are operators; `SplitStringWithFSM` is a state machine of one step per character, and
`SplitString` the reference it is compared with.

## 3. Runs

| run | question | bounds |
|---|---|---|
| `executor` | does `RunInLoop` keep the promises of `Executor`; is a wake-up lost; can threads wait in a circle; does every task run and a quit loop end | two loops, another thread, four tasks of which two hand one on, a pipe of one page of two words; handlers and timers of both loops post too |
| `crossing_tasks` | the same when queued tasks of two loops hand tasks to each other: **violated** | |
| `pool` | what the callers of `Run` get, whatever the race of worker and constructor; do `Run` and the destructor return; are loops dealt in turn | owner and two others, any initial `running_`, three threads, an index of four values |
| `wheel` | when do timers fire | two entries, delays of 0, 2 s, 1 min 1 s and 2 min 1 s (a minute is 3 s), a clock of half seconds up to 16 |
| `wheel_hour` | and those of an hour: **violated** | one entry, one delay |
| `connection` | what happens to bytes under any interleaving of sends, handlers, closes and peer; is the stream right, and does it get through | three messages of two or three bytes, one a list of two nodes, two bytes of room, the peer sends once |
| `connection_pipelined` | may the test close in the write-complete callback: **violated** | two messages |
| `buffer` | is a buffer a queue of bytes; do its offsets and its size stay in bounds | two buffers of up to three bytes, `kBufferOffset`, initial length and `extBuffer` of 2 |
| `acceptor` | is the acceptor registered as what it is; are connections left lying; does stopped mean stopped; does it serve again after errors | three descriptors, three clients, two calls of `Start`, two failing system calls |
| `tasks` | is a task dropped, run twice for once, or not run | two tasks, intervals of 0 and 1, a clock up to 4 |
| `log` | is a line lost or out of order | two threads that write two lines each, two that rotate, two archive names, three files before the last rotation, one failing `open`, a log file that was or was not there |
| `text` | do the two splitters agree; do the parts of a path make the path | strings of up to five of four characters |

Why the bounds are enough to see the interesting cases:

* `PageWords = 2`, `Pages = 1` in `executor`: three of the tasks are A's, so words are left over in its pipe, the pipe fills, and a
  write that fails brings no edge. Two words and one page stand for 512 and 16: what matters is a page half read and a
  pipe full before its words are used up. Each task is posted once, which bounds the histories. `a1` hands `a2` to its
  own loop, which hands `b1` to the other.
* `Size = 3`, `HalfRange = 2`: the index overflows after two calls and comes back to zero after four, and 3 divides
  2^64 - 2^32 as it divides 16 - 4, so the overflow deals on in turn, as it does in the code for every size that divides
  2^64 - 2^32 (powers of two, 3, 5, 6 ..). For others (7, say) the turn is broken at the overflow.
* `Minute = 3`, `Hour = 9`, `Day = 18` keep what the code relies on: each is a multiple of the one before, and
  larger. Delays lie in both wheels that turn and next to their boundary. Two entries let one callback insert while
  the other is in the slot that is being destroyed. `MaxClock = 16` half seconds are seven ticks, two minutes and
  a third; jumps of several seconds happen, as `Advance` may be taken at will before `OnTimer`.
* `SendRoom = 2` with messages of three bytes gives partial writes, also in the middle of a segment and across two.
  `MaxInputs = 1` bounds how often the peer sends, which also keeps the `while(true)` of `OnRead` from being fed for
  ever (a hazard of its own). One input is enough for all three messages to be sent from one message callback, one within
  another; 2 was checked too, and takes four minutes. The list of two nodes fits the room, so a `writev` that takes more than its
  first node, and repeats a byte, happens with nothing else sent.
* Three descriptors for an acceptor and three clients: `accept4` runs out of them with a connection still waiting and with
  none; a descriptor that is closed comes back as the next socket. Two calls of `Start` register twice.
* Two tasks: one is restarted while the other is being run; with an interval of nothing a task is due at once.
* Two rotators and two names: a rotation may begin in every step of another, also between rename and open, and fail there. With three
  files (`MaxFiles`) the second rotation may be given the name of the first.
* Five characters are two delimiters with something before, between and after.
* A buffer with chunks of up to three bytes, two bytes of header and two of vector meets every branch of
  `EnsureWritableBytes`, `AddInFront` and `ReadFd`, at and next to its boundary. Of `RetrieveAll` it does not meet the resize
  (`MsgBuffer.cpp:123-126`), nor can it with `InitCap >= BufferOffset`: a vector is always `kBufferOffset` longer than its `initCap_`, so it is
  longer than twice that only when `initCap_` is below `kBufferOffset`. What the resize then does is in the list below. The view leaves bytes
  outside `head_ .. tail_` out of the state; the filler `z` is in no chunk, so reading one would show.

`CHECK_DEADLOCK FALSE` stands where a behaviour may end: the thread has been joined, the process is terminated by
an exception (`connection`), every string has been split, the bounds on what users and clients do are used up
(`acceptor`, `tasks`, whose clock stops, `log`), or (`crossing_tasks`) the deadlock is what the run is about. `executor`
checks for deadlock: a loop never stops turning; `wheel` and `buffer` do too.

**Fairness.** `EventLoop`: a thread that can step does; `EpollWait` is weakly fair with nothing ready because of the timeout
of one second in the call; `LockAndPush` is strongly fair, for a loop frees `lock_` in every round and stays in
`epoll_wait` without it, and a mutex is handed to a waiter in the end. Neither posting, quitting, an error of `epoll_wait`
nor a timer callback is fair. `EventLoopThread`: every thread runs on, and a call that has begun goes on; nobody has to
call. `TcpConnect`: the loop turns, handlers run, and the peer reads what it is sent. `Acceptor`: the loop turns,
handlers run and queued tasks are executed; clients, errors and users are not fair. `TaskMgr`: somebody calls `OnWork` again and again,
it goes on, and the clock does.

`EveryTaskRuns` and `QuitStops` are written `<>[](posted => executed)`. A task that has been posted stays so and one that was executed
too, so this says the same as `posted ~> executed` and is checked with one copy of the fairness per task.

### What the violated runs show

* `crossing_tasks`: `RunFunctions` holds `lock_` while it calls tasks (`network/net/EventLoop.cpp:287`). Task `a1` of A, called with
  A's lock, hands a task to B while `b1` of B, called with B's, hands one to A: both wait for ever.
* `wheel_hour`: the branches for hours and days are the `else` of the one for minutes (`TimingWheel.cpp:70-81`), and never
  taken, so a timer of an hour or more never fires.
* `connection_pipelined`: the buffer version of `SendInLoop` writes at once when `mIovecList` is *not* empty
  (`TcpConnect.cpp:205`). The second message overtakes what is left of the first, and the write-complete callback then runs
  with the first unwritten; the callback of `TcpConnectTest.cpp` closes the connection there.

Other disagreements were met while modelling; those that a property had to except are named in its comment, and most are
listed with their lines in `hazards`. They have no run of their own:

* *EventLoop*: insertion in `events_` by the caller's thread in the first `WakeUp`; the reference into `events_` used after a callback has erased it.
* *EventLoopThread*: a worker that waits on `condition_` before it is constructed is never woken, nor do the callers behind it in `call_once` return; `running_` is read before it is
  initialised; a destructor whose `Quit` comes after `set_value` (which lets `Run` return) but before `Loop()` sets `looping_`
  (`EventLoop.cpp:41`) joins for ever; a loop that another caller quits may end between the destructor's test of `loop_` and its use (`EventLoopThread.cpp:14-16`),
  and the process may then end with it. `CallsReturn` excepts these; the pointer of `Loop()` may be used after the loop has ended.
* *Pool*: overlapping calls of `GetNextLoop` may be given the same loop and skip the next; where the index comes back to zero
  the same loop may be dealt twice.
* *TimingWheel*: timers fire up to a minute, those below a minute up to a second, early (`EarlyAtMost`).
* *TcpConnect*: the destructor of a closed connection calls `shared_from_this`; a `writev` that takes several segments
  drops the first only (`TcpConnect.cpp:110-117`), so the others are written again and no edge comes for them: a list of two nodes that is
  sent alone is enough. `InOrder` says so exactly: after such a `writev`, and only then, what was written and what is queued are more than
  what was sent; `NoStall` excepts it. Of the order of bytes `InOrder` says nothing after a `Send` that wrote past the queue (`connection_pipelined`).
* *MsgBuffer*: `RetrieveAll` of a buffer with an initial length below `kBufferOffset`; the assertion of `operator[]`.
* *Acceptor*: a `bind` that fails is only logged, and `listen` then takes a port of the kernel's choice (`network/base/SocketOpt.cpp:37`; an IPv6
  address always fails, since its length is given as that of `sockaddr`): the acceptor listens where nobody calls. A
  `listen` that fails leaves a socket on which epoll reports a hang-up, and `OnClose` tries again. A `socket` that fails leaves the key -1 in
  `events_` and the acceptor deaf for ever. `accept4` reserves a descriptor before it looks at the queue, so with none left the
  listener is torn down even when nobody waits. A second `Start` without `Stop` leaves the old key behind (`OneListener` excepts it), and a
  `Stop` that comes while a handler is under way may be undone: `OnClose` calls its own `Stop` and then `Open`, whatever came between
  (`Acceptor.cpp:81-82`), and `OnRead` calls `OnClose` when `accept` fails (`StaysStopped` excepts these and a `Start` that is still queued, and nothing else: a `Stop` after an
  event was reported and before its handler is found is kept). A signal that interrupts `accept` leaves the rest of the queue until the
  next connection (`NoConnectionLeft`, `Serves`).
* *TaskMgr*: a callback that calls `Add` or `Del` locks itself up; a task restarted between the look at its time and its run
  is run early, though no more than once for each restart. A task restarted between the second look at its time and its
  erasure (`TaskMgr.cpp:26-28`) is dropped; `KeptWhileArmed` says that no other is.
* *FileLog*: `Rotate` with a name that a file has loses the lines of that file (`FileLog.cpp:54`); `NoLineLost` says that no others are lost.
  Overlapping calls of `Rotate` may leave the log on an archived file, and a failing `open` in `Rotate` always does, after which no later
  `Rotate` finds a file to rename. The comment at `base/FileLog.cpp:67-70`, after which `dup2` waits for a `write` under way, is wrong (such a line ends up in the old
  file), though no line is lost by it. A second `Open` leaks the first descriptor.

## 4. Proofs

`EventLoopProofs` proves, for any loops, threads, tasks, homes and follow-ups, and any size of the pipe:

* `TypeCorrect`: `TypeOK`.
* `WakeupNeverLost`: a loop in `epoll_wait` with tasks queued and `lock_` free has an edge of its pipe coming, unless the pipe is full.
* `NoDeadlock`: no set of threads waits only for locks held within the set, assuming that `HandOver`, the relation "a
  queued task of this loop hands a task to that one", is well-founded. `crossing_tasks` shows that the assumption is needed.
* `Refinement`: `EventLoop` implements `Executor`, under the refinement mapping `Pending`.

None of them is inductive. The invariant of `EventLoop` is built in layers, each proved with those before it:

1. `TypeInv`: with `TypeOK`, that a pipe in the batch has a word to read, that a thread that is queueing has a task to
   queue, and that the queue is not empty while its head is being called (the body has no way to empty it).
2. `LockInv`: who holds `lock_` and when. A poster holds the lock of the task's home from the push to the write; a loop holds its own
   from `RunFunctions` to `Unlock`; nobody else holds any; and a queueing thread queues on a loop other than its own.
3. `WakeInv`: what is signalled at every point of a round, not only in `epoll_wait`: with tasks queued and the lock
   free either an edge is pending, the pipe is full, or the loop will look at the queue before it sleeps. The subtle
   step is `OnRead`: it takes one word and drops the edge, but the loop is then on its way to `RunFunctions`.
4. `BodyInv`: whose task a thread that waits with a lock held is executing: its own loop's queued one, so its wait goes along `HandOver`.
   In a set that waits in a circle the least loop of that relation would have to wait for a smaller one.
5. `FreshInv`: a task that has not been posted is neither queued nor in a log, and one that was queued is no longer
   fresh; this is what `Submit` and `RunInline` of `Executor` ask for.

These proofs assume what the module's `ASSUME`s say (threads and loops are told apart, tasks have homes, a pipe has
at least one page of one word), and that tasks are posted at most once, which is a bound of the model.

`MsgBufferProofs` proves all that the run `buffer` checks, for any number of buffers, any bytes and chunks and any sizes:

* `BufferTypeCorrect`, `OffsetsWithinVector`: `TypeOK` and `WithinVector`; no size computed from the offsets wraps around.
* `RoomIsMade`: `EnsureMakesRoom`, in every reachable state and for every length up to `MaxReadable`.
* `BufferMemory`: `MemoryBounded`.
* `BufferRefinement`: `MsgBuffer` implements `ByteQueue`.

The argument goes along the code: a lemma for `memcpy` (which bytes change, and which do not), one for each helper
(`New`, `Written`, `With`, `Copy`, `EnsureWritableBytes`, `AppendBytes`, `PutInFront`, `Emptied`) that says what becomes of the
readable bytes, and `Outcomes`, which says of every action that it changes one buffer in one of the ways of `ByteQueue`,
or exchanges two. The invariant is `Sound`: besides `WithinVector` that neither the vector nor `initCap_` is ever shorter
than `kBufferOffset`. Without the latter `RetrieveAll`, which resizes to `initCap_` and then puts both offsets at
`kBufferOffset`, would leave them beyond the end; hence the assumption `InitCap >= BufferOffset` (the default of
2048 is the only length used in the repository). `BufferMemory` needs more: `Bounded`, with `initCap_` within the bound too, as
a buffer that has grown takes over the length of the new vector as its own. A vector is replaced only when the free bytes
before and after the readable ones do not suffice, so it was no longer than `MaxReadable + BufferOffset` and the next one is at
most twice that.

`EventLoopThreadPoolProofs` proves, for any number of callers, any size of the pool, any width of the index and any
initial content of `running_`:

* `LoopsInTurn`: `DealtInTurn`, through the overflow of the index, for every size of the pool that divides 2^64 - 2^32 (in the
  model: for which `4 * HalfRange * HalfRange - 2 * HalfRange` is a multiple of `Size`). For others the property is false
  where the index overflows, for the conversion to `size_t` makes 2^64 - 2^31 of -2^31.
* `PoolTypeCorrect`: `PoolTypeOK`, in particular that the index of the loop that is dealt is one of the pool's.
* `RunPublishes`: `RunPublishesLoop`, whatever the race of the worker with the constructor.
* `WorkerWaits`: `WaitsForRun`.

The invariant is `ThreadInv`. `PromiseInv`: a promise that is set was set by a worker that is in or past `Loop()`, and neither `once_`
nor any caller is done before, nor has the destructor gone beyond `Run`; the promise gets its state in the constructor's last step, so a worker
that came earlier has ended the process. `LoopInv`: `loop_` and the local loop are there while the worker is in `Loop()`, which it leaves only after a `Quit`.
`LateInv`: for a worker that started late `running_` is true only once somebody is in the function of `call_once`, and
one caller at a time is. `TurnInv`, for the turns: unless another call was met, one caller at most has an index in hand and it is still
the current one; and what was dealt last is the loop of the index before. Lemmas on `%` (`RemainderOfNext`, `RemainderOfSum`) do the rest.

`PiecesProofs` holds the theorems of two components, since both need the same facts about `FlattenSeq`. Of `TcpConnect` it proves all
that the run `connection` checks but the liveness, for any messages and lists of them, any room in the
socket's buffer and any number of inputs, with and without a close callback:

* `ConnectionTypeCorrect`: `TypeOK`.
* `BytesKept`: `NothingLost`.
* `StreamInOrder`: `InOrder`.
* `NeverStalls`: `NoStall`.
* `ClosedIsSilent`: `SilentOnceClosed`.

They assume what the module's `ASSUME`s say: a message that is one buffer has one segment, or none if it is empty (`SendInLoop` queues
nothing then); a list may have empty segments. `ConnectionInv` is the types, `NothingLost`, and two strengthenings. `QueueInv`: unless
a `Send` wrote past the queue or a `writev` went beyond the first segment, what was accepted is what is on the wire followed by what
is queued; and what is on the wire and queued is as long as what was accepted, or longer, which it becomes at the first `writev` of the
second kind and remains. `StallInv`: while bytes are queued on an open connection, and no such `writev` came,
the loop *hears* of room, which is more than `NoStall` says of `epoll_wait` alone: write events are asked for, and either
an edge is there, or the buffer is full and the notice of room armed, or the event is in the batch that is still to be dispatched.
A handler may consume the event only if it leaves one of the other two: a `writev` that ends within the first segment has met a full
buffer, one that ends at its end has too if another is left. `NeverStalls` covers lists and a `Send` on a queue; what it leaves out is
what comes after a `writev` that went beyond the first segment.

Of `StringUtils` it proves all that the run `text` checks, for any strings over any characters:

* `SplittersAgree`: `SplitsBack`, for delimiters of one character and of two.
* `PathsComeApart`: `PathParts`.

`Pieces(str, delim)[last]` is what `SplitString` finds from the position `last` on. `PiecesSplitWell` says of every `last` that these pieces
are joined to the rest of the string and have no delimiter in them (`Find` gives the first occurrence, so a piece that had one would
have ended there). The invariant of the state machine, `SplitInv`, is that `tmp` is the string since `Start` and has no delimiter, and
that `result` followed by `Pieces` from `Start` on is all that `SplitString` finds. The parts of a path need only that `find_last_of` finds one
of the characters asked for.

What both need of recursive functions (`FlattenSeq` distributes over `\o`; what `OnWrite` keeps after a `writev` of `n` bytes are the bytes
from `n + 1` on; the recursion of `SplitString` has a solution) is induction on a length. The library's theorems on induction take an operator
and are not usable, so it is carried out for sets of lengths: the set of those for which a fact fails would have a least
(`LeastMember`, `UpToN`) or a greatest (`DownFromN`) member.

`AcceptorProofs` proves, for any descriptors and any bounds, `AcceptorTypeCorrect`, `ListenerIsOne` (`OneListener`), `ConnectionsNotLeft`
(`NoConnectionLeft`) and `StoppedStays` (`StaysStopped`). The invariant is `TypeInv`, with what the loop's place says of the
descriptor and of the connections' descriptors, and `Registered`: unless it was opened twice, what is in `events_` and in the epoll set is
the one descriptor that the acceptor has (none between the two calls of `OnClose`), and a socket with connections waiting is on the ready list unless the
loop is about to accept or accept was interrupted. `StoppedStays` needs no invariant: a stopped acceptor has no key in `events_`, so the lookup of the
loop fails for every event that is reported of it, and no handler that could open it begins.

`TaskMgrProofs` proves, for any tasks, intervals and clock, `TasksTypeCorrect`, `ArmedTasksKept` (`KeptWhileArmed`) and
`RunsOncePerArming` (`OncePerArming`). The invariant `ArmedInv` says which task may be out of the set or out of `armed` at
each point of `OnWork`: only the one being run has lost its arming without having left the set, the one about to be
erased is not armed unless it is `unseen`, and no other task of the set is.

`FileLogProofs` proves, for any threads, names and numbers of lines, `LogTypeCorrect`, `LinesKept` (`NoLineLost`), `WritesToCurrent`
(`CurrentFile`) and `LinesInOrder` (`FilesInOrder`). `NamedInv`: not only the files with lines have names, or have been replaced, but also the descriptor's, those that
writers have looked up and those that rotators have opened; no step takes the last name of a file but by giving it to another, and a replaced file gets none. `OrderInv`, while rotations have
not overlapped: `Turns` (one rotator at a time is in `Rotate`, and what it has opened is the file of the name), `CurrentFile`, `Ascending` (the
descriptor's file is never newer than the one that has the name), `Behind` (no line, and no write under way, is in a
newer file than the descriptor's) and `FilesInOrder`.

`TimingWheelProofs` proves, for any units of time, delays and entries, `WheelTypeCorrect` (`TypeOK`),
`NothingLate` (`NeverLate`) and `EarlyBounded` (`EarlyAtMost`). `Pending(e, t)` says that a reference to `e` goes at the tick
`t`: slot `i` of the seconds goes at `tick + 1 + i`, slot `i` of the minutes with a remainder `r` at `Turn + i * Minute + r`, where
`Turn` is the next tick at which the minutes turn, and what is left of a popped slot with a remainder `r` at `tick + r`. A turn of any wheel leaves
`Pending` as it is, for entries with a delay below an hour; an insertion adds a tick at most a minute before the one the entry is due at;
an item that is destroyed takes only the tick of now away. Hence `DueInv`: nothing is pending after `due`, an entry that is not
being called has something pending at most a minute before it, and one that is being called is called at such a tick. It
stands on `WheelInv` (which remainders each wheel holds, that an entry that is free or being called is in no slot) and, for
the wall clock, on `ClockInv`: every tick after the first since the insertion took a second.

**Only model-checked**: all liveness:
`EveryTaskRuns`, `QuitStops`, `CallsReturn`, `SentIsWritten`, `Serves`, `DueIsRun`. TLAPS does not reason about fairness
or `ENABLED`, so these remain with TLC in any case.

## 5. Not modelled

* The data race proper (two accesses to `events_` at once): accesses are steps, in any order.
* The lifetime of memory that is passed by address to `Send`, and of `this` in the queued tasks.
* A wall clock that is set back: the wheel stands still until the clock has caught up, and a periodic task that is restarted
  meanwhile may be dropped. An interval of `RunEvery` below one second or of more than thirty days, on which the
  code recurses without end (`TimingWheel.cpp:111-129`). A `RunAfter` with a delay of 0 or of more than thirty days that is called by a
  callback: its entry fits no wheel, so it is destroyed and its function called inside the call (`TimingWheel.cpp:24-27`).
* The test of `AddEvent` for a number that is in `events_` already (`EventLoop.cpp:121`), and a failing `epoll_ctl`, for the pipe of `EventLoop`:
  its number is fresh. For the acceptor, whose number is not, `AddEvent` of `Acceptor` has the test.
* Failing `epoll_create` and `pipe2`; the growth of `epoll_events_`; formatting and logging; binding a thread to a CPU.
* The idle timeout of `TcpConnect`: nothing in the repository switches it on, and its entry does nothing when it
  expires. `ExtendLife` comes to the re-insertion that `TimingWheel` models.
* The destructor of `Acceptor`: its `Stop` calls `shared_from_this` when no `shared_ptr` is left, throws, and ends the process.
* `Connection`: accessors, and `Active`, which nothing calls and which tests a member that nothing initialises.
* Parsing and formatting of addresses, and the wrappers of socket calls that `Acceptor` does not use: they have no state that several
  steps could disturb.

## 6. Plan

Order: first what everything stands on, then what stands on it.

1. *Done:* `Executor`, `EventLoop`; `EventLoopThread` and its pool; `TimingWheel`; `ByteQueue`, `MsgBuffer`; `TcpConnect`; `Acceptor`;
   `TaskMgr`; `FileLog`; `StringUtils`; the proofs listed above.
2. *Composition:* an acceptor and a connection in one loop, over the descriptors they share.
