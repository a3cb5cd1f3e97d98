# brpc-1.9.0: a TLA+ verification of its concurrent core

The repository vendors two libraries: brpc 1.9.0 (about 199,000 lines: `brpc`, `bthread`, `butil`,
`bvar` and two converters) and GoogleTest 1.8.1 (about 34,000 lines).  This directory models the part of brpc whose correctness
depends on the order in which threads run: the M:N threading library, the socket, the RPC of a
client, streams, the acceptor, two composite algorithms on top of them, the shared containers of
`butil` that everything else uses, and the combiners of `bvar`.  Paths below are relative to
`src/brpc-1.9.0/src`.

## The system and its modules

A *bthread* is a user-level thread.  Workers (pthreads) run bthreads from work-stealing queues; a
bthread that blocks does so on a *butex*, from which a waker, the timer thread or an interrupter
takes it.  Mutexes, condition variables, countdown events, `bthread_id`s and the joining of an
`ExecutionQueue` are butexes with a protocol around them.

A *Socket* is a slot of a pool, addressed by a versioned identifier.  Writers queue requests in a
wait-free list; one of them writes for all.  The event dispatcher starts one bthread per socket
that reads, cuts and dispatches messages.  A failed socket is recycled, or revived by its health
check.  A client RPC keeps its `Controller` behind a `bthread_id`: the response, the timers,
`Cancel()` and failing sockets all lock it or leave an error at it.  A *Stream* is a fake socket
over a real one, with its own window and an `ExecutionQueue` of incoming messages.

| Module | Code | State and steps |
|---|---|---|
| `BthreadId` | `bthread/id.cpp` | the version words, the two butexes and the error queue of one slot; a critical section of `Id::mutex` is a step, and so is every wait and wake outside it |
| `Butex` | `bthread/butex.cpp`, `TaskGroup::interrupt` | words, waiter queues, waiters of both modes; wakers, timer and interrupter are processes; `wait_for_butex` is two steps because it races with an interrupter that takes no lock |
| `Mutex`, `CountdownEvent` | `bthread/mutex.cpp`, `condition_variable.cpp`, `countdown_event.cpp` | one word each, butex operations atomic |
| `TaskQueue`, `ExecutionQueue`, `ExecutionQueuePthread` | `bthread/execution_queue*` | the abstract queue; the wait-free list with versions, priorities, cancellation and the life of a slot; the resident-pthread mode |
| `WorkStealingQueue` | `bthread/work_stealing_queue.h` | every load, store and compare-and-swap is a step |
| `Sched` | `bthread/task_group*`, `task_control.cpp`, `parking_lot.h`, `remote_task_queue.h` | workers, their queues, parking lots, pending signals; start, yield, block, wake, end, steal, park, stop |
| `TimerThread` | `bthread/timer_thread.cpp` | buckets, heap, futex, `_nearest_run_time`; `schedule`, `unschedule`, the loop, `stop_and_join` |
| `SocketLife` | `brpc/socket*.{h,cpp}`, `details/health_check.cpp`, `periodic_task.cpp`, `socket_map.cpp` | `_versioned_ref`, the additional reference, recycling, revival, the map entry |
| `SocketWrite` | `brpc/socket.cpp` | `_write_head`, requests, `KeepWrite`, connecting, shutdown, unwritten bytes, pipelined information, notified ids |
| `InputEvent` | `brpc/event_dispatcher*`, `socket.cpp`, `input_messenger.cpp` | `_nevent`, `_ninprocess`, the reader, messages cut and processed, EOF |
| `Rpc` | `brpc/channel.cpp`, `controller.cpp` | correlation id, current and unfinished call, timers, retries, outcome |
| `Stream` | `brpc/stream.cpp`, `policy/streaming_rpc_protocol.cpp` | both ends, window, waiters, queues, wire |
| `Acceptor` | `brpc/acceptor.cpp` | the map of connections, status, the bthread for idle connections, owner and stopper |
| `ParallelChannel` | `brpc/parallel_channel.cpp` | sub calls, the counters of `ParallelChannelDone`, the call id of the whole RPC |
| `LocalityAware` | `brpc/policy/locality_aware_load_balancer.cpp` | the two arrays of the tree, weights, left sums, the total |
| `DoublyBufferedData` | `butil/containers/doubly_buffered_data.h` | two instances, wrappers with mutex or count, readers, `Modify()` |
| `ResourcePool` | `butil/resource_pool_inl.h` | groups, blocks, local pools, free chunks; getting and returning an identifier, adding a block and a group, exit of a thread |
| `Combiner` | `bvar/detail/combiner.h`, `recorder.h`, `percentile.cpp` | the global value, the element of each thread, the list of agents; the three ways of adding a sample, combining, resetting, exit |
| `ByteBuffers`, `IOBuf` | `butil/iobuf.cpp` | the abstract byte sequences; blocks with counts, thread caches, small and big views, portal, output stream |

`PROJECT.json` maps every definition to its lines.  Each module keeps the control of its code and
abstracts data: a message is a number, an error an element of a small set, a byte one of two
values.  Where a component uses another, it relies on what the other's module checks: `Mutex`,
`BthreadId` and `CountdownEvent` take atomic butex operations, `Rpc` and `ParallelChannel` an
identifier with an owner and queued errors, `Stream` and `Acceptor` a socket that can be addressed
until its last reference is dropped, `LocalityAware` a `Modify()` that waits for readers, `Sched`
a deque.  The pieces are not composed in one state space: their joint behaviour would be far out
of reach.  The detailed specifications shown to implement an abstract one are `ExecutionQueue`
(of `TaskQueue`) and `IOBuf` (of `ByteBuffers`).

## Runs

The MC modules are sums: the variable `part` chooses a component in the initial state and only
that component moves, so that one TLC run covers several components without multiplying their
states.  A component with proofs is EXTENDed, so that the run and the theorem speak of the very same
definition; the others are INSTANCEs.  A property of a sum is a conjunction of properties of one
component.  The sums terminate by design (callers make a bounded number of calls), so deadlock
checking is off.

| Run | Module, config | Shows |
|---|---|---|
| `sync` | `MCSync`, `Sync.cfg` | bthread_id: a single holder, no stale identifier revived, no queued error and no sleeper forgotten.  Butex: a waiter is taken out once and not touched after it returned, and no change of a word is missed.  Mutex, condition variable, countdown event: exclusion, no forgotten waiter, no early destruction.  ExecutionQueue: one consumer, exact count of urgent tasks, implements `TaskQueue` |
| `bthread` | `MCBthread`, `Bthread.cfg` | work stealing loses and duplicates nothing; a task is in one place; the workers never all sleep over a task; timer tasks run at most once, earliest first, never overlooked |
| `brpc` | `MCBrpc`, `Brpc.cfg` | safety of the eight parts of brpc, see the comments of its properties |
| `bthread_live` | `MCBthreadLive`, `BthreadLive.cfg` | whoever sleeps in a bthread_id, a butex, a mutex, a condition variable or an event is woken when it should be; tasks of queues, workers and the timer run; joining ends |
| `brpc_live` | `MCBrpcLive`, `BrpcLive.cfg` | a failed or removed socket comes back or is recycled, but for three named races; writes, streams and messages end; RPCs with a deadline end, and so does `Join()` of an Acceptor |
| `butil` | `MCButil`, `Butil.cfg` | readers of `DoublyBufferedData` see a stable instance, `Modify()` returns; block counts of `IOBuf` are exact and buffers are independent sequences; an identifier of `ResourcePool` has one owner; every sample of a bvar is counted once |
| `bthread_id_reset`, `butex_interrupt`, `timer_stop`, `rpc_unqualified`, `queue_pthread`, `socket_revival` | `BthreadId`, `Butex`, `MCTimerThread`, `MCRpc`, `ExecutionQueuePthread`, `MCBrpcLive` | six disagreements between the code and its comments, below |

### Bounds

Bounds are part of the instances and named in the modules or their `Confs`; each is the least at
which the cases in question occur.

* bthread_id: three threads (a holder, a waiter, a third that overtakes), range 2, versions that
  allow two lives of the slot, one error.
* Butex: two words (requeue needs two), one waiter of each mode, one waker, one interrupter, two
  calls.
* ExecutionQueue: two threads, two nodes, two bthreads: a node is reused while an old handle to it
  exists, and a producer stands between its exchange and its link while the consumer reverses.
* Mutex: up to four threads; CountdownEvent: two signallers, two waiters, either owner.
* WorkStealingQueue: capacity 2, four items, two thieves: the ring wraps.
* Sched: one worker growing to two, two tasks, two switches, queues of one place, so that full queues
  happen.
* TimerThread: two threads in one bucket, two slots, two run times, two values of the clock.
* SocketLife: three threads, two health checks, two lives, two failures; in `brpc_live` two threads,
  one life and two failures, with application-level checks and removal at any time.  SocketWrite: three requests of up to
  two units, two per `writev`.  InputEvent: two messages of two bytes, two connections.
* Rpc: up to two tries after the first, one of which may be a backup request; pooled, single and
  short connections.
  Stream: windows of 0 (unlimited) to 2 units, messages of up to 3 units, which are longer than
  the window; synchronous and asynchronous waits, with a deadline and without.
* Acceptor: two listening sockets, two connections, one with a stream.  ParallelChannel: three sub
  channels with every kind of limit.  LocalityAware: trees of up to three servers, two updates.
* DoublyBufferedData: three readers, two of one thread, two modifications.  IOBuf: two buffers,
  three blocks of two bytes (blocks run out), up to seven calls; an `Area` holds an index of a
  reference and an offset of at most 1 (`MaxRefIndex`, `MaxRefOffset`), so that one does not fit.
* ResourcePool: two threads, two groups of one block of two items, free chunks of two, so that
  groups fill up and memory runs out.  Combiner: two threads, four samples, two lives of an
  AgentId, a local percentile that is full with two samples.

Symmetry is used only in safety runs, over threads, words, nodes, requests and tasks that no
definition tells apart.

### Fairness

Weak fairness is assumed of a thread that is inside a call of the library: the kernel and the
workers schedule runnable threads.  It is not assumed of a caller deciding to call (except that a
lock taken is given back), of the remote side, or of failures.  Strong fairness stands in two
places: a health check tried again and again eventually finds its server (`CheckHealth`), and a
connection that accepts bytes again and again lets a writer progress (`Progress`); without either,
"the server never comes back" is a legitimate behaviour.  The clock of `TimerThread` ticks.
As the parts of a sum exclude each other, fairness of a disjunction of actions of different parts
is fairness of each; the live modules use this to keep TLC's formulas small.  Most of what must
happen in the end is stated as `[]<>`: a state in which the thread in question does not wait comes
again and again.  It is the same as "whoever waits stops waiting" (`P ~> ~P`), and TLC checks all such formulas together.

The resident pthread of `ExecutionQueue` has one producer in `bthread_live`: with two the promise is
broken, which the run `queue_pthread` and two configurations below show.  Reads of
`DoublyBufferedData` are bounded, so that `ModifyReturns` does not say what happens when readers
overtake `Modify()` at the mutex of a wrapper for ever: that depends on the mutex.

## Proofs

Eight modules hold proofs checked by TLAPS.  They hold for every value of the constants that
satisfies the named assumptions, not only for the instances above.  An invariant is proved from a
stronger one that is inductive: an `IInv` for `BthreadId`, `WorkStealingQueue` and
`DoublyBufferedData`, and `ButexInv`, `MutexInv`, `EventInv`, `TimerInv`, `InputInv` and `LifeInv` in
the modules of the other components.  The assumptions are ASSUMEs of the first three modules and the
operators `ButexConstants`, `MutexConstants`, `EventConstants`, `TimerConstants`, `InputConstants` and
`LifeConstants` of the others; `MCSync`, `MCBthread` and `MCBrpc` assume the latter of their
instances, and TLC evaluates all of them in the passing runs.

**`BthreadIdProofs`**, any number of threads, versions, ranges and errors; assumption
`~WrapEnabled` (a slot is not created again when its 32-bit versions are used up).
* `HolderIsSafe` (`LockSafe`): one holder, with a live identifier; a queued error has a holder that
  will deliver it; nobody holds a slot that is being created.  It combines `Exclusion`, `NoABA`,
  `NoErrorLeftBehind` and `PrivateCreation`.  `TypeCorrect` is the type invariant.
* `StaleStaysStale` (`StaleForever`): a destroyed identifier never comes back.

`LockSafe` is not inductive: that the lock word is at an unlocked value does not say that nobody
is in the slot.  `IInv` adds `OneOwner` (holder, creator and destroyer exclude each other),
`PhaseInv` (in each phase of the slot, how `first_ver`, `locked_ver` and the butex word relate),
`IssuedInv` (identifiers ever issued are below `first_ver` or in its range), `PendingInv` (errors
are queued for live identifiers) and `QueueInv` (the butex queues hold exactly the sleepers).

**`BthreadIdWakeProofs`**: `SleepersHaveWakers` (`NobodyStranded`), from `JoinWakes` and
`LockWakes`.  `JoinInv` says that the join word changes exactly when the identifier goes away;
`LockInv` says what a thread about to sleep expects of the word, and that sleepers imply a
contended word with a holder, or a waker on its way.  It needs two conditions of the callers,
`~ResetContended` and `~UnlockDoomed`; the first is necessary by the run `bthread_id_reset`, the
second by a counterexample described below.

**`SchedulerProofs`** on `WorkStealingQueue`, any capacity (also one that is not a power of two), any
number of thieves and pushes: `ItemsTakenOnce` (`TakenOnce`), `NoItemLost` (`NothingLost`) and `QueueTypeOK`
(never more items than places).  `IInv` says where the owner is between its store of `_bottom` and
its load of `_top` (`OwnerInv`), that a thief whose `t` is still `_top` holds the item there
(`ThiefInv`), and that the places between `_top` and the owner's effective bottom hold distinct,
untaken items (`HeldInv`, `TakenInv`).  `SlotDistinct` is the arithmetic of the ring.

**`SchedulerProofs`** on `TimerThread`, any number of threads, buckets, slots and times (with a last one):
`TimerIsSafe` (`TimerSafe`) and `EarliestRuns` (the action property `RunsEarliest`).  `TimerInv` adds
that versions still to come are unused (`Unused`), that a bucket knows its earliest task
(`BucketNearest`), that `_nearest_run_time` is no later than that of any bucket already seen, or a
scheduler is about to make it so (`Covered`), and that an earlier time than the one the thread
sleeps until was signalled (`Signalled`).

**`ButexProofs`**, any number of threads in either mode, words, wakers, interrupters and calls:
`WaitingIsSafe` (`ButexSafe`).  A thread asleep in `butex_wait` stands in one run queue, or exactly
one party (the list it is in, a waker, an eraser) will put it there; nobody uses a waiter after
`butex_wait` has returned; a waiter whose word has changed is about to be removed; 0 is only
returned to a thread that a waker removed; `erase_from_butex` only follows a butex.
`ButexConstants` says that the sets of processes are disjoint, and that nobody interrupts a thread in
pthread mode unless the uninitialised `pw.container` happens to be NULL (with other contents
`ContainerIsButex` fails, see below).  `ButexInv` adds that lists have no waiter twice and that a waiter
knows its list (`Contained`), what an eraser may hold (`Erasing`, `Held`, `Flagged`), how the timer
and its callback relate (`Timed`), that the lock of a butex is held by the one that appends
(`Appending`), and why a thread runs again without having been woken (`Excused`).  The proof
splits the invariant into what is said of the whole and what is said of each waiter (`Parts`); a
step that concerns one waiter leaves the others alone (`Alone`, `OneWaiter`), and the four ways to
wake are one lemma about taking waiters from a list (`Taken`).  Trying to prove it has corrected the
property: a waiter that `butex_requeue` moved to another word and a second one moved back waits on
its word without anybody bound to wake it, so `NoMissedWake` speaks of waiters that have not been
moved.

**`SyncProofs`** on `Mutex`, any number of threads in any roles, with and without the condition
variable: `MutexIsSafe` (`MutexSafe`): at most one thread holds the mutex, its word says so, and
whoever sleeps on it is not forgotten.  The invariant is almost inductive as it stands; `MutexInv`
adds that a wake-up left to do before a notification comes from an unlock that precedes it.

**`SyncProofs`** on `CountdownEvent`, any numbers of signallers and waiters: `EventIsSafe`
(`EventSafe`): an event is destroyed only when nobody will subtract from it, and whoever sleeps at
zero is about to be woken.  `EventInv` adds that the word is the sum of the signals to come.  A sum
over a set is a recursive definition; the proof takes it as a function `W` on the sets of signallers
with the equations of a sum.  `EventConstants` says that there is one and that all signals add up to
the initial count.

**`SyncProofs`** on `DoublyBufferedData`, any readers and threads, with the mutex or with the count, as long
as no thread exits under a bthread that reads through its wrapper (`~MayExit`): `ReadStable`
(`ReadIsStable`) and `BothModified` (`InstancesAgree`).  `IInv` says that a reader is protected by
its registered wrapper, and that it reads the foreground or `Modify()` has still to wait for it.

**`InputEventProofs`**, any number of messages and of bthreads that read or process:
`ReadingIsSafe` (`InputSafe`).  `InputInv` adds that `_nevent` is positive while somebody reads and stays
so after the end (`Counted`), that `_ninprocess` is the number of messages in process and the
connection itself (`Postponing`), that an EOF is seen after all bytes (`EndReached`), and that each
bthread keeps a message of its own (`Kept`).

**`SocketUserProofs`** and **`SocketLifeProofs`**, any finite number of threads and health checks, any
number of lives and failures, shared through the map or not: `SocketIsSafe` (`SocketSafe`) and
`SocketStepsOK` (the action property `SocketSteps`).  The count in `_versioned_ref` is exactly the
processes in the socket, the entry of the map and the additional reference; nobody uses a slot that
is in the pool (a process may still have to take back a reference that `Address()` took in vain); a
life is recycled once, and a failed socket at zero has a process that is about to recycle it; a health check works on a failed socket of its own life, without another beside it, and
closes the descriptor only when no caller is in the socket.  Exact counting alone is not inductive.
`LifeInv` adds how the version relates to the life (`Slot`), which life a recycler aims at
(`Recyclers`), who gives the additional reference back (`StatusOK`), that a life has one health check
from the failure that starts it to its end (`OneCheck`), why nobody else is in a socket that is being
checked, although its thread may have left it and come back (`CheckedAlone`), and that each
application-level check goes back to a failure of its own (`AppCounted`).  `SocketUserProofs` has the
facts about counting and the steps that threads and health checks share or threads take: a move of
one process leaves the others' parts of the invariant alone (`UserMove`, `CheckerMove`), and the
count follows the set of holders (`HoldersMoved`).  `SocketLifeProofs` has the steps of the health
check (`WorkMove`) and the theorems.

Out of the prover's reach and therefore only model-checked: liveness under fairness, anything that
needs ENABLED, and what recursive definitions compute for every input.  That a `Combiner` counts
each sample once and that the sums of `LocalityAware` are exact are statements about sums of values
that change, which need an induction over a set.  The refinements of `TaskQueue` and `ByteBuffers` are
model-checked only: `IOBuf` and the detailed queue are defined with recursion over their lists.  So are
`Sched`, `SocketWrite`, `Rpc`, `Stream`, `Acceptor`, `ParallelChannel` and `ResourcePool`, for which no
inductive invariant has been worked out.

## Disagreements between the code and its documentation

Six are runs that end in a counterexample (`findings` in `PROJECT.json` quotes the lines):

* `bthread_id_reset`: a `bthread_id_lock_and_reset_range` that overlaps with another lock makes the
  new locked value equal to the old contended value, and a sleeper is not woken.
* `butex_interrupt`: an interrupter takes `current_waiter` before the bthread has published its
  waiter, and finds NULL; it sets `interrupted` only after `wait_for_butex` has read it.  It has
  nothing to wake, and the bthread sleeps with `interrupted` set.
* `timer_stop`: the timer thread overwrites what `stop_and_join()` wrote to wake it, and sleeps.
* `rpc_unqualified`: a retry of an unqualified successful answer returns the connection of the
  other, unanswered request to the pool.
* `queue_pthread`: `_pthread_started` is written after the resident pthread has been created.  The
  pthread may have run the first tasks by then and given the queue up, and a second producer
  starts another one.
* `socket_revival`: a failure between the revival of a socket and the reset of `_hc_started` starts
  no health check, and the socket stays failed.

Six more configurations are kept; each ends in a counterexample when run with the named module.

| Config (module) | Property | What happens |
|---|---|---|
| `BthreadIdDoom` (`BthreadId`) | `DoomReleasesLockers` | a thread that checked the identifier before `bthread_id_about_to_destroy` sleeps after its wake-up; the destruction wakes it |
| `ExecutionQueuePthreadJoin` (`ExecutionQueuePthread`) | `JoinReturns` | `join()` joins the pthread that is left waiting; the other one ran the stop task and quit |
| `ExecutionQueuePthreadReuse` | `EveryBatchRuns` | a pthread that quits touches the queue of the slot's next life |
| `RpcBackup` (`MCRpc`) | `BackupNeverFails` | a backup request that cannot be sent ends the RPC with `EBACKUPREQUEST` |
| `AcceptorIdle` (`MCAcceptor`) | `IdleStoppedByDestructor` | the bthread for idle connections outlives an Acceptor whose listening socket could not be created ("Close-idle-socket thread will be stopped inside destructor", `acceptor.cpp:98`).  This is when the pool has no socket left (`socket.cpp:703`).  When `Create` fails later (lines 739, 779, 793), `BeforeRecycle` locks `_map_mutex`, which `StartAccept` holds: the state "stuck" |
| `StreamClosed` (`MCBrpcLive`) | `StreamEnds` | a synchronous `StreamWait` without deadline refers to the fake socket whose recycling would wake it (`stream.cpp:124`, 747), so `StreamClose` does not end it ("StreamWait wakes up immediately", `stream.h:139`) and `on_closed` does not come |

And these show when a constant or the instance is changed:

* **bthread_id**: with `WrapEnabled` versions that wrap revive stale identifiers; with
  `UnlockDoomed` (an unlock after `bthread_id_about_to_destroy`) a sleeper can be lost.
* **Butex**: `ButexPthreadWaiter::container` is not initialised before it is compared
  (`butex.cpp:598`); when the TimerThread is stopped, `wait_for_butex` would lock `waiter_lock`
  again (`butex.cpp:568`, not modelled).
* **SocketLife**: three races keep a socket from coming back; `SocketComesBack` excludes exactly these
  (`Races`).  `Overlooked` is the one of `socket_revival`.  `Resurrected`: the socket is removed from
  the map while it is checked, and the health check then takes the additional reference that
  nobody will give back.  `LeftAtZero`: an `Address()` of a failed identifier drops the last
  reference of a socket that was revived and removed meanwhile; it recycles only at an odd version, so
  that the count stays at zero and nobody recycles the slot (`socket_inl.h:95`: "if nref changes, which must be
  non-zero, the slot will be returned when nref changes from 1->0 again").  `ZeroIsRecycled` is therefore in no run, and `FailedIsRecycled`, which is in
  `SocketSafe` and proved, speaks of failed sockets only.  The steps of callers come to an end in
  these properties (`Quiet`).
* **SocketWrite**: `ReturnSuccessfulWriteRequest` reads an option of the request after it gave the
  request back to the pool (`socket.cpp:509` to 521); the model chooses either outcome.  A
  request whose waiter was told an error may be told success after it; `ToldOnce` is about the first.
* **ExecutionQueue**: the last dereference reads `_this_id` of a slot that it no longer holds.
* **DoublyBufferedData**: with `MayExit` a thread that exits removes its wrapper under a bthread
  that reads through it (`doubly_buffered_data.h:492`), and `ReadIsStable` fails.  A first `Read()`
  waits while a `Modify()` waits for readers.
* **InputEvent**: with `stale` a dispatcher that addressed the socket before its revival delivers
  an event of the old descriptor, and the CHECK at `socket.cpp:2243` fails.
* **IOBuf**: with `BackUpAgain` a second `BackUp()` gives two appenders to a block
  (`iobuf.h:584`: "`count' can be as long as ByteCount()"; `mcpack2pb/serializer.cpp:792` backs up
  this way).  `empty()` is false after `appendv` of vectors that are all empty, which leaves a reference of length
  zero (`iobuf_inl.h:125`; `iobuf.h:343`: "True iff there's no data"); `BlocksExact` accounts for it.
* **Stream**: what the peer has not consumed exceeds `max_buf_size` by up to one message, of any
  length (`stream.h:68`: "The max size of unconsumed data allowed at remote side"), as the room is looked at
  before the message is counted; `WindowBound` states the bound that holds.  `TransfersEnd` is about
  waits that are asynchronous or have a deadline, on streams that are not stranded: a stream closed
  before it is connected, to which something was written, waits for ever for a `Connect` that does
  not look at `_closed` (`stream.cpp:195` to 221).  `ClosedIsNotified` is in no passing run, because neither kind of stream
  satisfies it.  Halving `_cur_buf_size` reaches 0, which means
  unlimited (line 329, CHECK at 313); `_produced` goes down after `EOVERCROWDED` without waking
  writers (line 303).  With a limit of the connection, a write to a client's stream that is not connected
  yet follows a NULL `_host_socket` (lines 306 to 308), from which the guard of
  `StreamWrite` keeps away; a
  write after a connection that failed connects a second time, and reaches the CHECK at line 199.
* **Acceptor**: a listening descriptor of 0 makes `Join()` return early (`_listened_fd > 0`).  A
  connection recycled before it enters the map calls `BeforeRecycle` at an Acceptor that may be
  destroyed.
* **ParallelChannel**: the comment at `parallel_channel.cpp:303` that the call ids of the sub calls
  are destroyed is not true of sub calls whose done has just run (`controller.cpp:949`).  `CheckHealth` takes an unset
  `fail_limit` for another number than `CallMethod` does.
* **LocalityAware**: with two readers and servers added, differences reach `_total` out of order.
  It is then below the number of servers for a while, and `Add` takes 0 as "average of existing
  weights" (or a huge number from a negative total).  A weight of 0 makes `Remove` mistake the
  first array for the second and free the weight early: `NotFreed` fails with initial weights
  `<<1>>`, one addition, one removal, three updates and two readers.  The checked instances add
  servers with one reader.
* **Combiner**: while a percentile merges a full local interval, the samples are in the global value
  and in the local one (`percentile.cpp:74` to 79: `merge_global` gives the lock back in between,
  `combiner.h:61`), and a reset in that window counts them twice; `SamplesExact` accounts for them (`twice`).  A thread
  that exits during `~AgentCombiner` is not modelled.
* **Sched**: a worker may sleep while another has more than one task (`task_control.cpp:437` bounds
  the signals); after `stop_and_join` a start ends in the CHECK "Impossible: ngroup is 0".

## Not modelled

* **In the modelled components.**  bthread_id: lists of ids.  Butex: creation and destruction, the
  sleep half of an interruption.  Sched: tags, stacks, keytables.  Mutex: the contention profiler.
  Rpc: SelectiveChannel as sender, authentication, progressive reading, backoff, failures of
  `bthread_timer_add`.  SocketWrite: SSL, RDMA, the failure to add a connect timer.
  CountdownEvent: that the
  saved butex of a destroyed event may belong to another owner when `signal` wakes it.
  InputEvent: the choice between protocols.  Stream: the idle timer, a failing
  `bthread_timer_add` (`stream.cpp:412`), several streams of one connection.  IOBuf: appending a buffer to itself, `IOBufCutter`, the input stream,
  `cut_by_delim`.  Acceptor: the yield every 256 connections of `ListConnections`, a `StopAccept`
  still listing during the next start.  LocalityAware: how latencies become weights.
* **Memory order.**  Modules are sequentially consistent.  `WorkStealingQueue` has the
  seq_cst fences that justify it; elsewhere the words are changed by atomic read-modify-writes or
  under a mutex.
* **The rest of the repository.**  The modelled code is a small share of it, because most of it has
  no protocol to check: protocols (parsing and packing of byte formats), builtin pages, naming services, numeric
  heuristics, converters, the Chromium part of `butil` and GoogleTest are sequential code, and
  input and output.  `PROJECT.json` lists each group with its reason.  Of what remains
  concurrent, bthread keys and bvar's samplers would be the next to model.
