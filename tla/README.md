# XIOM standard library: TLA+ models, checks and proofs

The repository is the standard library of the XIOM language: 544 modules in XIOM
(`xiom/`, 186,000 lines) on a C runtime (`runtime/`, 13,000 lines). Most of it is sequential:
string, number, codec and container functions that unit tests reach well. What tests do not
reach is the code where threads, callbacks, signals, processes and faults meet, and where the same
promise is kept by several builds or by arithmetic with corners. That is what these modules are about:

- the thread runtime in `xiom_runtime.c`, the locks of `xiom.sync`, the executor of `xiom.async`, and
  the containment of hardware faults in unsafe blocks;
- the services of the runtime that keep a state of their own: the guard heap, hot reload, child
  processes and their pipes, signals, file locks, directory watches, event loops;
- the kernels under the compiler's libcalls: Float128 and its Win64 shims, 128-bit integers, vector
  kernels, digests, Windows command lines.

Below, `C:` stands for `src/runtime/xiom_runtime.c`, `F:` for `src/runtime/fp128_helpers.c`. Run a check
with `tlc -config MCWorkerPool.cfg WorkerPool.tla` and a proof with `tlapm WorkerPool_proofs.tla`.
`PROJECT.json` gives for each definition the source lines it models, the hazards with the
properties that cover them, and for each property a mutation of the model that breaks it.

## 1. The system

### 1.1 Components that are modelled

| component | state | operations | what makes it hard | what makes it correct |
|---|---|---|---|---|
| Worker pool, C:7832-8040, under `xiom.thread.pool` | ring of jobs, `outstanding`, `completed`, shutdown and joined flags, three condition variables, one mutex | create, submit, submit_with, join, shutdown, destroy; the worker loop | submitters blocked on a full ring race with shutdown; join depends on an account kept in two critical sections; destroy frees what others may use | a job accepted is run once, also after shutdown; join is a completion point; nothing is used after it is freed |
| Spawn table, C:7127-7320, `spawn.xi`, `thread.xi` | 256 slots under a lock that is made on first use; a payload and a result buffer per thread | spawn (two front ends), join, detach | first use by two threads; a full table; blocks freed while the thread runs | a handle names its own thread; each OS thread is joined or detached once; join waits |
| Process-wide pool, C:7700-7830 | a queue and a mutex per worker, round-robin counter without a lock | init, spawn; the worker loop | a caller holds one queue's mutex while it asks for the next | a task runs once; full queues end in a thread of its own |
| Runtime channel, C:7640-7700 | ring of 64, two condition variables | create, send, recv, try_recv | one signal per operation and waiters of two kinds | bounded FIFO; no wakeup lost |
| `RwLock`, `Barrier`, `Once` of `xiom.sync` | state word, counters and generation, once word, each under its own mutex | read, write, try, drop; wait; call_once | which waiter a leaving thread wakes; reuse of a barrier; initialiser outside the lock | exclusion; nobody early, nobody left; initialised before use |
| Executor, timers and channel of `xiom.async` | ready stack, timers, channel items, and the call stack | spawn, delay, run, block_on, sleep_ms, send, recv, try_recv, close | a task cannot be suspended: what waits runs other tasks on top of itself | tasks run once, timers are not early, messages stay in order, `run` finishes the work |
| Fault containment, C:780-1270, `error.xi` | signal handlers of the process; trampoline, guard page and fault record of each thread | trampoline call with its retry, inline trap, fault note, take_fault, exit handler | a signal jumps over frames; blocks nest; handlers are process-wide and flags per thread | a fault lands in the block that runs; no block is run again but for the guard page; an untaken fault is reported |
| Guard heap, C:425-775 | slabs, free lists and nesting count of one thread | enter, exit, alloc, free, realloc, copy out; fault and retry of a block | recycled blocks, second frees, oversized blocks; the arena goes with the outermost block | held blocks are intact; the arena lives as long as its blocks; outer data survives |
| Hot reload, `xiom_hot_reload.c` | pointer table with in-flight counts; the saved-state file | register, set_ptr, enter, leave; save and restore, v2 and legacy | unlocked test and write, unlocked counts; a crash while saving; another version or layout | a running call runs what the table holds; a slot has one owner; a state comes back whole or not |
| Child processes, C:4863-5360 | Windows: a table of handles; POSIX: pipe ends and marks | spawn, wait, kill, running | handles and pids are given out again; children inherit what is open at the fork | a call acts on its child; a child holds its own pipes |
| Signals, C:6421-6686 | latched code and event; pipe | install, handler, wait | handlers on any thread and inside each other, between any two steps of a wait; a full pipe, on which they wait | the newest signal is answered |
| File locks, C:5702-5998, `os/lock.xi` | locks of processes or of handles | try, lock, release; read, write and copy by path | closing any descriptor drops a POSIX lock | no two holders |
| Directory watch, C:6740-7118 | Linux: map from watches to paths; Windows: one overlapped read | open, poll, close | the tree changes while it is scanned; overflow; one buffer used up while the next fills | every directory is watched under its path; no change is skipped in silence |
| Event loop, C:9546-9813 | a table of interests in each of three builds | create, ctl, wait, close | one API, three tables of different kinds; room for fewer events than there are | the builds report the same, or each a part of it |
| Float128 and its shims, `fp128_helpers.c` | none: pure; a stack frame for the shims | the libcalls `__addtf3` ... `__trunctfdf2`; 14 kinds of shims | rounding, alignment, saturation; registers and shadow space | a result is within a unit or two; operands and result arrive |
| 128-bit integers, bit scans, vector kernels, SHA-2, command lines | none, or a streaming context | `__udivti3` ..., `xiom_simd_*`, `xiom_sha*`, `xiom_process_spawn_args` | width limits, builds that differ, block boundaries, quoting | the result is the one of the definition |

How they meet: `xiom.thread.pool` calls the worker pool, `spawn.xi` and `thread.xi` call the
spawn table, and all of them take and give up pthread mutexes and condition variables
through one-line wrappers (C:6164-6247). Those wrappers, OS threads, signals and the
compiler's generated code are the environment of the models: a wait may end without a signal,
a signal lets one waiter go on and which one is open, a joined thread has ended. The channel,
both pools and the spawn table share no state; `RwLock`, `Barrier` and `Once` share threads only,
and `SyncProgram` composes them that way. Confinement is per thread but for the signal handler,
which couples all threads. The guard heap is entered and left by the code that the compiler emits around
a block and by the trampoline's retry (C:1256); `GuardHeap` has a fault as one of its own steps. The
services share no state with each other: a program that uses two interleaves them without effect on
either, and `HostServices` lets a behaviour choose one.

### 1.2 Components that are not modelled

Every part is listed in `PROJECT.json` with its files. Stateful parts that are left:
the spinning primitives (`xiom/sync/{mutex,rwlock,condvar,barrier,atomics}.xi`), parking, the lock-free
queues and the object pool, the timer wheel, the HTTP/2 connection, WebSocket.
Parts that stay out, with the reason:

- wrappers of one system call each, with no state of their own (files, sockets, time zones, terminals);
- pure functions of the XIOM modules: text, codecs, parsers, numbers, geometry, statistics, sorting, hashing,
  cryptography, compression. The vectors and round trips of the tests serve them better; the kernels
  of the C runtime are modelled because every program's arithmetic goes through them;
- sequential containers, where each operation has a smoke test. The caches are the exception worth a model;
- the legacy IR emitter (text generation) and the assembly stubs of the async runtime;
- the Windows twins of the thread runtime and of the trampoline: same structure, other primitives.

### 1.3 Hazards of the parts that are left

`PROJECT.json` lists the hazards of the modelled parts and the first one of some of the parts that are
left. What else a model of those should look at:

- HTTP/2: a received GOAWAY and a local drain share `goaway_last_id` (`h2.xi:1745`), and a window cannot
  shrink below what is in use (`h2.xi:490`);
- parking: one flag for the whole process, an unpark releases whoever polls first (`park.xi:93`);
- object pool: a handle that was never handed out can be released and is then handed out twice
  (`objectpool.xi:45`);
- broadcast: one cursor for all subscribers, and a bounded one that was filled accepts nothing more
  (`async/channel.xi:237`);
- pool wrapper: counts of its own that only a join resets (`thread/pool.xi:152`);
- small ones in modelled parts, for which no model is needed or made: `barrier_reset` under waiting
  threads (`sync.xi:774`), readers that keep a writer out (`sync.xi:183`), a `send` that queues on a channel
  closed while it waited (`async.xi:282`), `sleep_ms` that returns late (`async.xi:241`), an untested
  `malloc` (C:7657), the signed round-robin counter (C:7796), the untested `pthread_create` of
  `xiom_thread_create` (C:6223), the Windows retry flag that a nested call resets (C:1044).

## 2. Plan

Order: what every threaded program of the library stands on comes first.

1. *Done.* Worker pool, with `JobQueue` as its abstract specification; channel, with `BoundedFifo`;
   the ring arithmetic both share, with lemmas; proofs of both.
2. *Done.* Spawn table, process-wide pool, `xiom.sync` primitives and their composition, executor,
   confinement.
3. *Done.* The services of the host: guard heap, hot reload and its state file, process table, pipes,
   signals, file locks, both directory watches, event loop, composed in `HostServices`; the kernels of
   the C runtime, composed in `LibraryCalls`.
4. *Next.* The pool wrapper `xiom.thread.pool` over WorkerPool (jobs that submit to their own pool, where
   the wait for room can close a circle); `SpinSync` (condition variable with a counted notification,
   park flag, load-then-store exchange); `TimerWheel` (tasks that cancel inside a tick).
5. *Then.* Lock-free queues; `H2Connection` with draining and windows; LRU, LFU and ARC caches against
   a reference.
6. *Done.* Proofs of all components of steps 1 and 2 and of all services and their composition (section 6).

The list of runs is kept short: a new component replaces the shallowest properties or shares the
run of a module it is composed with.

## 3. Modules

Every module starts with a comment that says what it stands for; variables keep the field names of
the source. The granularity is the same everywhere: **one action is one critical section**, from the
lock to the unlock or to the wait that gives the mutex up. Code outside a mutex, and unlocked
accesses to shared state, are actions of their own. A thread in a wait set sleeps in
`xiom_cond_wait`; it leaves the set by a signal, a broadcast or spuriously, and then tests the loop
condition again. A group of *Faulty* definitions in each module holds slips the code could have; they
are in no specification and serve to test that the properties notice.

| module | stands for | correspondence |
|---|---|---|
| `RingOps` | index arithmetic of all rings of the runtime | `(i + 1) % cap` |
| `Selection` | a loop that keeps some elements of a vector or buffer | timers that are not due, records of watched directories |
| `JobQueue` | abstract: accepted jobs form a bounded FIFO queue, a free hand takes the front one and runs it once; closing stops submissions only | - |
| `WorkerPool` | `xiom_workerpool_*` | `wpc`, `cpc` are program positions; `SubmitWait/Refused/Accepted` are the three ways out of the submit loop, `ShutdownLocked`, `Reap`, `Free` the three parts of destroy; create may get fewer threads than asked (`Init`) |
| `SpawnTable` | `xiom_thread_spawn_with_result/_with_arg`, `_join`, `_detach` and both front ends | the unlocked first-use initialisation is one action per statement, because it makes the lock itself; `payload`, `buffer` say whether the blocks are allocated |
| `GlobalThreadPool` | `xiom_threadpool_spawn`, `xiom_tp_worker_loop` | mutexes are variables, as one is requested while another is held; the unlocked counter is read and written in two actions |
| `BoundedFifo` | abstract: what goes in comes out once and in order, at most Bound wait | - |
| `RuntimeChannel` | `xiom_channel_*` | `closed` is never set by the runtime and its tests are left out |
| `RwLock`, `Barrier`, `Once` | the types of `xiom/sync/sync.xi` | one action per path through the mutex; guards' `drop` included |
| `SyncProgram` | the three in one program: once, then rounds of locked work and a barrier | `INSTANCE` of each, threads in one call at a time |
| `AsyncExecutor` | `xiom/async/async.xi` (and the same functions in `executor.xi`) | the call stack is a sequence of frames, as `_pump` runs a task on top of the one that waits; what tasks do is open; `pop` takes the last ready task |
| `GuardHeap` | `xiom_guard_*` of one thread | memory in units of 16 bytes, so that a wrong length overwrites a neighbour; `vector` is the buffer of a vector made outside the blocks |
| `HotReload` | `xiom_hot_register/set_ptr/enter/leave` | the load and the store of each unlocked access are actions of their own; the hash is any function |
| `HotState` | `xiom_hot_save_state_*`, `_restore_state_*` | the file is a sequence of units; a save that dies leaves a part of it |
| `ProcessTable` | `xiom_proc_track_*` and the calls by pid, Windows | look-up and use of a handle are two actions, as the spinlock is given up between them; the system gives pids and handles out again |
| `PipeSpawn` | `xiom_process_spawn_pipes`, `_wait`, `_kill`, POSIX | one action per pipe, fork, exec, closing and marking of ends, by several threads |
| `Signals` | `xiom_signal_install/_wait` and handlers, both systems | a handler's entry and its write, poll and read are actions, and `handlers` is each thread's stack of handlers; `platform` is chosen at the start |
| `FileLocks` | `xiom_file_lock_*`, `os/lock.xi`, and accesses by path | descriptors of one file per process; the rules of each system's locks are external |
| `DirectoryWatch` | `xiom_watch_*` over inotify | the tree and inotify's queue are external; the scan of a directory is one action per directory |
| `ReadChanges` | `xiom_watch_*` over ReadDirectoryChangesW | one slot; the system completes the read at any time |
| `EventLoop` | `xiom_event_loop_*`, three builds side by side | the same calls act on WSAPoll's table and on epoll's and kqueue's, which are external; a wait is the set of its possible results, as the system chooses which events it returns when there are more than it is asked for |
| `HostServices` | a program that uses one of the ten modules above | - |
| `Float128` | `xiom_f128_*` and the libcalls | the widths are constants; an undefined shift is any value; shifts by `PowersOfTwo` |
| `AbiShims` | the Win64 assembly, F:592-1189 | shims are sequences of instructions of a small machine; a wrapper may write its shadow space |
| `WideInt`, `VectorUnit`, `Sha2`, `ProcArgs` | 128-bit division, the three builds of `simd_runtime.c`, the SHA-2 drivers, the command line builder | IEEE operations and the compression function are uninterpreted terms |
| `LibraryCalls` | a program that calls one of the six | a state is a call with its operands and result |
| `Confinement` | trampoline, guard page, trap, fault record | frames of confined blocks per thread, `jump` is the frame `sigsetjmp` was last called in |

`Confinement` models generated code from what the runtime says of it: a block's function arms the guard
page at its start and disarms it at its end, a call site calls `xiom_fault_note` for a permanent fault,
`xiom_trap_enter` and `_leave` stand around inline blocks.

The `MC*.cfg` files give the constants small values, as model values and numbers; they name a
component's module directly and need no module of their own.

## 4. What the runs show

Bounds are named constants. The state spaces are finite because jobs, messages and tasks are used at
most once, and because of `Rounds`, `MaxClock`, `MaxSends`, `MaxDepth` and `NumTasks`.
`CHECK_DEADLOCK FALSE` is set where the system may really stop: all work is done, the pool is freed,
every round is over, the process has ended. That nobody hangs is a liveness property instead.

| run | bounds | shows |
|---|---|---|
| `worker_pool` | 2 workers, 2 clients, 3 jobs, ring of 2 | TypeOK, ShutdownDrains, TeardownIsOrdered (nothing is used after it is freed, shutdown joins the threads), JoinIsCompletionPoint; the refinement of JobQueue, which has that a job runs once; accepted jobs run and all calls return (PoolMakesProgress) |
| `spawn_table` | 3 spawns, table of 2, one through `thread.xi` | HandlesMatchTheirThreads: handles and slots correspond, each OS thread is reaped once; a handle's blocks live as long as its thread; callers get through; also with a full table |
| `thread_pool` | 2 callers, 4 tasks, 2 queues of 1 | tasks run once, queues keep their bound and sleepers have no work; unless callers lock each other out, tasks run and calls return |
| `channel` | 3 senders, 2 receivers, 4 messages, ring of 2 | NoWakeupIsLost, the refinement of BoundedFifo, every message arrives |
| `sync_program` | 4 threads, 2 rounds | LockIsSound (exclusion, no forgotten sleeper), BarrierIsSound (nobody passes early or is left behind), initialised before use, the program ends |
| `async_executor` | 3 tasks, channel of 2, clock to 2, 3 messages | tasks run once, timers are not early, FIFO, `run` finishes the work |
| `confinement` | 2 threads, blocks 2 deep | BlocksAreContained (a jump stays in its block, faults land there), RetryIsInvisible (no replay, a call site reads its own block's flag), MainFaultsAreReported |
| `host_services` | `MCHostServices.cfg`: slabs of 5 units, 3 slabs, 4 allocations, blocks 2 deep; 2 callers, 2 functions, 2 slots, 4 versions of code; 2 saves, 2 layouts, 2 versions, 2 sizes; 2 parents, 3 children, table of 2, 2 pids, 3 handles; 2 spawning threads; 2 waiters and a bystander, 5 signals, a pipe of 3, reads of 2; 2 processes with 3 descriptors; 4 directories, 4 changes, a queue of 4; 6 records; 3 descriptors in a loop with room for 2, waits with room for 1 to 5 events, of which at most 3 are asked for at once | GuardHeapIsSound, HotReloadIsSound, ProcessesAreNotConfused, TheNewestSignalIsAnswered, LocksExclude, WatchesMissNothing, LoopBuildsAgree |
| `library_calls` | `MCLibraryCalls.cfg`: fractions of 3 bits, exponents of 4, words of 5 bits; integers of 5 and scans of 8 bits; blocks of 4 bytes and messages to 18; 2 arguments of 3 characters, a buffer of 14 | FloatsAreSound, ShimsDeliver, WideIntegersAreExact, VectorBuildsAgree, DigestsAreStandard, ArgumentsSurvive |

Why they are enough for what is asked: a ring of 2 with 3 jobs wraps, fills and blocks; 2 workers give
every pair of critical sections in both orders; a table of 2 with 3 spawns fills and reuses a slot; 3
senders on a ring of 2 leave one asleep while another is signalled; 4 threads allow two readers, a
writer and a fourth that comes back to the barrier early, and 2 rounds are the first reuse of a
generation; frames 2 deep are the first nesting. In `host_services` sizes 1, 3 and 6 are a small block,
one of the list for large ones, and one larger than a slab; 3 children fill a table of 2 and leave one
untracked, and 2 pids for 3 children are given out again; 2 slots for 2 functions collide and fill; 5
signals leave handlers of several threads waiting on a full pipe of 3, and a read of 2 leaves bytes behind; 2 descriptors
with 2 directions have 4 filters, more than the 3 that are asked for; 4 directories nest three deep and are
moved and made again; 6 records fill the buffer, the next one and the system's room. In `library_calls` the
widths are parameters of the same definitions: a significand of 4 bits in a word of 5 has every
rounding, carry, cancellation and shift beyond the word, and messages to 18 bytes pass each block
boundary and length-field boundary of both drivers. Depth 3 of blocks and a third worker add states of
the same shape; where a theorem exists (section 6) no bound is involved.

TypeOK carries more than types where the code declares an invariant (the executor's channel is within
its capacity, the pool's queues within theirs, a sleeper of the lock asks for the lock). Where a module
has several properties of one kind, a run names their conjunction, whose parts are in the module with
a comment each; the type invariants of the composed modules are parts of these.

### Runs that end in a violation: disagreements of code and documentation

| run | the code | the text |
|---|---|---|
| `thread_pool_lock_cycle` | a full queue's mutex is held while the next one is requested; callers can form a circle (C:7806) | C:7802 and 7812: "try next worker", "All full -- spawn dedicated thread" |
| `sync_once` | a second caller that finds the initialiser in progress runs it again (`sync.xi:361`) | `sync.xi:350`: "Run `f` exactly once" |
| `float_division` | the dividend's significand is halved and its last bit lost; for equal odd significands the quotient has no leading bit, and x / x comes out near 2 (F:262) | F:216 and 265: "114 bits: 113 + guard" |

Each is the shortest behaviour TLC finds. The passing runs of the same modules exclude exactly the
situation named: PoolMakesProgress of the process-wide pool assumes `[]NoLockCycle`, and
QuotientIsClose leaves out equal odd significands.

Known divergences without a run of their own:

- with all spawn slots taken the thread is already running; it is detached and the caller is told that
  there is none, so that its join returns at once (C:7254, against `spawn.xi:16`); `HandleKeepsItsPromise`
  is about handles that were given out;
- `JoinHandle.detach` frees the buffer the thread will write (`thread.xi:110`, against `spawn.xi:22`);
  `HandleKeepsItsPromise` leaves such handles out;
- the spawn table is initialised behind an unlocked flag, and the second first user clears the slot of
  the first (C:7144); with `Solo = FALSE` in `MCSpawnTable.cfg` HandlesMatchTheirThreads fails, the run has
  `Solo = TRUE`, where the first spawn ends before another begins;
- Float128: the sum of infinities is tested the wrong way round, inf + inf is a NaN and inf - inf an infinity,
  where the comment at F:84 has it for inf - inf; 1 - inf keeps the sign of inf. Exponents wrap on overflow,
  `__gttf2` says that a NaN is greater, zeros of different signs compare unequal, and values of 2^113 and
  more become 0 as a 128-bit integer. FloatsAreSound is stated for what remains and says so part by part;
- `xiom_hot_ptr_generation` is "incremented on each reload" (`xiom_hot_reload.c:57`) by nobody, and
  registering a name again gives it another slot, although line 110 calls the index stable.

Known deviations that are part of a passing property, stated as its exceptions or not covered:

- `FaultsAreContained` holds with two exceptions. A nested confined call clears
  `xiom_trampoline_active` when it comes back, and a later fault of the outer block ends the process.
  A thread's first inline block installs the trap handler for the whole process, so faults in other
  threads' trampolines are no longer theirs. `xiom_trap_enter` also returns from the frame of its
  `sigsetjmp`; a jump there is undefined behaviour, and the model stops in the status "undefined".
- `MainFaultsAreReported` speaks of the thread that calls exit; a fault that a worker thread did not
  take leaves status 0, as the record is thread-local.
- `OuterDataSurvives` (guard heap) excepts a vector that was empty when the block began: its first buffer
  is in the arena and goes with it when the block faults.
- `SwapsSpareRunningCalls` excepts a call that reads the pointer between a swap's test and its write, and
  stops where two updates of a count overlapped. A crash while a state is saved loses the state before it
  (`xiom_hot_reload.c:225`); a restore that answers -1 may have written a part of the buffer; the
  legacy restore returns a v2 header as data when the layout differs. `RestoreIsWhole` is about the v2
  restore that answers 0 or names a mismatch.
- `CallsMeetTheirChild` excepts children that found the table full, which are looked for by pid, and those
  that a wait has taken from the table, whose handle a kill may have looked up before (C:4960).
  `PipesBelongToTheirChild` excepts forks between another thread's pipe and fcntl calls (C:5349). An exit
  code of 259 reads as running on Windows (C:5005), and a zombie as running on POSIX (C:5272).
- A `Once` that is done can be in progress again for a while: the store of done (`sync.xi:368`) is made without the
  mutex and may fall between another caller's test under it (`sync.xi:360`) and its store of in progress (`sync.xi:365`), so
  that `is_completed` (`sync.xi:371`) turns from true to false although the initialiser has run. It comes to done
  again when the late run ends; `InitialisedBeforeUse` says so.
- POSIX signals: the comment at C:6650 says that a byte is dropped when the pipe is full, but the pipe is made without
  `O_NONBLOCK` (C:6656), so the handler's write (C:6649) waits for room, inside the handler and on whatever thread it
  interrupted. In the model `WriteByte` waits. When every thread that reads the pipe is in such a handler nobody reads it and all
  of them wait for ever; it takes as many unread signals as the pipe has bytes (65536). No property excludes that:
  `TheNewestSignalIsAnswered` is about states with an empty pipe, and says that no byte is lost on the way there. A mutant that
  drops the byte, as the comment has it, breaks it.
- `TheNewestSignalIsAnswered` excepts, on Windows, a signal before the install. Older ones of a batch are not
  answered, as the comment says. A second waiter can block in its read past its timeout (C:6681, after the poll at 6677), and
  an install that fails makes the next one report success.
- `LocksExclude` excepts POSIX locks that went because the same process closed another descriptor of the
  file (C:5959), which the header of `os/lock.xi` warns of for locks only. On Windows a read of a locked
  range fails and `xiom_read_at` returns zeros as if they were data.
- `EveryDirectoryIsWatched` excepts what is made in a directory before it is attached, as it is not scanned
  (C:7055), and what is below a directory that moves, whose prefix stays as it was; slots are claimed
  by an unlocked test and set (C:6959), which the one watch of the model does not meet.
- `LoopBuildsAgree` leaves a loop out after a call outside the documented ones: a second add, a change of a
  descriptor that is not there, an empty interest, a full table (C:9586). With little room the builds differ: epoll counts
  descriptors (C:9687) and kqueue filters (C:9761, 9769), which are merged afterwards, so that kqueue may tell one direction
  of a descriptor where the others tell both, and a wait for `max` entries may give half as many; the property says which part of
  the readiness each may report. The Windows wait serves the first
  entries of its table first and may starve others, and sleeps for ever with a negative timeout and
  nothing to wait for.
- `ShimsDeliver` excepts wrappers that use their shadow space under the shims for older compilers, which
  save the operands there (F:928) although the comment at F:592 reserves it.
- After its first disarm the guard page stays writable: it traps once in a thread's life.
- The executor's `send` and `recv` panic when nothing else can run (`async.xi:288`), also where the
  task that would make room is a frame below the one that waits; the header comment (`async.xi:13`)
  says neither panics during normal flow. `RunFinishesTheWork` therefore ends in `done` or `panicked`.

## 5. Fairness

Only liveness properties use it, through `FairSpec`; safety is checked without.

- Threads inside a call, and worker threads: weak fairness of each thread's steps. The OS runs every
  thread that can go on, and hands a free mutex to each who waits; a critical section is one action, so
  waiting for the mutex is not a state of its own, but in SpawnTable and GlobalThreadPool, where the
  lock is a variable. There a lock is taken a bounded number of times by the others.
- Jobs, spawned functions and tasks come to their end: the contract of both pools and of the executor.
  A task that never returns would keep its worker for ever.
- Starting a call is never fair: clients may stop at any time. The one exception is the channel, whose
  receivers keep coming back; without them a message waits in the ring and nothing is wrong.
- The executor: the library's code and the return of a task's code. What a task calls is its choice.
- Spurious wakeups, clock ticks and faults are not fair: nothing may depend on them.

## 6. Proofs

About 22,000 obligations, all checked by TLAPS with Z3, Zenon and LS4, in eight modules, one for each
component or composition; together they state 33 of the 40 properties that the passing runs check. They hold
for every number of threads, jobs, blocks, processes and messages and for every capacity, under assumptions
that are named at the constants and that the code justifies:

- a capacity is positive (`CapAssumption`, `MaxTasksAssumption`, `TableSizeAssumption`, `HotAssumption`, `DepthAssumption`), a
  pool has a worker (`WorkersAssumption`, `NumWorkersAssumption`), the sets of threads are finite and that of `SyncProgram`
  is not empty (`ThreadsAssumption`), counts are natural numbers (`RoundsAssumption`, `NumTasksAssumption`);
- the value that stands for nothing is no job, message, task or thread (`NoJobAssumption`, `NoMessageAssumption`,
  `FreeAssumption`, `NoneAssumption`), and 0 is no handle (`TableAssumption`); the main thread is a thread (`MainAssumption`);
- a pipe and a read of it have room for a byte (`SignalAssumption`), sizes of saved states are natural
  numbers and no layout has the name of the legacy format (`StateAssumption`);
- the map of a watch has room for a directory and no directory has the name that stands for the root (`WatchAssumption`); the sizes of
  the system's queues and of a loop, the delays of timers and the bounds on time and messages are natural numbers
  (`LoopAssumption`, which also has a cap on events that is positive and finitely many descriptors, and `BoundAssumption`; the executor's channel may have capacity 0, which is no bound);
- a slab, the smallest large block and every size that is asked for have a unit at least (`HeapAssumption`);
- a float's fraction is two bits shorter than the word, longer than a double's and no longer than the bias, and its exponent no shorter than
  a double's (`WidthAssumption`: 112, 128, 52, 16383, 15 and 11 in the code);
- words have two bits at least and the bit scans halve a power of two (`WideAssumption`), a block of a digest is longer than its length
  field (`BlockAssumption`), a line has room for a character and its end (`LineAssumption`), and the bits of a message can be counted in
  the length field, as a 64-bit `bitlen` does for any message there is (a conjunct of `CallsAssumption`).

Two hypotheses are not about constants but about how the program calls: `Exclusive` (worker
pool) and `Solo` (spawn table). Both are CONSTANTS of the modules, with the reason in section 7 and
section 4; the theorems that need them say so, the others do without.

Each inductive invariant was first checked by TLC on the instance of its run. A lemma for each kind of action
says what it does to the invariant; the theorem collects them with one step for each disjunct of Next.

`SequenceLemmas`, which the other proofs rest on: what a ring of `count` slots from `head` contains after one is added behind it or
taken from its front, as lemmas on `RingContents` (the index arithmetic is by cases, as the wrap is a
single subtraction within the range); and what a loop keeps of a sequence, `Selected`. The second is about a recursive
function, and the provers have no induction: that a set of numbers has a least element follows from well-foundedness
of `<` (`LeastNumber`), and that a statement with 0 and with successors holds of all numbers follows for the set of those it
holds of (`NumbersFrom0`), so no operator is passed to a theorem. The same two give what loops need, a recursive
function being one: that a loop can be run (`LoopRuns`, `IteratesForEver`) and has one outcome (`IteratesOneWay`), and division and
the growth of products (`Divided`, `ProductsGrow`), of which the SMT solver decides single cases only.

`RuntimeChannel_proofs`:
- `ChannelInvariant`, the inductive invariant: types, `tail` is `count` places after `head`, and the
  slots in between hold messages. The last two are needed since `count`, `head` and `tail` are
  independent variables in C, and only their relation makes an accepted message appear at the end of
  the queue and nowhere else.
- `TypeCorrect`; `ChannelKeepsOrder`: what was accepted is what was delivered followed by what waits;
  `ChannelIsAFifo`: each step of the channel is a step of `BoundedFifo` or leaves it alone, so
  `Spec => Fifo!Spec`.
- `ChannelLosesNoWakeup`: `NoWakeupIsLost`. That nobody sleeps while there is something to do
  is not inductive: one signal wakes one sleeper, and two sends in a row need two receivers that are awake. The
  property counts, so it is inductive with little help (`WakeInv`: who sleeps is inside a call); the work is the
  cardinality of the awake when a thread enters, falls asleep, is woken or leaves (`AwakeCount`).

`WorkerPool_proofs`:
- `PoolInvariant`: `PoolInv`. That accepted jobs are queued, running or done is not inductive alone: a
  worker takes `tasks[head]`, which is a job only if the ring holds jobs between its ends
  (`RingHoldsJobs`), what it then reports was counted (`OutstandingCountsWork`: `outstanding` is the
  queue plus the busy workers, also those that have run the job and not yet reported), and a thread
  that has ended found the pool closed and empty (`ExitedMeansDrained`), which stays so because a
  closed pool accepts nothing.
- `JoinCompletes`: from it, `outstanding <= 0` means an empty queue and no busy worker, so all that was
  accepted is done, in particular what a joining client was owed.
- `ShutdownLosesNothing`: when the fleet has ended the queue is empty, nobody runs, so accepted = done;
  this needs that a pool has at least one thread (`Fleet # {}`), which create guarantees.
- `FreedIsUnused` and `TeardownComesInOrder` (`TeardownIsOrdered`): under `Exclusive` (one closer at a time, and
  nobody else inside destroy) the memory goes only after all threads have ended.
  `ClosingIsExclusive` adds to PoolInv who may be in which part of a shutdown.
- `PoolIsAJobQueue`: the pool implements `JobQueue`. Beyond PoolInv it needs `JobsAreNew`: a client that
  waits for room asks for a job that was never accepted, else the abstract queue could not take it.
- `TypeCorrect`.

`GlobalThreadPool_proofs`, for every number of workers, callers, tasks and places in a queue:
- `PoolInvariant`. `TasksRunOnce` counts the places of a task: callers' hands, queues, workers, threads of its own and
  its runs. A task can leave one place for another only if it is nowhere else, so the invariant says that callers carry
  different tasks (`TasksInHand`), that nobody but the caller that looks at a queue holds its mutex (`MutexesAreHeld`), and that
  nothing is queued before the fleet is made (`FleetComesFirst`).
- `EveryTaskRunsOnce` (`TasksRunOnce`), `NoQueueIsForgotten` (`QueuesAreSound`: queues keep their bound and a worker sleeps only
  at an empty one), `QueueMutexesAreHeld`.

`SpawnTable_proofs`:
- `SpawnInvariant`, under `Solo`. The properties relate handles, slots and threads; what keeps them true is that the
  slot found by a search is unchanged while the lock is held (`LockIsHeld`, `SearchHolds`), that registered handles and used slots
  are one to one (`SlotsAreHandles`), how often a thread was given back at each place of the code (`ReapedWhenGone`),
  and that the blocks live as long as there is a handle or will be (`BlocksAreKept`).
- `HandlesStayInStep`, `HandlesKeepTheirPromise`: the two properties. Under `Solo` the first
  spawn makes the lock and the table before another begins (`MadeAlone`). Without it both are false, as section 4 says.

`LibraryPrimitives_proofs`, about the composition of the locks, about the executor and about five of the kernels in `LibraryCalls`:
- `ProgramInvariant`. The parts of `LockIsSound` are inductive together; `InitialisedBeforeUse` needs that whoever asks for the lock is
  back from `call_once` (`UsersAreReady`), and that the once word is done when a run has ended and none is under way (`DoneMeansRun`): the store
  of in progress may come after another's store of done, but who makes it runs the initialiser and stores done again. The barrier is the hard one: that nobody passes early is a statement about
  rounds, the code has a counter and a generation. `Account` says how often a thread has come and gone, by where it stands, and
  the counter is the number of those who came for the present generation (`Here`); the sleepers of the last
  one, released and not yet awake, do not count, though they stand at the same place in the code.
- `LockExcludes`, `BarrierHoldsAndReleases`, `NothingIsUsedBeforeItsTime`: the three properties of the run.
- `ExecutorInvariant` (`AsyncInv`). A task runs once if it is in one place at a time: the ready stack, the timers, the call stack or done
  (`PlacesInv`: the three sequences repeat nothing and share nothing). Due timers go to the ready stack in one pass
  over both, where what is kept and what is moved are `Selected` by complementary sets of places. The messages taken and the
  messages in the channel are numbered through (`QueueInv`), and every frame that waits for room has a message of its own (`RoomInv`),
  as frames below others push theirs when they come up again.
- `NoTaskIsLostOrRunTwice` (`TasksRunOnce`), `MessagesStayInOrder` (`FirstInFirstOut`), `TimersWait` (`TimersAreNotEarly`, an action
  property), for every set of tasks, capacity and depth.
- The kernels keep no state: a theorem about one says that the result of a call is that of the definition, and the invariant is that of
  its loop. `KindsOfCalls` tells the calls apart.
- `CommandLines` (`ArgumentsSurvive`). `Reads` relates two states of the child's parser and a text that takes it from one to the
  other. Backslashes are read before it is known what they mean, so the invariant of the quoting is about the text with those still held
  back: it takes the parser to the word so far, and the count is that of the backslashes at its end.
- `WideIntegers` (`WideIntegersAreExact`). After some bits quotient and remainder are those of the dividend's leading bits, and the remainder
  is below the divisor; one bit further it may be twice as long as a word, which is where the two ways of subtracting meet. A bit scan has
  counted the bits outside the window it still looks at.
- `FloatArithmetic` (`FloatsAreSound`), for every width of fraction, exponent and word that `WidthAssumption` allows, 112, 15 and 128 among
  them, and every pair of operands. `Power` is a recursive function and not `^`, of which the provers know nothing; the rest follows from
  `PowersMultiply` and `PowersGrow`. A number's length is found and is the only one (`LengthsAreFound`), which gives what a shift to the implicit
  bit does (`AlignedIsASignificand`). What the smaller operand of a sum loses is less than a unit of the greater one
  (`SmallerIsShifted`); a difference may be shifted up, a sum down by one place. A quotient has its leading bit because the
  dividend stays above half the divisor (`QuotientOfSignificands`), but for equal odd significands, which the proof needs to leave out
  as the property does; and the rounding never grows (`RoundedToEven`). For doubles, what is kept and the rest decide between two neighbours
  (`SignificandIsNearest`), and one that grows to the next exponent, or to infinity, is still the nearest (`DoublesAreNearest`).
- `VectorBuilds` (`VectorBuildsAgree`). The scalar loop overwrites operands it has read, in place, and none it will read.
- `Digests` (`DigestsAreStandard`). A context has absorbed the first bytes of a message (`Absorbed`): full blocks are in the chain, the
  rest is in the buffer in front of what was there before. Cuts of the message do not show as each byte leads from one such context
  to the next. The last blocks are compared with the standard's place by place (`LastPlaces`), and the length bytes above the 64 bits
  that the code writes are zeros by the assumption.

`Confinement_proofs`, for every number of threads and every depth of blocks:
- `ConfinementInvariant`. A fault jumps to the frame that was noted last, and the flags of the
  trampoline are one set per thread and not one per block. So the invariant says when they are
  those of the running block: `JumpIsOfTheTop` (an active trampoline is the running block's, which has not run
  any of its effects unless it was repeated), `ClearedByNested` (inactive inside a block only after a nested one came back),
  `FlagsAreSaved` (each block on the stack has saved the flag of the one below it, so that a return finds it),
  `OwedIsNoted` (a fault that nobody took is still in the record).
- `FaultsStayInTheirBlock` (`BlocksAreContained`), `RetriesLeaveNoTrace` (`RetryIsInvisible`), `UntakenFaultsShow`
  (`MainFaultsAreReported`).

`HostServices_proofs`: each service by itself (`HotSpec`, `PipeSpec`, `SignalSpec`, ... : the service's Init and steps),
and from these the composition.
- Child processes on POSIX (`PipeInvariant`, `ChildrenHoldTheirOwnPipes`). What a running child holds
  was decided at its fork, so the invariant says what a forked child holds (`HeldEnds`: its own ends, marked ones,
  ends of spawns under way), and that needs what is open at every moment (`OpenEnds`: a spawn that has returned has left
  its own ends only, all of them marked).
- Child processes on Windows (`ProcessInvariant`). A handle that was looked up is used later, and the
  system gives closed handles out again. A handle is the
  table's or one call's (`HandlesHaveOneOwner`), the entries are of different pids and open on them (`EntriesAreOpen`), a child is in
  the table until somebody waits for it, unless it had no room (`ChildrenAreTracked`), and a call about such a child has
  the table's handle on it (`CallsHoldTheirChild`).
- Hot reload (`HotInvariant`, `RunningCallsAreSpared`, `SlotsAreNotShared`). That a running call has what the table
  holds survives a swap only if nobody runs in the swapped slot (`TestedSlotsAreQuiet`), which the test shows only if the
  count is the number of threads inside (`CountsAreTrue`), which is so until two updates overlap.
  `FilledSlots`: a slot that is called through is never free again, so no registration takes it.
- The saved state (`StateInvariant`): the file is one of the saves or a beginning of it, what an older program wrote, or not there
  (`FileHasItsShape`), so a v2 restore that answers 0 has read a whole save.
- Signals (`SignalInvariant`). On Windows the latched code is the newest, and until it is answered the event, a handler about to set
  it or a woken waiter stands for it (`NewestIsLatched`). On POSIX its byte is the last of the pipe, or was when it was
  read (`NewestIsWritten`): a handler that waits for room has not written, and what it writes later is the newest.
- File locks (`LockInvariant`): a descriptor is in one call or in one lock object (`DescriptorsAreUsedOnce`), what the system has locked
  stands for locks of one process (`SystemLocksAreHeld`), and a lock object without a lock of its process is one of a POSIX process that has
  closed another descriptor (`HoldersHaveTheLock`).
- The guard heap (`HeapInvariant`). A held block is spoiled by a write that belongs to another one, so the invariant is about all
  blocks at once: held, freed and about to be granted, each stands whole in its slab, in front of the room behind the
  last, with a header of its length (`IsWhole`, `Waits`), any two share no unit (`BlocksAreApart`), and each
  free list names retired blocks of its class, none twice and none in two lists (`ListsHold`). That blocks tile
  their slabs is not enough: a second free is harmless only as the header of a freed block reads retired. An operation
  rewrites the units of one block and nothing else (`Rewrites`, `OthersStay`), and an allocation grants a block apart from all
  others (`AllocationIsGranted`), recycled, of the current slab or of a new one. That the search of a list finds an
  entry of the exact length needs a least element, which is well-foundedness of `<` and no induction (`LeastNumber`).
- The event loop (`LoopInvariant`): the three tables stand for the same watches (`InStep`), WSAPoll's as a list without repeats, epoll's
  as a function and kqueue's as a set of filters, for every loop that made the documented calls only. A modification is
  the hard one: kqueue gets deletions and additions where the others overwrite. What a wait gives is chosen
  among the events, so the theorem is about every choice: any part of epoll's events, and any part of kqueue's filters with what the
  merge makes of them (`EpollReports`, `KqueueReports`).
- The directory watch over inotify (`WatchInvariant`). The map is checked against a tree that has moved on, so the invariant relates the tree
  as it is (`TreeInv`), the records under way (`RecordsInv`: a record of a live directory is of a watched one), the map (`MapInv`: an entry
  without a watch has its `ignored` record coming) and both. That a directory is in the map, below one that will be
  scanned, or announced by a record is not inductive: a record attaches its directory below the path that the map has for the
  parent, which is the right one only when the parent's own record has been read. `ReachInv` therefore asks for a directory
  behind *every* record that announces its parent (`BehindItsParent`), which holds because a directory is made or moved in after its
  parent came there. A step of poll that takes one record can then lose nothing.
- The directory watch over ReadDirectoryChangesW (`ReadInvariant`): what poll has returned, what it will return of the buffer and what the
  system keeps is, in this order, the changes in the order they were made (`Order`), and all of them unless an overflow was
  reported or will be.
- `ServicesInvariant` and, under the run's `Spec`, `BlocksOfTheHeapAreWhole` (`GuardHeapIsSound`), `HotReloadSparesTheRunning` (`HotReloadIsSound`), `ChildrenAreNotConfused`
  (`ProcessesAreNotConfused`), `SignalsAreAnswered` (`TheNewestSignalIsAnswered`), `FileLocksExclude` (`LocksExclude`), `EventLoopsAgree` (`LoopBuildsAgree`), `WatchesMissNoChange`
  (`WatchesMissNothing`): a step of
  the composition is a step of one service and leaves the variables of the others (`StepOfAService`).

Only model-checked:

- liveness (`PoolMakesProgress` of both pools, `CallersFinish`, `EveryMessageArrives`, `ProgramEnds`, `RunFinishesTheWork`), as TLAPS has no
  rules for fairness that reach it;
- `ShimsDeliver`: nothing in it depends on a constant, so TLC covers all its cases.

## 7. Abstractions and what is left out

- Job bodies, messages and results are model values: nothing in the modelled code looks into them.
- Capacities are small constants instead of 1024, 256 and 64. The code uses them only in comparisons
  and remainders.
- 64-bit counters (`completed`, `outstanding`, the barrier's generation) do not overflow in the models.
  The process-wide pool's round-robin counter is a C `int` that is never reset; its overflow, after
  2^31 spawns, is not modelled.
- Failure of `pthread_create` is modelled where the code tests for it: pool creation with fewer threads,
  a spawn that returns no handle as the runtime's comments have it. `xiom_thread_create` itself ignores
  the result on POSIX and would return an indeterminate handle (C:6223).
- Failing allocation, where the code does not test it.
- WorkerPool: `Exclusive` excludes that the pool is used during destroy, which the source asks of callers
  (`thread/pool.xi:225`), and that two clients close it at the same time, of which the source says
  nothing: a second shutdown finds the joined flag set and returns at once, while the first still waits
  for the threads, so that shutdown is a completion point for the first closer only and a destroy that
  follows it could free the pool under the first. TeardownIsOrdered is stated
  for one closer at a time. A job that submits to its own pool is not modelled.
- Sync: `barrier_reset`, the free-standing semaphores and latches, and a reader that asks again with a
  guard in hand. Readers are admitted while writers wait, so a stream of readers can keep a writer out
  for ever; the finite rounds of SyncProgram leave that aside.
- AsyncExecutor: methods of the executor and of a channel act on shared objects, as the source's `self`
  methods are used. Task bodies are any sequence of library calls; only the main program calls `run`.
- Confinement: the POSIX build; no faults outside blocks; the guard heap has its own module.
- GuardHeap: contents are tags, the copying of contents by realloc and copy-out is left out, and the fallback to the main
  heap outside blocks with it. Failing `realloc` of the slab index is the same outcome as a slab not granted.
- HostServices: one watch, one guard heap and one hot table; the event loop's readiness is any set of
  descriptors at each wait. Memory is sequentially consistent, also where HotReload's accesses are racy.
- HotReload: calls through the thunk that does not count itself in flight (`xiom_hot_get_ptr`) are not modelled; a swap
  cannot see them, so nothing of `SwapsSpareRunningCalls` holds for them.
- DirectoryWatch: directories do not move into the watched tree or out of it, only within it. TLC's map has room for few
  directories, so that it fills; the theorem has any room.
- ProcArgs: `Parse` treats the program's name like the other arguments. Windows knows no escapes in it, which makes no
  difference for a name without quotes, and file names have none.
- SpawnTable: the payload and the result buffer of a thread are looked at from the start of the thread to the store of its
  result, as the trampoline reads the buffer's place out of the payload after the function (C:7236).
- Float128: the widths are parameters; TLC has small ones, the theorem all. Results for
  subnormal operands, which the code treats as normal, are in the model and in no property.
- VectorUnit: elementary IEEE operations are uninterpreted, as TLA+ has no floating point; it says which build
  combines what, in which order, and where the builds define different results.
- Sha2: the compression function is uninterpreted.
