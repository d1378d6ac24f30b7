# A verification of the Harbour runtime's threads, memory and shared tables

Harbour compiles xBase programs and runs them on a virtual machine (the HVM). This
directory holds TLA+ models of the parts of the runtime where its hard behaviour is:
threads that share one machine, a garbage collector that stops them, mutexes with event
queues, functions that wait for threads or run something once, reference counts with
destructors, the end of a multithreaded program, workareas that move between threads,
files opened twice by one process, and tables shared by several processes. The models
are checked with TLC on small instances; the safety properties of the thread control, of
mutexes, of the thread API, of the end of a program, of the workareas and of files opened
twice are proved with TLAPS for any number of threads, those of tables for any number of
workareas that share one, those of the memory for programs with one thread. Paths below are relative to the repository (`src/vm/hvm.c` is
`src/src/vm/hvm.c` in `PROJECT.json`).

The models follow the build with `HB_MT_VM`, POSIX threads, no `HB_GC_AUTO`, and without
`HB_COND_HARBOUR_SUPPORT` and `HB_TASK_THREAD` (other builds replace the native layer).

## 1. Inventory

| Component | State | Operations | Hard behaviour | What makes it correct |
|---|---|---|---|---|
| HVM thread control: `vm/hvm.c`, `vm/estack.c` | `s_vmMtx`, `s_vmCond`, `hb_vmThreadRequest`, `s_iRunningCount`, `s_iStackCount`; per stack `iUnlocked`, action requests, recover items | `hb_vmRequestTest`, `hb_vmUnlock`, `hb_vmLock`, `hb_vmLockForce`, `hb_vmSuspendThreads`, `hb_vmResumeThreads`, `hb_vmTerminateThreads`, `hb_vmWaitForThreads`, `hb_vmThreadInit/Quit/Register/Release/QuitRequest`, `hb_vmRequestReenter(Ext)`, `hb_vmRequestRestore` | one condition for every sleep; counters instead of sets; entry while a stop is pending; threads of other libraries | the suspender is alone; the counters are exact; every sleep ends |
| Harbour mutexes: `vm/thread.c` | `HB_MUTEX`: `lock_count`, `owner`, `lockers`, `waiters`, `events`, two conditions; the list of mutexes | `hb_mutexLock/TimedLock/Unlock/Notify/NotifyAll/Subscribe/SubscribeNow`, sync wait and signal, unlock all, unsubscribe all | raw mutex released inside operations; timeouts that race signals; recursion given up and restored around waits | mutual exclusion, exact recursion, no lost signal, fresh events |
| Memory: `vm/garbage.c`, `vm/arrays.c`, `vm/fm.c`, `vm/itemapi.c` | three lists of blocks, flags and lock counter of each block, reference counters, `s_uUsedFlag`, `s_bCollecting` | `hb_gcAllocRaw`, `hb_gcRefInc/RefFree`, `hb_gcLock/Unlock`, `hb_gcItemRef`, `hb_gcMark`, `hb_gcCollectAll`, clear functions, destructors | destructors run program code inside the memory manager, also in the middle of a collection while other threads run | nothing in use is freed, nothing is freed twice, garbage goes |
| End of the program: `vm/hvm.c` with `vm/thread.c` | the native mutexes `s_vmMtx`, `s_mutexlst_mtx`, `pMutex->mutex` together | `hb_vmTerminateThreads` against all mutex operations | lock order; flags read outside their mutex | returns, and leaves nobody behind |
| Thread API: `vm/thread.c` | `HB_THREADSTATE` (`fFinished`, `th_h`, `pResult`), `s_thread_mtx`, `s_thread_cond`, `s_waiting_for_threads`, `s_pOnceMutex`, `s_once_mtx` | `hb_threadStart/Join/Detach/Wait/WaitForAll/QuitRequest/TerminateAll/Once/OnceInit` | waits on a mutex other than `s_vmMtx` while a stop is pending; items read without a lock | a join finds the result; a handle is not used when it is gone; a wait sees each end; actions run once and others wait for them |
| Workareas: `rdd/wacore.c`, `wafunc.c`, `workarea.c` | per thread `waList`, `waNums`, the current area, the number of each alias; shared `s_pDetachedAreas`, `s_waMtx`, `s_waCond` | open, close, select, `hb_rddDetachArea`, `hb_rddRequestArea`, the end of a thread and of the program | hand-over between threads with a timeout; two tables that index each other | an area has one owner; tables and aliases agree |
| Files opened twice: `rtl/filebuf.c` | `s_openFiles`; of an `HB_FILE` the mode, the handles and the sorted list of locked ranges | open, close, lock, unlock | `close()` drops the locks of the process; boundaries of ranges; three mutual exclusions at once (thread, list, system) | the list is the set of locked bytes and the system agrees |
| DBF driver: `rdd/dbf1.c` | of a workarea the record buffer and its flags, the lists of locks; the file and its header | lock, unlock, go to, read, change, append, flush, close | several processes; every access to the file is a step; writes that fail | no update or append is lost; locks are given back |
| Items, hashes, strings, classes, memvars, dynamic symbols: `vm/itemapi.c`, `hashes.c`, `classes.c`, `memvars.c`, `dynsym.c` | data structures of one thread, tables under one lock each | the usual ones | sequential | agreement with a reference definition |
| Compiler, preprocessor, macro compiler, code pages, terminals, debugger, `hbmk2`, contributed and vendored libraries | | | sequential or device I/O | not treated |

How they interact: a thread touches items only inside the VM; every blocking operation
(mutexes, files, sockets) is wrapped in `hb_vmUnlock()` / `hb_vmLock()`; the collector
calls `hb_vmSuspendThreads()` and marks while the others are outside; destructors are
opcodes again and may do anything; `hb_vmTerminateThreads()` sets a request, releases and
wakes Harbour mutexes, and waits for the number of stacks.

The hazards, each at its line with the properties that would notice it, are listed in
`PROJECT.json`.

## 2. Modules

| Module | Models |
|---|---|
| `HvmLock` | the thread control, and the part of `hb_gcCollectAll()` that drives it |
| `HbMutex` | one Harbour mutex with every operation on it |
| `ReentrantLock` | abstract specification of its lock, implemented by `HbMutex` |
| `ThreadApi` | waiting for, joining, detaching and quitting threads, `hb_threadOnce()` and `hb_threadOnceInit()`, composed with STOP and QUIT of the thread control and with the mutex of `hb_threadOnce()` |
| `GarbageCollector` | reference counts, destructors and mark and sweep of arrays and objects |
| `HvmShutdown` | termination: thread control and Harbour mutex composed at the level of native mutexes |
| `DetachedAreas` | the workareas of each thread and their way from one to another |
| `FileLocks` | one file opened several times by a process, and its locked ranges |
| `DbfLocks` | a table shared by workareas: locks, record buffers, appends and the header |
| `MC...` | the programs, bounds and symmetry sets TLC uses for the module of that name |
| `..._proofs` | the theorems about the module of that name, and their lemmas |

In most modules a constant (`Programs`, `Loads`, `Bounds`) holds several small programs
and a variable that never changes tells which one is run: one run then covers, for
example, one thread with many blocks and two threads with few.

A definition with an underscore, `X_Y`, is a broken variant of `X`. It is used by no
specification; putting it in the place of `X` must make one property fail, which shows
that the property notices that mistake.

### HvmLock

A section between `HB_VM_LOCK()` and `HB_VM_UNLOCK()` is one action; a
`hb_threadCondWait()` ends the action, and what follows the wait is an action of its own
for a thread that is not in `sleepers` any more (woken by `Broadcast`, or spuriously).
`s_vmMtx` is a variable because `hb_vmSuspendThreads()` returns with it locked.
`pc[t]` says where a thread is: `run` and `op` are the top of the opcode loop and the
body of an opcode, `unlocked` is C code between `hb_vmUnlock()` and `hb_vmLock()`, the
`..._wait` labels are the sleeps, the `x_...` labels are a foreign thread inside
`hb_vmRequestReenterExt()`. The opcode itself is abstract: what it does to items is in
`GarbageCollector`, what it does to mutexes in `HbMutex`.

Any thread can be asked to quit, the main thread too, while its stack is linked. The main
thread then leaves the main procedure and, as at a normal end, calls `hb_vmQuit()`: `VmQuit`
is its wait for the other threads, after which `hb_vmDoExitFunctions()` clears the request
and the EXIT procedures run. These are any opcodes, so the main thread goes on in the opcode
loop as before; what `hb_vmQuit()` releases behind them is not modelled. Worker threads are
slots that are reused, so that thread start, failure of `hb_threadCreate()`, end, and restart
all happen. Depths of `hb_vmUnlock()` and of
callbacks are bounded by `MaxUnlock` and `MaxReenter`.

### HbMutex and ReentrantLock

`mtx` is the `HB_MUTEX`; operators such as `Free`, `DropOwn`, `FinishSubscribe` are the
pieces of code that several functions share and map the structure to the structures it
may become. A section of `pMutex->mutex` is one action. Where the code releases the raw
mutex in the middle (to allocate or free an array of events) there are two. An event is
the number of its notification; the `bound` that was chosen limits their number and the
recursion. `held`, `first` and
`stale` are history: what callers were told.
`hb_threadMutexSyncWait()` is modelled as it is: `syncsignals` is tested and decremented
but never incremented in the repository, so only a timeout ends the wait.

`ReentrantLock` is the promise: acquire again while you have it, park all levels for a
wait, regain exactly those. The refinement maps `held` to `lock_count` of the owner and
`parked` to the saved levels.

### GarbageCollector

A block is an array or an object; the items of a block are the set of blocks they refer
to, strings and numbers do not matter. Hashes, codeblocks and pointers use the same
functions and differ in their clear and mark functions only. Each thread has the stack of
frames that `hb_gcRefFree()` and the clear functions build up: a destructor at the top
means that the thread runs program code inside a release or a collection. Mark and sweep
are one action because `StopTheWorld` of `HvmLock` holds; the destructors and the final
release follow step by step with the other threads running. `hb_gcAllocate()` and
`hb_gcGripGet()` are `AllocRaw` followed by `GcLock`. `keepDying` of a program says whether
destructors store references to what is being destroyed, the error the code protects
itself against. Its set of blocks bounds the memory, `maxLocked` the nesting of locks.

### HvmShutdown

The three native mutexes are variables, so that a thread may wait for one while it holds
another; `hb_vmLock()`, `hb_vmUnlock()` and `hb_vmLockForce()` are sections of `s_vmMtx`.
STOP and the running count are left to `HvmLock`. The main thread may own the Harbour
mutex at the end of the program or not.

### ThreadApi

The thread control is reduced to who has set STOP (`stop`) and to QUIT: `HvmLock` shows
that this is what the counters amount to. `pc[t]` says whether a thread is inside the VM:
a thread in `InVMPCs` is in C code that has not called `hb_vmUnlock()`, and a forced
suspension waits for it; one in `StopPCs` is at the top of an opcode and stops there.
`s_thread_mtx` is a variable because `hb_threadWait()` keeps it over `hb_vmLock()`.
An item is a type and a value: `hb_itemPutL()` stores the type first, `hb_itemSafeMove()`
stores it last, and the readers without a lock can come in between. What lies beside the
type of a variable that is NIL is what the variable held before (`stale`).
`hb_threadJoin()` and `hb_threadDetach()` test `th_h`, use it and clear it in steps of their
own, the first one outside the VM. `th_h` is the field, `handles` what the system knows: the
threads that are neither joined nor detached. A call on a handle that is gone is undefined in
POSIX; it is recorded in `misused` and fails or claims success. It may also end the process
or wait for a thread that was given the same handle: the first adds no state, the second is a
wait for a thread outside the model. `shared` records the threads that two such calls dealt
with at the same time. A quit request may go to any thread, to the caller and the main thread
as well. `action`, `first`, `early`, `misused` and `shared` are history. `budget` bounds the functions a thread calls,
`MaxCounted` the wake-ups of `s_thread_cond` without a reason.

### DetachedAreas

What a thread does to its own tables is one step; the list of detached areas is used under
`s_waMtx`, a step each time. Positions are those of the code (0 of `waList` is unused).
An area is opened with a fixed alias, and several may have the same one. A timeout may come
at any time. A quit request may go to any thread; the main thread's is cleared when the
others have ended (`ExitFunctions`), so that EXIT procedures may use areas. The record buffers
that `hb_dbDetach()` flushes are in `DbfLocks`.

### FileLocks

The operators from `FindOffset` to `Unlock` are the list of ranges, with sums that wrap at
`Limit` as those of `HB_FOFFSET` do at 2^63. A section of `s_lockMtx` is a step. Opening has
four: finding the `HB_FILE`, opening the handle and putting it in its place, the test of
`uiLocks`, and the close that follows it; the system may also refuse to open it, which
leaves the `HB_FILE` alone. Of the operating system only what POSIX says
about `fcntl()` locks is modelled: they exclude other processes, not the own one, and
`close()` of any handle drops them. Unlocking is done by who locked; the code does not
look at that. The build is the one without `HB_USE_SHARELOCKS`.

### DbfLocks

Every access to the file (reading or writing a record, the header, the size, a lock) is a
step of its own; `todo[a]` is the rest of the method that runs in area `a`, as a sequence of
such accesses, and a method that calls another puts its accesses before the rest. So the
order of the accesses is that of the code and any other area may come in between.
`Fail` is the return of `HB_FAILURE`: the rest is left but for the unlocking of the header.
A record's contents is the number of changes made to it, so that a lost update is a number
that is too small. `locked[a]` is the set of bytes that area `a` has locked. Crashes give
back the locks, as the operating system does, and lose the buffer. `ledger`, `appended`, `failures`, `crashes`, `unsafe` are history; `changes`,
`failures`, `crashes`, `maxRecords` of a load are the bounds. The lock schemes are those of
`hb_dbfLockData()`: forward, backward and at the records, at small offsets. `DbfAssumption`
says what of them is assumed: a lock of the file has at least one byte, and a table whose
locks are at its records has a header in front of them.

## 3. Runs

| Run | Instance | Shows |
|---|---|---|
| `HvmLock` | main, one worker slot, one foreign thread; two levels of unlock, one callback (1.5 M states) | all safety properties of the thread control |
| `HvmLock_live` | main and two workers | a forced suspension ends; `hb_vmTerminateThreads()` returns |
| `HvmLock_foreign` | main and a foreign thread | the suspension may hang (finding 1) |
| `HbMutex` | three threads with one level and one event; two with two levels and two events | belief and state of the lock agree, no stranded sleeper, fresh events; `ReentrantLock` is implemented |
| `HbMutex_notify` | two threads | the array of events may be missing (finding 2) |
| `GarbageCollector` | one thread with two arrays and an object; two threads with two objects; objects whose destructors keep what dies, with two levels of lock | memory safety, exact counts, completeness of a collection |
| `GarbageCollector_race` | two threads, three blocks | a freed block is read (finding 3) |
| `HvmShutdown` | main and two workers, two events | nobody is left behind; only two kinds of hang exist |
| `ThreadApi` | main, two workers and a foreign thread in six programs (0.4 M states) | no end of a thread is missed, a join finds the result unless overlapping calls used a handle that is gone, actions run once; collections and termination come through but for named situations |
| `DetachedAreas` | one thread with three areas; two threads with two areas, with one alias and with two (0.6 M states) | one owner per area, tables agree, no lost wake-up, nothing left open |
| `FileLocks` | two threads with every range of five offsets; two threads with every way to open and another process (0.2 M states) | the list is exact, the system agrees, locks are dropped only in the known races |
| `DbfLocks` | two areas in five loads: all kinds of locks, appends with failing writes, appends with crashes, header written at close, a crash after a write that failed (1.1 M states) | no lost update or append, fresh buffers, locks given back |

Why these bounds are enough to be interesting. In the thread control every conflict is
between the suspender, one that enters and one that ends; three threads give all three
roles, and the theorems below remove the bound for every safety property. Two levels of
unlock distinguish nested from outermost calls, and one callback reaches every branch of
reenter and restore. In the mutex, three threads give an owner, a sleeper and a
competitor for the same signal, which two cannot; recursion needs two levels and is
checked with two threads. In the collector, three blocks make a cycle with something
hanging off it. For threads that wait, two workers and the main thread give every cycle
of waits, and a waker between two sleepers; two calls per thread are needed for one that
returns and is repeated. In the lists of areas three entries have a first, a middle and a
last one. In the list of ranges five offsets hold three separate ranges with gaps that can
be joined on both sides, and the ends at which sums overflow. In the table, two areas give
the owner of a lock and a competitor, and three records an appended one between others;
more areas add competitors for the same byte only. Symmetry is used for threads of a
mutex, blocks that are interchangeable, clients of a file and areas of a table, which no
action tells apart, and only with safety properties (the action properties `CollectionIsComplete` and
`DropNeedsRace` included, which are conditions on single steps).

Deadlock is checked except in `HvmShutdown`, `ThreadApi` and `DetachedAreas`, where the
program ends, or threads that nobody wakes stay asleep; there the liveness properties say
which waits may last. In `DbfLocks` it is checked: two methods never wait for each other.

### Fairness

`HvmLock!Fairness` and `HvmShutdown!Fairness` assume that the operating system schedules
every thread that can run and hands out a native mutex that is released again and again,
that an opcode ends, that a system call outside the VM returns, and that a thread which
has taken a quit request unwinds, because the opcode loop tests the request after every
opcode. What the program chooses (to call, to collect, to end by itself) and spurious
wake-ups carry no fairness. In `HvmLock` strong fairness is used where a program can
disable the step by another call for a while (`EndOpcode`, `RequestRestore`), in
`HvmShutdown` for the competition for native mutexes. `ThreadApi` and `DetachedAreas`
assume weak fairness only: a thread inside a function of the runtime goes on when it can, a
time limit ends, and in `ThreadApi` a thread asked to quit leaves its function.

### Properties

`HvmLock`: `StopTheWorld` (the collector is alone and keeps `s_vmMtx`),
`RunningCountExact` and `StackCountExact` (the counters mean what they are used for),
`StopHasOneOwner` (nobody withdraws another thread's stop), `NoLostWakeup` (no sleep on
`s_vmCond` outlives its reason), `OneCollector` (collections do not overlap),
`QuitOnlyOnLiveStack` (a request is never stored on a stack that is not linked, and the one
of `hb_vmTerminateThreads()` is withdrawn before the main thread could take it), and the liveness properties `ForcedSuspendEnds` and
`TerminateReturns`.

`HbMutex`: `LockMatchesBelief` (who thinks he has the lock has it, as often as he thinks),
`QueueCountsExact`, `NobodyIsStranded` (nobody sleeps beside a free lock or an event),
`SubscribeNowIsFresh`, `ImplementsReentrantLock`.

`GarbageCollector`: `NoDanglingReference`, `NoUseAfterFree`, `RefCountExact`,
`CollectionIsComplete`.

`HvmShutdown`: `AloneAtEnd`, and `OnlyKnownHangs`: `hb_vmTerminateThreads()` returns, or
it is for ever in one of two situations the module defines.

`ThreadApi`: `NoLostWakeup` (nobody sleeps in `hb_threadWait()` after the threads he waits
for have ended and signalled), `JoinFindsResult` (who joins a thread finds its result, but for
`misused`; and a handle that is gone is used only by calls that overlap), `OnceIsKept` (at most one call of
`hb_threadOnce()` is the first, and the others return only when the action is complete),
`OnceInitIsFinal`, and the liveness of a forced suspension (`SuspensionEnds`) and of the
end of the program (`TerminateReturns`).

`DetachedAreas`: `AreasAreOwned` (an area is in one place, and closed in the end),
`TablesAndAliasesAgree`, `NoStrandedRequest`, `QuitEndsThread`.

`FileLocks`: `ListIsASet` (the list is the set of locked bytes, and the test of a range
agrees with it, whatever was locked and unlocked before), `HeldCanBeUnlocked`,
`PromisesHold` (a lock somebody was told he has is his own and is there, at the system too;
the handle allows what the file was opened for), `DropNeedsRace`.

`DbfLocks`: `LocksAreKept` (locks, flags and lists agree, and the header is given back
whatever fails), `BuffersAreProtected` (a buffer with changes is locked, a locked one is
fresh), `NoLostUpdate`, `AppendsAreDistinct`, `HeaderCounts`.

The type invariant of a module is checked in its run, by itself in `HvmLock` and as a part
of the first structural property elsewhere.

Several of these carry exceptions, and each exception is a definition with a name or a
variable of the history, so that the property says exactly when the code does not keep it;
section 4 lists them.

## 4. Findings

1. **A foreign thread blocks a forced suspension** (`HvmLock_foreign`).
   `hb_vmRequestReenterExt()` counts the thread as running before `hb_vmThreadInit()`,
   whose `hb_vmLock()` sleeps while STOP is set. A suspender that set STOP in between
   waits for the count, the foreign thread for STOP.
2. **Notification into a missing array** (`HbMutex_notify`). `hb_thredMutexEventInit()`
   releases the raw mutex a second time to free a surplus array and its caller uses
   `pMutex->events` without another test; `hb_mutexSubscribeNow()` may have taken it.
3. **Flag of a freed block** (`GarbageCollector_race`). Between the decrement in
   `hb_gcRefFree()` and the test of `HB_GC_DELETE` the thread that finalizes the deleted
   list can see a count of zero and free the block.

Situations that the properties name as exceptions. All but one (`UnsafeLock`) occur in the
runs; the property shows that nothing else breaks it.

* **Lock order at the end of the program** (`MutexesCrossed` in `HvmShutdown`).
  `hb_vmTerminateThreads()` takes `pMutex->mutex` inside `s_vmMtx`,
  `hb_threadMutexNotify()` the other way round. With an ending thread in between that
  holds `s_mutexlst_mtx` the main thread need not own the mutex.
* **A subscriber that is missed** (`SubscriberMissed`).
  `hb_threadMutexUnsubscribeAll()` reads `waiters` without the raw mutex, so a subscriber
  that has tested for a request and is about to sleep is not woken.
* **`hb_threadWait()` keeps `s_thread_mtx` in `hb_vmLock()`** (`WaitHoldsLock` in
  `ThreadApi`). Woken during a forced suspension it sleeps there; another thread that calls
  `hb_threadWait()` blocks on `s_thread_mtx` inside the VM; the suspender waits for it.
* **Nobody wakes `hb_threadWait()` and `hb_dbRequest()` at the end** (`WaitsForEver`,
  `QuitEndsThread`). Threads that wait for each other or join each other in a ring, or wait for
  the main thread, and requests without a limit keep `hb_vmTerminateThreads()` from returning.
* **A join or detach through a handle that is gone** (`misused` in `ThreadApi`).
  `hb_threadJoin()` tests `th_h`, leaves the VM, reads `th_h` again, and clears it before it
  enters the VM again (`vm/thread.c:1248`). Of two calls for one thread that overlap, the second
  may use a handle that was joined or detached, or the 0 that was stored. POSIX leaves the
  outcome open; if the call claims success, the caller finds no result.
* **A foreign thread ends without a signal** (`EndedUnsignalled`): only
  `hb_threadStartFunc()` signals `s_thread_cond`.
* **`hb_threadOnce()` can return early** (`"torn"` and `"cut"` in `early`). The control
  is read without a lock, and `hb_itemPutL()` stores the type before the value, so a variable
  that held .T. before it became NIL may be read as .T. while the action runs; and a thread
  that is asked to quit leaves the action but the control is set all the same.
* **A record whose write failed** (`UnsafeUnlock`, `UnsafeWrite`, `UnsafeEnd` in `DbfLocks`).
  The lock is given back although the change is still in the buffer; a later flush writes it
  over somebody else's. A record whose first write failed is added later without the append
  lock. It is then the header lock that keeps the record locked until another area that
  counted before has tried to lock it: two areas may add the same record if there is no
  header to write, or if the process ends while it waits for that lock.
* **More records than a lock of the file has bytes** (`UnsafeLock`): the lock of such a record
  is not among the bytes of a lock of the file, so that the two do not exclude each other. The
  tables of the run are too small for that; the proofs need it, because their tables are not.
* **Closing a handle while another thread locks** (`dropped` in `FileLocks`, marked FIXME in
  `rtl/filebuf.c`), and a file opened for reading and for writing separately (`mixed`): the
  second open asks for both but gets a handle for one.
* **A list with every offset locked** (`Overflowed`): the joined length overflows and
  nothing of it can be unlocked.
* **An alias used twice** (`dup` in `DetachedAreas`): `hb_dbRequest()` without an alias
  attaches an area whose alias the thread already uses; closing either clears the alias.

Also seen: error 1302 may be raised for items of an array whose destructors start a
collection although no destructor keeps anything; the note over `s_bCollecting` in
`hb_gcCollectAll()` says that it changes only while the others are stopped, but it is reset
after they are resumed (`OneCollector` holds all the same); the second test of
`s_bCollecting` there is never true.

## 5. Theorems

Each holds for any sets of threads, blocks or areas and any programs and bounds that
satisfy the assumption on the constants in the module (`ThreadsAssumption`,
`BoundsAssumption` and so on: finite sets, and values that are told apart). There is no
other assumption. In each module the safety properties are consequences of one inductive
invariant, a conjunction of named parts that TLC has checked on the instance of the run. In
the proof that a step preserves it each action is a case of its own.

### HvmLock_proofs

`TypeCorrect`, `RunningCountCorrect`, `StopTheWorldCorrect`, `StackCountCorrect`,
`StopOwnerCorrect`, `WakeupsCorrect`, `OneCollectorCorrect`, `QuitRequestCorrect`: every
invariant of the run. `QuitRequestCorrect` holds for requests to the main thread as well: its
stack is linked as long as the model runs, and QUIT is set only while it waits in
`hb_vmTerminateThreads()`.

`StopTheWorld` is not inductive: that nobody else is inside follows from the value of a
counter at the moment the suspender looked at it, and it stays so because everyone who
would enter needs the mutex the suspender keeps. `StopInv` says both: `ExclusiveMutex`
(`s_vmMtx` is kept between actions by exactly the thread that collects) and `ExclusiveCount`
(while it is kept the count is at most one). Given these, a second thread inside would make
the count two (`StopInvStops`). The bulk is `RunningCountExact`: `CountMove` says how the
cardinality of the threads in a set of labels changes when one thread moves, `Weights` gives
the contribution of each label (two for `x_in`), and `RunningGoto` and `RunningPair` apply it
to the steps of one and of two threads. `RequestInv` adds what the other properties need:
the main thread has a stack and only it sets QUIT, so who sleeps can tell from
the request alone what it waits for.

### HbMutex_proofs

`LockCorrect`, `QueueCountsCorrect`, `SignalsCorrect`, `SubscribeNowCorrect`, and
`Refinement`: `Spec => ImplementsReentrantLock`, every step of the mutex is a step of the
reentrant lock or leaves it alone.

The actions change the lock in seven ways only, and the queue of events in five. `Keeps`,
`Deepens`, `Takes`, `Queues`, `Frees`, `Parks` and `Returns` describe a step by its effect on
the lock; a lemma per action shows which it has, a lemma per effect that the parts of
`MutexInv` survive it, and the simulation of `ReentrantLock` follows the same effects.
`NobodyIsStranded` needs the counters (`QueueCountsExact`), and that whoever is asleep is
counted (`SleepersWait`). Freshness is an invariant of its own (`FreshInv`): no queued event
is older than a running `hb_mutexSubscribeNow()`, because the call empties the queue.

### ThreadApi_proofs

`JoinCorrect`, `WakeupsCorrect`, `OnceCorrect`, and the action property `OnceInitCorrect`,
with the exceptions that section 4 names (a handle that is gone, an end without a signal, a
torn read, an action cut short). For joins `ApiInv` adds what `th_h` has to do with the handles
of the system (`HandlesKept`: a field that leads to a handle that is gone is about to be cleared
by a call, and who has ended and was not joined still has its result), what a thread inside
such a call knows (`CallersKnow`), and that two calls for one thread are on record
(`OverlapsRecorded`). A call that follows another therefore finds `th_h` cleared, and a step
on a handle that is gone is one of two overlapping calls. `ApiInv` adds further that whoever sleeps in `hb_threadWait()` is counted (`SleepersCounted`), and for `hb_threadOnce()`
that the owner of its mutex is the thread with an action on its stack (`OwnerHasFrames`), that
the control tells how far the action is (`ControlTells`) and that nobody else is past the
mutex (`OthersAreStopped`).

### HvmShutdown_proofs

`TerminationCorrect`: when `hb_vmTerminateThreads()` has returned the main thread is alone and
no native mutex is kept. `ShutdownInv` says for each native mutex who has it, as a function of
where the threads are (`VmMutexIsMains`, `MutexHolder`, `ListHolder`), and that the counters
are exact.

### DetachedAreas_proofs

`AreasCorrect`, `TablesCorrect`, `RequestsCorrect`. What is hard here is the arithmetic of
the two tables: `waNums` has the position in `waList` of each number, `waList` the areas, and
insertion and removal renumber everything behind. The lemmas on `InsertAt`, `RemoveAt` and
`Renumber` show that `Agree` (of one thread's tables) is kept; since only one thread changes
its tables in a step, `AreaInv` follows thread by thread. `AreaInOnePlace` is what the tables
of different threads and the list of detached areas have to do with each other.

### GarbageCollector_proofs

`CollectionCorrect`: a collection is complete, for any number of threads. It needs only the
marks (`MarkInv`): a block that does not carry the current flag has `HB_GC_DELETE`
(`UnmarkedAreDying`), and a block with `HB_GC_DELETE` is on `s_pDeletedBlock` or in a clear
function on some stack (`DeletedAreDying`); what the mark phase reaches is the closure of its
roots.

`NoUseAfterFreeCorrect`, `NoDanglingCorrect` and `RefCountCorrect` say that the memory
of a program with one thread (`OneThread`) is safe whatever its destructors do. With two
threads it is not: the collector of one can free a block between the decrement and the
test of another (finding 3). The invariant `GcInv` describes the stack of functions that
destroy something. Only the one on top runs, and no two work on one block (`StackOK`);
each knows something of its block that those above it cannot change (`DyingOK`), and
what a collection has moved to `s_pDeletedBlock` is none of what was being destroyed
before (`FinalOK`). The property as stated, an exact counter, is not enough: once a
destructor has kept what was being destroyed the counter is no longer exact, and memory
must be safe even then. `Counted` says that it can then be too large, never too small,
so a counter of 0 still means that no reference is left; while nothing has been kept,
`DyingIsApart` keeps what is being destroyed apart from what the program can reach.

### FileLocks_proofs

`ListCorrect`, `UnlockCorrect`, `PromisesCorrect` and the action property `DropCorrect`, for
any number of clients, any width of the offsets (`Limit`) and any ranges that `fcntl()`
accepts. The first part is about the list alone. `FindOffset` is a recursive function; that
there is one which obeys its definition (`SearchExists`) and that it finds the position at
which a range belongs (`SearchFinds`) is shown by looking at a smallest window for which it
would not be so. `Top` is where an entry ends before the sum wraps, and `EntryIs` the only
place where wrapping is reasoned about: a sum is the limit or it does not wrap. Locking and
unlocking replace some neighbouring entries by none, one or two (`Spliced`), and `SpliceOK`
says once and for all what this does with the bytes and with the order of the list. So
`TestIs`, `SetLockIs`, `CanUnlockIs` and `UnlockIs` give each operation as one on sets of
bytes.

The second part needs no list any more. `FileInv` says that ranges in use are apart
(`UsesApart`), which is what makes an unlock take away no byte of somebody else; that the
system has the bytes of the ranges that are held, about to be unlocked or left behind by a
closed handle (`SystemInv`); that `used` counts the clients and `s_fileMtx` belongs to the one
that is opening the file (`UsersInv`); and how the modes of handle and file are related in the
middle of an open (`HandlesInv`). A list that overflowed is covered: `FullStays` shows that it
never changes again.

### DbfLocks_proofs

`LocksAreKeptAlways`, `BuffersAreProtectedAlways`, `NoLostUpdateAlways`,
`AppendsAreDistinctAlways` and `HeaderCountsAlways`, for any number of areas, any lock scheme,
any number of records, changes, failures and crashes; all follow from `InvHolds`. What is true
between two accesses to the file depends on the accesses a method has still to do, and these
are data here (`todo`). So the invariant `Inv` speaks of each step that is left: which step
must, and which must not, come before it (`StepsFit`). A step that unlocks record r has its
record in the list and is the only one that unlocks it (`UnlockFits`), a step that locks a
record is behind the release of a lock of the file and the other way round (`LockFits`), a
closed table keeps nothing (`CloseFits`), the header is locked at each step that counts,
writes or adds and is unlocked before it is locked again (`HeaderFits`), and a change is
written before the area goes elsewhere (`ChangeFits`). All of that is local: the lemmas
`RestFits` (a step is done), `StepKeeps` and `Spliced` (a method puts steps before the rest)
and `Passed` (steps with nothing to do are left out) show once that it is kept, and every step
and call is a use of them. With it the bytes that are locked are those the areas know of, and
no byte belongs to two locks of one area (`LocksApart`), so an unlock takes nothing else away.

`BuffersAreProtected` and the rest need what is in the buffers (`DataInv`): who has changes
has the record locked, and they are the contents of the file and what is not written
(`BufferFits`); an area that is about to add a record has the header locked and has counted
the records, and locks the next one (`AppendFits`). The last is where the exceptions of
section 4 come from. After a write that failed an area adds a record without the append lock,
so the count of another one may be out of date; but it then still has that record locked while
it waits for the header (`Late`), the other fails to lock it, and gives up. `HeaderInv` says
that, while nothing failed, somebody is about to write a header that is behind
(`HeaderPending`), and never one with fewer records than there are.

Each part of `Inv` holds in TLC on the instance of the run, where it was checked before it was
proved.

### Only model-checked

The liveness properties `ForcedSuspendEnds`, `TerminateReturns` (of `HvmLock` and of
`ThreadApi`), `SuspensionEnds`, `OnlyKnownHangs` and `QuitEndsThread`, because fairness is out
of the prover's reach, and that `DbfLocks` has no deadlock. Every invariant, every action
property on single steps and the refinement that the runs check are proved.

## 6. Not modelled

`hb_gcFree()` and `hb_gcReleaseAll()` (the end of the process), `hb_gcAttach()`, locking of
a block that is being destroyed (no caller was found), the other builds of the native layer
(Windows, OS/2, tasks) and of file locks (`HB_USE_SHARELOCKS`), tables opened exclusively,
memo files, PACK and ZAP, triggers, the header writes of the modes of `DB_SETHEADER` other
than the default (`dbf1.c:2068`, `2446`), a CLOSE that a PRECLOSE trigger refuses and that
leaves the area open (`wacore.c:242`, `dbf1.c:2989`), the error handlers that run when a
destructor has kept a block (errors 1301 and 1302, `garbage.c:293` and `698`: user code; of
the error only its effect on flags and counters is modelled), relations and filters, the
index drivers (B-trees larger than a useful model), hash tables and strings (sequential
data structures), the meaning of opcodes, the compiler family, devices, and vendored code.
`PROJECT.json` gives the reason for each component.

Some hazards of `PROJECT.json` are covered in part only. `LockAgain` of `HbMutex` is one step,
so the unlocked test and increment in `hb_threadMutexLock()` do not interleave. The race
between `hb_gcRefFree()` and the collector is shown by `GarbageCollector_race` and not by the
passing run. `DropNeedsRace` and `TablesAndAliasesAgree` exempt the race and the duplicate
alias they are about: they show that nothing else loses a lock, or breaks a table.

Most of the lines of the repository are vendored
libraries, tables of code pages and fonts, and sequential library functions: the models
cover a small part of the lines, the part in which the order of steps decides.

## 7. Plan

What is modelled is written so that it can be proved about: no module has a RECURSIVE
operator, and the safety properties of what is modelled are proved. What could be added:
the lock counters of the index drivers around the locks of `DbfLocks`, and the remote files
of `hbnetio`.
