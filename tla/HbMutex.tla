------------------------------ MODULE HbMutex ------------------------------
(***************************************************************************)
(* A Harbour mutex (HB_MUTEX of src/src/vm/thread.c): a recursive lock and *)
(* a queue of events on which threads wait.                                *)
(*                                                                         *)
(* mtx is the structure, with the threads asleep on its two conditions.    *)
(* A section between HB_CRITICAL_LOCK( pMutex->mutex ) and the release of  *)
(* that mutex, by HB_CRITICAL_UNLOCK() or by a wait on a condition, is one *)
(* action.  The operators of the first part are the pieces such a section  *)
(* is made of; they map the structure to the structures it may become.     *)
(*                                                                         *)
(* hb_vmLock() and hb_vmUnlock() around the sections are the subject of    *)
(* HvmLock and HvmShutdown and are left out here.                          *)
(*                                                                         *)
(* A definition X_Y is a broken variant of X: it stands for a mistake the  *)
(* properties must notice and is no part of the specification.             *)
(***************************************************************************)
EXTENDS Integers, Sequences, FiniteSets

CONSTANTS
    Threads,
    NoThread,    \* the owner of a free mutex
    NULL,        \* no array of events has been created
    Bounds       \* the bounds under which the threads run, see IsBound

\* Which threads run, how often one may lock the mutex again while it owns it,
\* and how many events are ever queued.
IsBound(b) == b.threads \subseteq Threads /\ b.lock \in Nat /\ b.events \in Nat

ASSUME MutexAssumption ==
    /\ IsFiniteSet(Threads) /\ NoThread \notin Threads
    /\ \A b \in Bounds : IsBound(b)

VARIABLES
    bound,      \* the bounds of this behaviour, chosen in Init
    mtx,        \* the HB_MUTEX
    syncCond,   \* threads asleep on a second mutex in hb_threadMutexSyncWait()
    pc,         \* what each thread is doing with the mutex
    saved,      \* lock_count: the levels given back by a thread that waits
    request,    \* the threads for which hb_vmRequestQuery() is not zero
    \* the rest is not in the code: it records what callers were told
    held,       \* successful hb_mutexLock() less hb_mutexUnlock()
    nextEvent,  \* number of the next event to be queued
    first,      \* nextEvent when a running hb_mutexSubscribeNow() began, or 0
    stale       \* hb_mutexSubscribeNow() returned an event older than the call

vars == <<bound, mtx, syncCond, pc, saved, request, held, nextEvent, first, stale>>
history == <<held, nextEvent, first, stale>>

LockWaitPCs == {"lock_wait", "tlock_wait", "relock_wait"}  \* on cond_l
SubWaitPCs  == {"sub_wait", "tsub_wait"}                   \* on cond_w
SyncPCs     == {"sync_wait", "tsync_wait"}                 \* on the other mutex
EventPCs    == {"ev_alloc", "ev_alloc_all", "ev_drop", "ev_drop_all"}
ClearPCs    == {"sub_clear", "tsub_clear"}                 \* the old events are freed

PCs == {"idle", "fault"} \cup LockWaitPCs \cup SubWaitPCs \cup SyncPCs \cup EventPCs \cup ClearPCs

\* In hb_thredMutexEventInit(), called for hb_mutexNotify() or, with all, for
\* hb_mutexNotifyAll(): an array is allocated, or the array is released again.
Allocating(all) == IF all THEN "ev_alloc_all" ELSE "ev_alloc"
Dropping(all)   == IF all THEN "ev_drop_all" ELSE "ev_drop"

\* The structure HB_MUTEX.
HB_MUTEX ==
    [lock_count : Nat, owner : Threads \cup {NoThread}, lockers : Nat, waiters : Nat,
     events : Seq(Nat) \cup {NULL}, cond_l : SUBSET Threads, cond_w : SUBSET Threads]

\* The type invariant.
TypeOK ==
    /\ bound \in Bounds
    /\ mtx \in HB_MUTEX
    /\ syncCond \in SUBSET Threads
    /\ pc \in [Threads -> PCs]
    /\ saved \in [Threads -> Nat]
    /\ request \in SUBSET Threads
    /\ held \in [Threads -> Nat] /\ first \in [Threads -> Nat]
    /\ nextEvent \in Nat /\ stale \in BOOLEAN

\* hb_threadMutexCreate()
Init ==
    /\ bound \in Bounds
    /\ mtx = [lock_count |-> 0, owner |-> NoThread, lockers |-> 0, waiters |-> 0,
              events |-> NULL, cond_l |-> {}, cond_w |-> {}]
    /\ syncCond = {}
    /\ pc = [t \in Threads |-> "idle"]
    /\ saved = [t \in Threads |-> 0]
    /\ request = {}
    /\ held = [t \in Threads |-> 0]
    /\ nextEvent = 1
    /\ first = [t \in Threads |-> 0]
    /\ stale = FALSE

-----------------------------------------------------------------------------
(* Pieces of sections.                                                     *)

Goto(t, l) == pc' = [pc EXCEPT ![t] = l]

\* HB_COND_SIGNAL(): one of the sleepers, if there is one, is woken.
Signal(S) == IF S = {} THEN {S} ELSE {S \ {u} : u \in S}

\* The mutex becomes free and a locker is told.
Free(m) ==
    LET wake == IF m.lockers > 0 THEN Signal(m.cond_l) ELSE {m.cond_l}
    IN  {[m EXCEPT !.lock_count = 0, !.owner = NoThread, !.cond_l = s] : s \in wake}

DropOwn_Always(m, t) == Free(m)

\* "release own lock from this mutex"
DropOwn(m, t) == IF m.owner = t THEN Free(m) ELSE {m}

Own(m, t, n) == [m EXCEPT !.lock_count = n, !.owner = t]

SleepL(m, t) == [m EXCEPT !.cond_l = @ \cup {t}]
SleepW(m, t) == [m EXCEPT !.cond_w = @ \cup {t}]

HasEvent(m) == m.events # NULL /\ m.events # <<>>

\* The loop of hb_threadMutexSubscribe() goes on waiting.
MustWait(m, t) == ~HasEvent(m) /\ t \notin request

\* What follows the wait for an event: the first event is taken off the queue,
\* then the thread's own lock is restored, for which it may have to wait.  e is
\* the first event that the call may return.
FinishSubscribe(m, t, n, e) ==
    LET taken == IF HasEvent(m) THEN [m EXCEPT !.events = Tail(@)] ELSE m IN
    /\ stale' = (stale \/ (HasEvent(m) /\ Head(m.events) < e))
    /\ first' = [first EXCEPT ![t] = 0]
    /\ UNCHANGED <<held, nextEvent>>
    /\ \/ /\ n = 0
          /\ mtx' = taken
          /\ saved' = [saved EXCEPT ![t] = 0]
          /\ Goto(t, "idle")
       \/ /\ n > 0 /\ taken.owner = NoThread
          /\ mtx' = Own(taken, t, n)
          /\ saved' = [saved EXCEPT ![t] = 0]
          /\ Goto(t, "idle")
       \/ /\ n > 0 /\ taken.owner # NoThread
          /\ mtx' = SleepL([taken EXCEPT !.lockers = @ + 1], t)
          /\ saved' = [saved EXCEPT ![t] = n]
          /\ Goto(t, "relock_wait")

-----------------------------------------------------------------------------
(* The lock.                                                               *)

\* hb_threadMutexLock(), hb_threadMutexTimedLock(): the owner only counts.
LockAgain(t) ==
    /\ pc[t] = "idle" /\ mtx.owner = t /\ mtx.lock_count < bound.lock
    /\ mtx' = [mtx EXCEPT !.lock_count = @ + 1]
    /\ held' = [held EXCEPT ![t] = @ + 1]
    /\ UNCHANGED <<syncCond, pc, saved, request, nextEvent, first, stale>>

Acquire(t, m) ==
    /\ mtx' = Own(m, t, 1)
    /\ held' = [held EXCEPT ![t] = @ + 1]
    /\ Goto(t, "idle")

\* hb_threadMutexLock(): wait on cond_l until lock_count is zero.
Lock(t) ==
    /\ pc[t] = "idle" /\ mtx.owner # t
    /\ \/ mtx.lock_count = 0 /\ Acquire(t, mtx)
       \/ /\ mtx.lock_count # 0
          /\ mtx' = SleepL([mtx EXCEPT !.lockers = @ + 1], t)
          /\ Goto(t, "lock_wait")
          /\ UNCHANGED held
    /\ UNCHANGED <<syncCond, saved, request, nextEvent, first, stale>>

\* lockers-- and ++ again when the lock is taken.
LockWoken(t) ==
    /\ pc[t] = "lock_wait" /\ t \notin mtx.cond_l
    /\ \/ mtx.lock_count = 0 /\ Acquire(t, [mtx EXCEPT !.lockers = @ - 1])
       \/ mtx.lock_count # 0 /\ mtx' = SleepL(mtx, t) /\ UNCHANGED <<pc, held>>
    /\ UNCHANGED <<syncCond, saved, request, nextEvent, first, stale>>

\* hb_threadMutexTimedLock() that does not get the lock at once (with a timeout
\* of zero it fails without a trace).
TimedLock(t) ==
    /\ pc[t] = "idle" /\ mtx.owner # t /\ mtx.lock_count # 0
    /\ mtx' = SleepL([mtx EXCEPT !.lockers = @ + 1], t)
    /\ Goto(t, "tlock_wait")
    /\ UNCHANGED <<syncCond, saved, request>> /\ UNCHANGED history

TimedLockWoken(t) ==
    /\ pc[t] = "tlock_wait" /\ t \notin mtx.cond_l
    /\ \/ mtx.lock_count = 0 /\ Acquire(t, [mtx EXCEPT !.lockers = @ - 1])
       \/ mtx.lock_count # 0 /\ mtx' = SleepL(mtx, t) /\ UNCHANGED <<pc, held>>
    /\ UNCHANGED <<syncCond, saved, request, nextEvent, first, stale>>

TimedLockTimeout_KeepsLocker(t) ==
    /\ pc[t] = "tlock_wait" /\ t \in mtx.cond_l /\ mtx.lock_count # 0
    /\ mtx' = [mtx EXCEPT !.cond_l = @ \ {t}]
    /\ Goto(t, "idle")
    /\ UNCHANGED <<syncCond, saved, request>> /\ UNCHANGED history

\* pthread_cond_timedwait() gives up; the lock is still taken if it is free.
TimedLockTimeout(t) ==
    /\ pc[t] = "tlock_wait" /\ t \in mtx.cond_l
    /\ LET m == [mtx EXCEPT !.lockers = @ - 1, !.cond_l = @ \ {t}] IN
       \/ m.lock_count = 0 /\ Acquire(t, m)
       \/ m.lock_count # 0 /\ mtx' = m /\ Goto(t, "idle") /\ UNCHANGED held
    /\ UNCHANGED <<syncCond, saved, request, nextEvent, first, stale>>

\* hb_threadMutexUnlock() by the owner; for any other thread it does nothing.
Unlock(t) ==
    /\ pc[t] = "idle" /\ mtx.owner = t
    /\ \/ mtx.lock_count > 1 /\ mtx' = [mtx EXCEPT !.lock_count = @ - 1]
       \/ mtx.lock_count = 1 /\ mtx' \in Free(mtx)
    /\ held' = [held EXCEPT ![t] = @ - 1]
    /\ UNCHANGED <<syncCond, pc, saved, request, nextEvent, first, stale>>

\* The thread ends: hb_threadMutexUnlockAll().  The slot becomes a new thread.
ThreadEnd(t) ==
    /\ pc[t] = "idle"
    /\ mtx' \in DropOwn(mtx, t)
    /\ held' = [held EXCEPT ![t] = 0]
    /\ request' = request \ {t}
    /\ UNCHANGED <<syncCond, pc, saved, nextEvent, first, stale>>

-----------------------------------------------------------------------------
(* Events.                                                                 *)

\* The sleepers on cond_w that remain when n events have been added.
Wake_OnlyOne(m, n) == IF m.waiters = 0 THEN {m.cond_w} ELSE Signal(m.cond_w)

Wake(m, n) ==
    IF m.waiters = 0 THEN {m.cond_w}
    ELSE IF n = 1 THEN Signal(m.cond_w) ELSE {{}}

\* The body of hb_threadMutexNotify() behind hb_thredMutexEventInit(): one
\* event for hb_mutexNotify(), as many as there are waiters without one for
\* hb_mutexNotifyAll().  A NULL array is used as if it were one: a fault.
NotifyBody(m, t, all) ==
    LET iCount == IF all THEN m.waiters - Len(m.events) ELSE 1 IN
    /\ \/ /\ m.events = NULL /\ (all => m.waiters > 0)
          /\ Goto(t, "fault")
          /\ mtx' = m /\ UNCHANGED nextEvent
       \/ /\ m.events # NULL /\ (all => m.waiters > Len(m.events))
          /\ \E s \in Wake(m, iCount) :
               mtx' = [m EXCEPT !.events = @ \o [i \in 1 .. iCount |-> nextEvent],
                                !.cond_w = s]
          /\ nextEvent' = nextEvent + 1
          /\ Goto(t, "idle")
       \/ /\ all
          /\ m.waiters = 0 \/ (m.events # NULL /\ m.waiters <= Len(m.events))
          /\ Goto(t, "idle")
          /\ mtx' = m /\ UNCHANGED nextEvent
    /\ UNCHANGED <<syncCond, saved, request, held, first, stale>>

\* hb_threadMutexNotify(): without an array of events one is allocated first,
\* for which the raw mutex is released.
Notify(t, all) ==
    /\ pc[t] = "idle" /\ nextEvent <= bound.events
    /\ all => mtx.waiters > 0
    /\ \/ mtx.events # NULL /\ NotifyBody(mtx, t, all)
       \/ /\ mtx.events = NULL
          /\ Goto(t, Allocating(all))
          /\ UNCHANGED <<mtx, syncCond, saved, request>> /\ UNCHANGED history

\* hb_thredMutexEventInit() has its array and takes the raw mutex again: it
\* stores the array, or another thread was faster ...
EventStore(t, all) ==
    /\ pc[t] = Allocating(all) /\ mtx.events = NULL
    /\ NotifyBody([mtx EXCEPT !.events = <<>>], t, all)

\* ... and the array is released, once more without the raw mutex.
EventDrop(t, all) ==
    /\ pc[t] = Allocating(all) /\ mtx.events # NULL
    /\ Goto(t, Dropping(all))
    /\ UNCHANGED <<mtx, syncCond, saved, request>> /\ UNCHANGED history

EventDropped(t, all) ==
    /\ pc[t] = Dropping(all)
    /\ NotifyBody(mtx, t, all)

\* hb_threadMutexSubscribe() from the release of the own lock on.
SubscribeBody(t, e) ==
    \E m \in DropOwn(mtx, t) :
       LET n == IF mtx.owner = t THEN mtx.lock_count ELSE 0 IN
       \/ /\ MustWait(m, t)
          /\ mtx' = SleepW([m EXCEPT !.waiters = @ + 1], t)
          /\ saved' = [saved EXCEPT ![t] = n]
          /\ Goto(t, "sub_wait")
          /\ first' = [first EXCEPT ![t] = e]
          /\ UNCHANGED <<held, nextEvent, stale>>
       \/ ~MustWait(m, t) /\ FinishSubscribe(m, t, n, e)

\* hb_threadMutexTimedSubscribe() likewise: a queued event is taken without
\* giving up the lock.  The loop looks at the request before it waits.
TimedSubscribeBody(t, e) ==
    \/ /\ HasEvent(mtx)
       /\ FinishSubscribe(mtx, t, 0, e)
    \/ /\ ~HasEvent(mtx)
       /\ FinishSubscribe(mtx, t, 0, e)          \* a timeout of zero
    \/ /\ ~HasEvent(mtx)
       /\ \E m \in DropOwn(mtx, t) :
            LET n == IF mtx.owner = t THEN mtx.lock_count ELSE 0 IN
            \/ /\ MustWait(m, t)
               /\ mtx' = SleepW([m EXCEPT !.waiters = @ + 1], t)
               /\ saved' = [saved EXCEPT ![t] = n]
               /\ Goto(t, "tsub_wait")
               /\ first' = [first EXCEPT ![t] = e]
               /\ UNCHANGED <<held, nextEvent, stale>>
            \/ ~MustWait(m, t) /\ FinishSubscribe(m, t, n, e)

\* "if( fClear && pMutex->events )"
MustClear_Never(m, fClear) == FALSE

MustClear(m, fClear) == fClear /\ m.events # NULL

\* hb_mutexSubscribe() and hb_mutexSubscribeNow(), which throws away the events
\* of the past (fClear) and frees them without the raw mutex.
Subscribe(t, fClear, timed) ==
    /\ pc[t] = "idle"
    /\ LET e == IF fClear THEN nextEvent ELSE 0 IN
       \/ /\ MustClear(mtx, fClear)
          /\ mtx' = [mtx EXCEPT !.events = NULL]
          /\ first' = [first EXCEPT ![t] = e]
          /\ Goto(t, IF timed THEN "tsub_clear" ELSE "sub_clear")
          /\ UNCHANGED <<saved, held, nextEvent, stale>>
       \/ /\ ~MustClear(mtx, fClear)
          /\ IF timed THEN TimedSubscribeBody(t, e) ELSE SubscribeBody(t, e)
    /\ UNCHANGED <<syncCond, request>>

SubscribeCleared(t) ==
    /\ \/ pc[t] = "sub_clear" /\ SubscribeBody(t, first[t])
       \/ pc[t] = "tsub_clear" /\ TimedSubscribeBody(t, first[t])
    /\ UNCHANGED <<syncCond, request>>

SubscribeWoken(t) ==
    /\ pc[t] = "sub_wait" /\ t \notin mtx.cond_w
    /\ \/ /\ MustWait(mtx, t)
          /\ mtx' = SleepW(mtx, t)
          /\ UNCHANGED <<saved, pc>> /\ UNCHANGED history
       \/ /\ ~MustWait(mtx, t)
          /\ FinishSubscribe([mtx EXCEPT !.waiters = @ - 1], t, saved[t], first[t])
    /\ UNCHANGED <<syncCond, request>>

TimedSubscribeWoken(t) ==
    /\ pc[t] = "tsub_wait" /\ t \notin mtx.cond_w
    /\ \/ /\ MustWait(mtx, t)
          /\ mtx' = SleepW(mtx, t)
          /\ UNCHANGED <<saved, pc>> /\ UNCHANGED history
       \/ /\ ~MustWait(mtx, t)
          /\ FinishSubscribe([mtx EXCEPT !.waiters = @ - 1], t, saved[t], first[t])
    /\ UNCHANGED <<syncCond, request>>

\* The timeout: an event that is there by now is still taken.
TimedSubscribeTimeout(t) ==
    /\ pc[t] = "tsub_wait" /\ t \in mtx.cond_w
    /\ FinishSubscribe([mtx EXCEPT !.waiters = @ - 1, !.cond_w = @ \ {t}], t, saved[t], first[t])
    /\ UNCHANGED <<syncCond, request>>

RelockWoken_OneLevel(t) ==
    /\ pc[t] = "relock_wait" /\ t \notin mtx.cond_l /\ mtx.lock_count = 0
    /\ mtx' = Own([mtx EXCEPT !.lockers = @ - 1], t, 1)
    /\ saved' = [saved EXCEPT ![t] = 0]
    /\ Goto(t, "idle")
    /\ UNCHANGED <<syncCond, request>> /\ UNCHANGED history

\* "restore the own lock on this mutex if necessary", after its wait.
RelockWoken(t) ==
    /\ pc[t] = "relock_wait" /\ t \notin mtx.cond_l
    /\ \/ /\ mtx.lock_count = 0
          /\ mtx' = Own([mtx EXCEPT !.lockers = @ - 1], t, saved[t])
          /\ saved' = [saved EXCEPT ![t] = 0]
          /\ Goto(t, "idle")
       \/ /\ mtx.lock_count # 0
          /\ mtx' = SleepL(mtx, t)
          /\ UNCHANGED <<saved, pc>>
    /\ UNCHANGED <<syncCond, request>> /\ UNCHANGED history

-----------------------------------------------------------------------------
(* hb_threadMutexSyncWait(): a synchronized method waits on a second mutex *)
(* and gives up the lock of its own (this) mutex meanwhile.  Nothing ever  *)
(* increments syncsignals, so a wait without a timeout does not return and *)
(* one with a timeout returns only when it expires.                        *)

SyncWait(t, timed) ==
    /\ pc[t] = "idle"
    /\ mtx' \in DropOwn(mtx, t)
    /\ saved' = [saved EXCEPT ![t] = IF mtx.owner = t THEN mtx.lock_count ELSE 0]
    /\ syncCond' = syncCond \cup {t}
    /\ Goto(t, IF timed THEN "tsync_wait" ELSE "sync_wait")
    /\ UNCHANGED request /\ UNCHANGED history

\* hb_threadMutexSyncSignal() wakes every waiter.
SyncSignal(t) ==
    /\ pc[t] = "idle"
    /\ syncCond' = {}
    /\ UNCHANGED <<mtx, pc, saved, request>> /\ UNCHANGED history

SyncWoken(t) ==
    /\ pc[t] \in SyncPCs /\ t \notin syncCond
    /\ syncCond' = syncCond \cup {t}
    /\ UNCHANGED <<mtx, pc, saved, request>> /\ UNCHANGED history

SyncTimeout(t) ==
    /\ pc[t] = "tsync_wait"
    /\ syncCond' = syncCond \ {t}
    /\ \/ saved[t] = 0 /\ Goto(t, "idle") /\ UNCHANGED <<mtx, saved>>
       \/ /\ saved[t] > 0 /\ mtx.owner = NoThread
          /\ mtx' = Own(mtx, t, saved[t])
          /\ saved' = [saved EXCEPT ![t] = 0]
          /\ Goto(t, "idle")
       \/ /\ saved[t] > 0 /\ mtx.owner # NoThread
          /\ mtx' = SleepL([mtx EXCEPT !.lockers = @ + 1], t)
          /\ Goto(t, "relock_wait")
          /\ UNCHANGED saved
    /\ UNCHANGED request /\ UNCHANGED history

-----------------------------------------------------------------------------
(* The outside world.                                                      *)

\* A quit request is pending for a thread (see HvmLock).
QuitRequest(t) ==
    /\ t \notin request
    /\ request' = request \cup {t}
    /\ UNCHANGED <<mtx, syncCond, pc, saved>> /\ UNCHANGED history

\* hb_threadMutexUnsubscribeAll()
UnsubscribeAll ==
    /\ request # {} /\ mtx.waiters > 0
    /\ mtx' = [mtx EXCEPT !.cond_w = {}]
    /\ UNCHANGED <<syncCond, pc, saved, request>> /\ UNCHANGED history

\* pthread_cond_wait() may return without a signal.
SpuriousWakeup(t) ==
    /\ t \in mtx.cond_l \cup mtx.cond_w \cup syncCond
    /\ mtx' = [mtx EXCEPT !.cond_l = @ \ {t}, !.cond_w = @ \ {t}]
    /\ syncCond' = syncCond \ {t}
    /\ UNCHANGED <<pc, saved, request>> /\ UNCHANGED history

ThreadNext(t) ==
    \/ LockAgain(t) \/ Lock(t) \/ LockWoken(t)
    \/ TimedLock(t) \/ TimedLockWoken(t) \/ TimedLockTimeout(t)
    \/ Unlock(t) \/ ThreadEnd(t)
    \/ \E all \in BOOLEAN :
         Notify(t, all) \/ EventStore(t, all) \/ EventDrop(t, all) \/ EventDropped(t, all)
    \/ \E fClear, timed \in BOOLEAN : Subscribe(t, fClear, timed)
    \/ SubscribeCleared(t) \/ SubscribeWoken(t)
    \/ TimedSubscribeWoken(t) \/ TimedSubscribeTimeout(t) \/ RelockWoken(t)
    \/ \E timed \in BOOLEAN : SyncWait(t, timed)
    \/ SyncSignal(t) \/ SyncWoken(t) \/ SyncTimeout(t)
    \/ QuitRequest(t) \/ SpuriousWakeup(t)

Next == ((\E t \in bound.threads : ThreadNext(t)) \/ UnsubscribeAll) /\ UNCHANGED bound

Spec == Init /\ [][Next]_vars

-----------------------------------------------------------------------------
(* Properties.                                                             *)

Waiting(t) == pc[t] \in LockWaitPCs \cup SubWaitPCs \cup SyncPCs

BeliefOf(t) ==
    IF Waiting(t)
      THEN mtx.owner # t /\ saved[t] = held[t]
      ELSE saved[t] = 0 /\ held[t] = (IF mtx.owner = t THEN mtx.lock_count ELSE 0)

\* The lock is where its callers believe it is: a thread that locked n times
\* more than it unlocked owns the mutex at depth n, unless it waits inside
\* hb_mutexSubscribe() or hb_threadMutexSyncWait(), and then it gave up exactly
\* n levels.  So two threads never hold the lock, and no level is lost.  The
\* types of the state are part of it.
LockMatchesBelief == TypeOK /\ \A t \in Threads : BeliefOf(t)

\* lockers and waiters, which decide whether a signal is sent at all, count the
\* threads that have not left their wait.
QueueCountsExact ==
    /\ mtx.lockers = Cardinality({t \in Threads : pc[t] \in LockWaitPCs})
    /\ mtx.waiters = Cardinality({t \in Threads : pc[t] \in SubWaitPCs})

\* The lock is never free while everyone who wants it sleeps: the signal of
\* hb_threadMutexUnlock() is not lost on a thread that gave up or ended.
NoStrandedLocker ==
    mtx.lock_count = 0 /\ mtx.cond_l # {} =>
        \E t \in Threads : pc[t] \in LockWaitPCs /\ t \notin mtx.cond_l

\* No subscriber sleeps beside an event meant for it: while one sleeps, each
\* queued event has an awake subscriber on its way to fetch it.
NoStrandedSubscriber ==
    mtx.cond_w # {} /\ HasEvent(mtx) =>
        Len(mtx.events) <=
            Cardinality({t \in Threads : pc[t] \in SubWaitPCs /\ t \notin mtx.cond_w})

\* No sleeper of the mutex is forgotten, neither for the lock nor for an event.
\* A thread that gives up a timed wait takes no signal with it.
NobodyIsStranded == NoStrandedLocker /\ NoStrandedSubscriber

\* The strengthening that makes the invariants above inductive: lock_count is
\* zero exactly while the mutex is free, a thread queued for the lock has levels
\* to restore exactly if it waits to restore them, and whoever sleeps on a
\* condition is counted.
OwnerIffLocked == mtx.owner = NoThread <=> mtx.lock_count = 0

RelockHasLevels ==
    \A t \in Threads : pc[t] \in LockWaitPCs => (pc[t] = "relock_wait" <=> saved[t] > 0)

SleepersWait ==
    /\ \A t \in mtx.cond_l : pc[t] \in LockWaitPCs
    /\ \A t \in mtx.cond_w : pc[t] \in SubWaitPCs

MutexInv ==
    /\ LockMatchesBelief /\ OwnerIffLocked /\ RelockHasLevels
    /\ QueueCountsExact /\ SleepersWait /\ NobodyIsStranded

\* hb_mutexSubscribeNow() returns no event that was queued before the call.
SubscribeNowIsFresh == ~stale

\* Why: no queued event is older than a running hb_mutexSubscribeNow().
EventsAreFresh ==
    /\ \A t \in Threads : first[t] <= nextEvent
    /\ mtx.events # NULL =>
         \A t \in Threads : \A i \in DOMAIN mtx.events : first[t] <= mtx.events[i]

FreshInv == TypeOK /\ EventsAreFresh /\ SubscribeNowIsFresh

\* hb_mutexNotify( <pMtx> [, <xVal>] ) works whatever other threads do with the
\* mutex: hb_threadMutexNotify() never adds to an array that is not there.
NotifyHasArray == \A t \in Threads : pc[t] # "fault"

\* The lock of the mutex implements a reentrant lock that is parked by waits.
RL == INSTANCE ReentrantLock
        WITH held <- [t \in Threads |-> IF mtx.owner = t THEN mtx.lock_count ELSE 0],
             parked <- saved

ImplementsReentrantLock == RL!Spec
=============================================================================
