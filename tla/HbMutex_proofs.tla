--------------------------- MODULE HbMutex_proofs ---------------------------
(***************************************************************************)
(* Proofs about HbMutex, for any finite set of threads and any bounds.     *)
(***************************************************************************)
EXTENDS HbMutex, FiniteSetTheorems, SequenceTheorems, TLAPS

\* The labels that the actions use.
LEMMA Labels ==
    /\ "idle" \in PCs /\ "fault" \in PCs /\ "lock_wait" \in PCs /\ "tlock_wait" \in PCs
    /\ "relock_wait" \in PCs /\ "sub_wait" \in PCs /\ "tsub_wait" \in PCs
    /\ "sync_wait" \in PCs /\ "tsync_wait" \in PCs /\ "sub_clear" \in PCs
    /\ "tsub_clear" \in PCs
    /\ \A all \in BOOLEAN : Allocating(all) \in EventPCs /\ Dropping(all) \in EventPCs
    /\ EventPCs \subseteq PCs
  BY DEF PCs, LockWaitPCs, SubWaitPCs, SyncPCs, EventPCs, ClearPCs, Allocating, Dropping

\* Only threads within the bounds take steps.
LEMMA BoundThreads == TypeOK => bound.threads \subseteq Threads
  BY MutexAssumption DEF TypeOK, IsBound

-----------------------------------------------------------------------------
(* The pieces of sections.                                                 *)

\* Giving the mutex up frees it, leaves the queues alone and, if somebody is
\* asleep and counted, wakes one.
LEMMA FreeProps ==
    ASSUME NEW m \in HB_MUTEX, NEW x \in Free(m)
    PROVE  /\ x \in HB_MUTEX
           /\ x.lock_count = 0 /\ x.owner = NoThread
           /\ x.lockers = m.lockers /\ x.waiters = m.waiters
           /\ x.events = m.events /\ x.cond_w = m.cond_w
           /\ x.cond_l \subseteq m.cond_l
           /\ m.lockers > 0 /\ m.cond_l # {} => x.cond_l # m.cond_l
<1> DEFINE wake == IF m.lockers > 0 THEN Signal(m.cond_l) ELSE {m.cond_l}
<1>1. PICK s \in wake :
        x = [m EXCEPT !.lock_count = 0, !.owner = NoThread, !.cond_l = s]
  BY DEF Free
<1>2. s \subseteq m.cond_l /\ (m.lockers > 0 /\ m.cond_l # {} => s # m.cond_l)
  BY <1>1 DEF Signal
<1>3. s \in SUBSET Threads
  BY <1>2 DEF HB_MUTEX
<1> QED
  BY <1>1, <1>2, <1>3 DEF HB_MUTEX

\* "release own lock from this mutex" frees the mutex of its owner only.
LEMMA DropOwnProps ==
    ASSUME NEW m \in HB_MUTEX, NEW t, NEW x \in DropOwn(m, t)
    PROVE  /\ x \in HB_MUTEX
           /\ x.lockers = m.lockers /\ x.waiters = m.waiters
           /\ x.events = m.events /\ x.cond_w = m.cond_w
           /\ x.cond_l \subseteq m.cond_l
           /\ m.owner = t => /\ x.lock_count = 0 /\ x.owner = NoThread
                             /\ m.lockers > 0 /\ m.cond_l # {} => x.cond_l # m.cond_l
           /\ m.owner # t => x = m
<1>1. CASE m.owner = t
  BY <1>1, FreeProps DEF DropOwn
<1>2. CASE m.owner # t
  BY <1>2 DEF DropOwn
<1> QED
  BY <1>1, <1>2

\* A thread that has to wait for the lock is counted and falls asleep on cond_l.
LEMMA QueueProps ==
    ASSUME NEW m \in HB_MUTEX, NEW t \in Threads
    PROVE  LET x == SleepL([m EXCEPT !.lockers = @ + 1], t) IN
           /\ x \in HB_MUTEX
           /\ x.lock_count = m.lock_count /\ x.owner = m.owner
           /\ x.lockers = m.lockers + 1 /\ x.waiters = m.waiters
           /\ x.events = m.events /\ x.cond_l = m.cond_l \cup {t} /\ x.cond_w = m.cond_w
<1> DEFINE y == [m EXCEPT !.lockers = @ + 1]
<1>1. /\ y \in HB_MUTEX /\ y.lock_count = m.lock_count /\ y.owner = m.owner
      /\ y.lockers = m.lockers + 1 /\ y.waiters = m.waiters
      /\ y.events = m.events /\ y.cond_l = m.cond_l /\ y.cond_w = m.cond_w
  BY DEF HB_MUTEX
<1> HIDE DEF y
<1>2. y.cond_l \cup {t} \in SUBSET Threads
  BY <1>1 DEF HB_MUTEX
<1> DEFINE x == [y EXCEPT !.cond_l = @ \cup {t}]
<1>3. /\ x \in HB_MUTEX /\ x.lock_count = y.lock_count /\ x.owner = y.owner
      /\ x.lockers = y.lockers /\ x.waiters = y.waiters
      /\ x.events = y.events /\ x.cond_l = y.cond_l \cup {t} /\ x.cond_w = y.cond_w
  BY <1>1, <1>2 DEF HB_MUTEX
<1> QED
  BY <1>1, <1>3 DEF SleepL, y

\* A thread that waits for an event is counted and falls asleep on cond_w.
LEMMA SubscribeProps ==
    ASSUME NEW m \in HB_MUTEX, NEW t \in Threads
    PROVE  LET x == SleepW([m EXCEPT !.waiters = @ + 1], t) IN
           /\ x \in HB_MUTEX
           /\ x.lock_count = m.lock_count /\ x.owner = m.owner
           /\ x.lockers = m.lockers /\ x.waiters = m.waiters + 1
           /\ x.events = m.events /\ x.cond_l = m.cond_l /\ x.cond_w = m.cond_w \cup {t}
<1> DEFINE y == [m EXCEPT !.waiters = @ + 1]
<1>1. /\ y \in HB_MUTEX /\ y.lock_count = m.lock_count /\ y.owner = m.owner
      /\ y.lockers = m.lockers /\ y.waiters = m.waiters + 1
      /\ y.events = m.events /\ y.cond_l = m.cond_l /\ y.cond_w = m.cond_w
  BY DEF HB_MUTEX
<1> HIDE DEF y
<1>2. y.cond_w \cup {t} \in SUBSET Threads
  BY <1>1 DEF HB_MUTEX
<1> DEFINE x == [y EXCEPT !.cond_w = @ \cup {t}]
<1>3. /\ x \in HB_MUTEX /\ x.lock_count = y.lock_count /\ x.owner = y.owner
      /\ x.lockers = y.lockers /\ x.waiters = y.waiters
      /\ x.events = y.events /\ x.cond_l = y.cond_l /\ x.cond_w = y.cond_w \cup {t}
  BY <1>1, <1>2 DEF HB_MUTEX
<1> QED
  BY <1>1, <1>3 DEF SleepW, y

\* The queue without the event that a subscriber takes.
Taken(m) == IF HasEvent(m) THEN [m EXCEPT !.events = Tail(@)] ELSE m

\* Taking an event changes the queue of events and nothing else.
LEMMA TakenProps ==
    ASSUME NEW m \in HB_MUTEX
    PROVE  /\ Taken(m) \in HB_MUTEX
           /\ Taken(m).lock_count = m.lock_count /\ Taken(m).owner = m.owner
           /\ Taken(m).lockers = m.lockers /\ Taken(m).waiters = m.waiters
           /\ Taken(m).cond_l = m.cond_l /\ Taken(m).cond_w = m.cond_w
           /\ HasEvent(m) => /\ m.events \in Seq(Nat) /\ Taken(m).events = Tail(m.events)
                             /\ Tail(m.events) \in Seq(Nat)
           /\ ~HasEvent(m) => Taken(m) = m
<1>1. CASE HasEvent(m)
  <2>1. m.events \in Seq(Nat) /\ m.events # <<>>
    BY <1>1 DEF HasEvent, HB_MUTEX
  <2>2. Tail(m.events) \in Seq(Nat)
    BY <2>1, HeadTailProperties
  <2> QED BY <1>1, <2>1, <2>2 DEF Taken, HB_MUTEX
<1>2. CASE ~HasEvent(m)
  BY <1>2 DEF Taken
<1> QED
  BY <1>1, <1>2

\* How a wait for an event ends: the thread has nothing to restore, or finds the
\* mutex free and restores its lock, or queues for it.
LEMMA FinishProps ==
    ASSUME NEW m \in HB_MUTEX, NEW t \in Threads, NEW n \in Nat, NEW e,
           FinishSubscribe(m, t, n, e)
    PROVE  /\ mtx' \in HB_MUTEX
           /\ mtx'.waiters = m.waiters /\ mtx'.cond_w = m.cond_w
           /\ mtx'.events = Taken(m).events
           /\ UNCHANGED <<held, nextEvent>>
           /\ first' = [first EXCEPT ![t] = 0]
           /\ stale' = (stale \/ (HasEvent(m) /\ Head(m.events) < e))
           /\ \/ /\ n = 0
                 /\ mtx'.lock_count = m.lock_count /\ mtx'.owner = m.owner
                 /\ mtx'.lockers = m.lockers /\ mtx'.cond_l = m.cond_l
                 /\ saved' = [saved EXCEPT ![t] = 0] /\ Goto(t, "idle")
              \/ /\ n > 0 /\ m.owner = NoThread
                 /\ mtx'.lock_count = n /\ mtx'.owner = t
                 /\ mtx'.lockers = m.lockers /\ mtx'.cond_l = m.cond_l
                 /\ saved' = [saved EXCEPT ![t] = 0] /\ Goto(t, "idle")
              \/ /\ n > 0 /\ m.owner # NoThread
                 /\ mtx'.lock_count = m.lock_count /\ mtx'.owner = m.owner
                 /\ mtx'.lockers = m.lockers + 1 /\ mtx'.cond_l = m.cond_l \cup {t}
                 /\ saved' = [saved EXCEPT ![t] = n] /\ Goto(t, "relock_wait")
<1> DEFINE k == Taken(m)
<1>1. /\ k \in HB_MUTEX /\ k.lock_count = m.lock_count /\ k.owner = m.owner
      /\ k.lockers = m.lockers /\ k.waiters = m.waiters
      /\ k.cond_l = m.cond_l /\ k.cond_w = m.cond_w
  BY TakenProps
<1>2. /\ stale' = (stale \/ (HasEvent(m) /\ Head(m.events) < e))
      /\ first' = [first EXCEPT ![t] = 0]
      /\ UNCHANGED <<held, nextEvent>>
  BY DEF FinishSubscribe
<1>3. \/ /\ n = 0 /\ mtx' = k
         /\ saved' = [saved EXCEPT ![t] = 0] /\ Goto(t, "idle")
      \/ /\ n > 0 /\ k.owner = NoThread /\ mtx' = Own(k, t, n)
         /\ saved' = [saved EXCEPT ![t] = 0] /\ Goto(t, "idle")
      \/ /\ n > 0 /\ k.owner # NoThread
         /\ mtx' = SleepL([k EXCEPT !.lockers = @ + 1], t)
         /\ saved' = [saved EXCEPT ![t] = n] /\ Goto(t, "relock_wait")
  BY DEF FinishSubscribe, Taken
<1> HIDE DEF k
<1>4. CASE n = 0 /\ mtx' = k /\ saved' = [saved EXCEPT ![t] = 0] /\ Goto(t, "idle")
  BY <1>1, <1>2, <1>4 DEF k
<1>5. CASE /\ n > 0 /\ k.owner = NoThread /\ mtx' = Own(k, t, n)
           /\ saved' = [saved EXCEPT ![t] = 0] /\ Goto(t, "idle")
  <2>1. /\ mtx' \in HB_MUTEX /\ mtx'.waiters = k.waiters /\ mtx'.cond_w = k.cond_w
        /\ mtx'.events = k.events /\ mtx'.lock_count = n /\ mtx'.owner = t
        /\ mtx'.lockers = k.lockers /\ mtx'.cond_l = k.cond_l
    BY <1>1, <1>5 DEF HB_MUTEX, Own
  <2> QED BY <1>1, <1>2, <1>5, <2>1 DEF k
<1>6. CASE /\ n > 0 /\ k.owner # NoThread
           /\ mtx' = SleepL([k EXCEPT !.lockers = @ + 1], t)
           /\ saved' = [saved EXCEPT ![t] = n] /\ Goto(t, "relock_wait")
  <2>1. /\ mtx' \in HB_MUTEX /\ mtx'.waiters = k.waiters /\ mtx'.cond_w = k.cond_w
        /\ mtx'.events = k.events /\ mtx'.lock_count = k.lock_count
        /\ mtx'.owner = k.owner /\ mtx'.lockers = k.lockers + 1
        /\ mtx'.cond_l = k.cond_l \cup {t}
    BY <1>1, <1>6, QueueProps
  <2> QED BY <1>1, <1>2, <1>6, <2>1 DEF k
<1> QED
  BY <1>3, <1>4, <1>5, <1>6

-----------------------------------------------------------------------------
(* What a section does to the lock.  Every action of the mutex is, for the *)
(* lock and its queue, one of the following.                               *)

WaitPCs == LockWaitPCs \cup SubWaitPCs \cup SyncPCs

\* The lock changes hands neither in fact nor in anybody's belief.
Keeps ==
    /\ mtx'.lock_count = mtx.lock_count /\ mtx'.owner = mtx.owner
    /\ mtx'.lockers = mtx.lockers /\ mtx'.cond_l \subseteq mtx.cond_l
    /\ UNCHANGED <<saved, held>>
    /\ \A u \in Threads : pc'[u] = pc[u] \/ (pc[u] \notin WaitPCs /\ pc'[u] \notin WaitPCs)

\* The owner locks once more, or unlocks one of several levels.
Deepens(t) ==
    /\ pc[t] \notin WaitPCs /\ UNCHANGED <<pc, saved>>
    /\ mtx.owner = t /\ mtx'.owner = t
    /\ mtx'.lockers = mtx.lockers /\ mtx'.cond_l = mtx.cond_l
    /\ \/ /\ mtx'.lock_count = mtx.lock_count + 1 /\ held' = [held EXCEPT ![t] = @ + 1]
       \/ /\ mtx.lock_count > 1
          /\ mtx'.lock_count = mtx.lock_count - 1 /\ held' = [held EXCEPT ![t] = @ - 1]

\* A thread gets the free lock, at once or from the queue.
Takes(t) ==
    /\ mtx.lock_count = 0
    /\ mtx'.owner = t /\ mtx'.lock_count = 1 /\ mtx'.cond_l = mtx.cond_l \ {t}
    /\ \/ pc[t] = "idle" /\ mtx'.lockers = mtx.lockers /\ mtx'.cond_l = mtx.cond_l
       \/ /\ pc[t] \in {"lock_wait", "tlock_wait"} /\ mtx'.lockers = mtx.lockers - 1
    /\ held' = [held EXCEPT ![t] = @ + 1] /\ UNCHANGED saved
    /\ Goto(t, "idle")

\* A thread queues for the lock, sleeps on in the queue, or gives up.
Queues(t) ==
    /\ mtx.owner # t /\ mtx.lock_count # 0
    /\ mtx'.lock_count = mtx.lock_count /\ mtx'.owner = mtx.owner
    /\ UNCHANGED <<saved, held>>
    /\ \/ /\ pc[t] = "idle" /\ (Goto(t, "lock_wait") \/ Goto(t, "tlock_wait"))
          /\ mtx'.lockers = mtx.lockers + 1 /\ mtx'.cond_l = mtx.cond_l \cup {t}
       \/ /\ pc[t] \in LockWaitPCs /\ UNCHANGED pc
          /\ mtx'.lockers = mtx.lockers /\ mtx'.cond_l = mtx.cond_l \cup {t}
       \/ /\ pc[t] = "tlock_wait" /\ Goto(t, "idle")
          /\ mtx'.lockers = mtx.lockers - 1 /\ mtx'.cond_l = mtx.cond_l \ {t}

\* The mutex of t becomes free and, if somebody is queued, one is woken.
Freed(t) ==
    /\ mtx.owner = t /\ mtx'.owner = NoThread /\ mtx'.lock_count = 0
    /\ mtx'.lockers = mtx.lockers /\ mtx'.cond_l \subseteq mtx.cond_l
    /\ mtx.lockers > 0 /\ mtx.cond_l # {} => mtx'.cond_l # mtx.cond_l

\* The owner gives up its last level, or ends.
Frees(t) ==
    /\ pc[t] \notin WaitPCs /\ UNCHANGED <<pc, saved>>
    /\ Freed(t)
    /\ held' = [held EXCEPT ![t] = 0]

\* A thread starts to wait for an event or a signal and sets its levels aside.
Parks(t) ==
    /\ pc[t] \notin WaitPCs
    /\ pc' \in {[pc EXCEPT ![t] = l] : l \in SubWaitPCs \cup SyncPCs}
    /\ UNCHANGED held
    /\ \/ Freed(t) /\ saved' = [saved EXCEPT ![t] = mtx.lock_count]
       \/ /\ mtx.owner # t /\ saved' = [saved EXCEPT ![t] = 0]
          /\ mtx'.lock_count = mtx.lock_count /\ mtx'.owner = mtx.owner
          /\ mtx'.lockers = mtx.lockers /\ mtx'.cond_l = mtx.cond_l

\* A wait ends: there is nothing to restore, or the levels are restored, at
\* once or from the queue, or the thread queues for them.
Returns(t) ==
    /\ UNCHANGED held
    /\ \/ /\ pc[t] \in SubWaitPCs \cup SyncPCs /\ saved[t] = 0
          /\ mtx'.lock_count = mtx.lock_count /\ mtx'.owner = mtx.owner
          /\ mtx'.lockers = mtx.lockers /\ mtx'.cond_l = mtx.cond_l
          /\ saved' = [saved EXCEPT ![t] = 0] /\ Goto(t, "idle")
       \/ /\ saved[t] > 0 /\ mtx.owner = NoThread
          /\ mtx'.owner = t /\ mtx'.lock_count = saved[t]
          /\ \/ pc[t] \in SubWaitPCs \cup SyncPCs /\ mtx'.lockers = mtx.lockers
                /\ mtx'.cond_l = mtx.cond_l
             \/ pc[t] = "relock_wait" /\ mtx'.lockers = mtx.lockers - 1
                /\ mtx'.cond_l = mtx.cond_l \ {t}
          /\ saved' = [saved EXCEPT ![t] = 0] /\ Goto(t, "idle")
       \/ /\ saved[t] > 0 /\ mtx.owner # NoThread
          /\ pc[t] \in SubWaitPCs \cup SyncPCs
          /\ mtx'.lock_count = mtx.lock_count /\ mtx'.owner = mtx.owner
          /\ mtx'.lockers = mtx.lockers + 1 /\ mtx'.cond_l = mtx.cond_l \cup {t}
          /\ UNCHANGED saved /\ Goto(t, "relock_wait")

LockEffect ==
    \/ Keeps
    \/ \E t \in Threads : \/ Deepens(t) \/ Takes(t) \/ Queues(t)
                          \/ Frees(t) \/ Parks(t) \/ Returns(t)

\* What the invariants of the lock have in common.
LockInv ==
    /\ LockMatchesBelief /\ OwnerIffLocked /\ RelockHasLevels
    /\ QueueCountsExact /\ SleepersWait

\* A thread in a queue is counted, so lockers-- and waiters-- stay above zero.
LEMMA Counted ==
    ASSUME TypeOK, QueueCountsExact, NEW t \in Threads
    PROVE  /\ pc[t] \in LockWaitPCs => mtx.lockers - 1 \in Nat
           /\ pc[t] \in SubWaitPCs => mtx.waiters - 1 \in Nat
<1> DEFINE L == {u \in Threads : pc[u] \in LockWaitPCs}
           W == {u \in Threads : pc[u] \in SubWaitPCs}
<1>1. IsFiniteSet(L) /\ IsFiniteSet(W)
  BY FS_Subset, MutexAssumption
<1>2. Cardinality(L) \in Nat /\ Cardinality(W) \in Nat
  BY <1>1, FS_CardinalityType
<1>3. (L # {} => Cardinality(L) # 0) /\ (W # {} => Cardinality(W) # 0)
  BY <1>1, FS_EmptySet
<1> QED
  BY <1>2, <1>3 DEF QueueCountsExact

\* What ends in FinishSubscribe does to the lock what a wait that returns does, or
\* nothing when the thread has not waited.
LEMMA SubscribeEffect ==
    ASSUME LockInv, NEW t \in Threads, NEW e, pc[t] \in {"idle", "sub_clear", "tsub_clear"},
           SubscribeBody(t, e) \/ TimedSubscribeBody(t, e)
    PROVE  mtx' \in HB_MUTEX /\ pc' \in [Threads -> PCs] /\ LockEffect
<1> DEFINE n == IF mtx.owner = t THEN mtx.lock_count ELSE 0
<1>1. /\ mtx \in HB_MUTEX /\ n \in Nat /\ pc \in [Threads -> PCs] /\ saved \in [Threads -> Nat]
      /\ NoThread \notin Threads
  BY MutexAssumption DEF LockInv, LockMatchesBelief, TypeOK, HB_MUTEX
<1>2. pc[t] \notin WaitPCs
  BY DEF WaitPCs, LockWaitPCs, SubWaitPCs, SyncPCs
<1>3. saved[t] = 0
  BY <1>2 DEF LockInv, LockMatchesBelief, BeliefOf, Waiting, WaitPCs
<1>4. mtx.owner = t => mtx.lock_count > 0
  BY <1>1 DEF LockInv, OwnerIffLocked, HB_MUTEX
<1>5. ASSUME NEW m \in DropOwn(mtx, t), NEW l \in SubWaitPCs,
             mtx' = SleepW([m EXCEPT !.waiters = @ + 1], t),
             saved' = [saved EXCEPT ![t] = n], Goto(t, l), UNCHANGED held
      PROVE  mtx' \in HB_MUTEX /\ pc' \in [Threads -> PCs] /\ LockEffect
  <2>1. m \in HB_MUTEX /\ m.lockers = mtx.lockers /\ m.cond_l \subseteq mtx.cond_l
    BY <1>1, DropOwnProps
  <2>2. /\ mtx' \in HB_MUTEX /\ mtx'.lock_count = m.lock_count /\ mtx'.owner = m.owner
        /\ mtx'.lockers = m.lockers /\ mtx'.cond_l = m.cond_l
    BY <1>5, <2>1, SubscribeProps
  <2>3. pc' \in [Threads -> PCs] /\ pc' = [pc EXCEPT ![t] = l]
    BY <1>1, <1>5 DEF Goto, PCs
  <2>4. CASE mtx.owner = t
    <3>1. Freed(t)
      BY <1>1, <2>1, <2>2, <2>4, DropOwnProps DEF Freed
    <3>2. Parks(t)
      BY <1>2, <1>5, <2>3, <2>4, <3>1 DEF Parks
    <3> QED BY <2>2, <2>3, <3>2 DEF LockEffect
  <2>5. CASE mtx.owner # t
    <3>1. m = mtx
      BY <1>1, <2>5, DropOwnProps
    <3>2. Parks(t)
      BY <1>2, <1>5, <2>2, <2>3, <2>5, <3>1 DEF Parks
    <3> QED BY <2>2, <2>3, <3>2 DEF LockEffect
  <2> QED BY <2>4, <2>5
<1>6. ASSUME NEW m \in DropOwn(mtx, t), FinishSubscribe(m, t, n, e)
      PROVE  mtx' \in HB_MUTEX /\ pc' \in [Threads -> PCs] /\ LockEffect
  <2>1. /\ m \in HB_MUTEX /\ m.lockers = mtx.lockers /\ m.cond_l \subseteq mtx.cond_l
        /\ mtx.owner = t => m.lock_count = 0 /\ m.owner = NoThread
        /\ mtx.owner # t => m = mtx
    BY <1>1, DropOwnProps
  <2>2. /\ mtx' \in HB_MUTEX /\ UNCHANGED held
        /\ saved' = [saved EXCEPT ![t] = 0] /\ Goto(t, "idle")
        /\ mtx'.lockers = m.lockers /\ mtx'.cond_l = m.cond_l
        /\ \/ n = 0 /\ mtx'.lock_count = m.lock_count /\ mtx'.owner = m.owner
           \/ n > 0 /\ mtx'.lock_count = n /\ mtx'.owner = t
    BY <1>1, <1>4, <1>6, <2>1, FinishProps
  <2>3. pc' \in [Threads -> PCs] /\ saved' = saved
    BY <1>1, <1>3, <2>2, Labels DEF Goto
  <2>4. mtx'.lock_count = mtx.lock_count /\ mtx'.owner = mtx.owner
    BY <1>1, <1>4, <2>1, <2>2
  <2>5. \A u \in Threads : pc'[u] = pc[u] \/ (pc[u] \notin WaitPCs /\ pc'[u] \notin WaitPCs)
    BY <1>1, <1>2, <2>2 DEF Goto, WaitPCs, LockWaitPCs, SubWaitPCs, SyncPCs
  <2>6. Keeps
    BY <2>1, <2>2, <2>3, <2>4, <2>5 DEF Keeps
  <2> QED BY <2>2, <2>3, <2>6 DEF LockEffect
<1>7. ASSUME FinishSubscribe(mtx, t, 0, e)
      PROVE  mtx' \in HB_MUTEX /\ pc' \in [Threads -> PCs] /\ LockEffect
  <2>1. /\ mtx' \in HB_MUTEX /\ UNCHANGED held
        /\ saved' = [saved EXCEPT ![t] = 0] /\ Goto(t, "idle")
        /\ mtx'.lockers = mtx.lockers /\ mtx'.cond_l = mtx.cond_l
        /\ mtx'.lock_count = mtx.lock_count /\ mtx'.owner = mtx.owner
    BY <1>1, <1>7, FinishProps
  <2>2. pc' \in [Threads -> PCs] /\ saved' = saved
    BY <1>1, <1>3, <2>1, Labels DEF Goto
  <2>3. \A u \in Threads : pc'[u] = pc[u] \/ (pc[u] \notin WaitPCs /\ pc'[u] \notin WaitPCs)
    BY <1>1, <1>2, <2>1 DEF Goto, WaitPCs, LockWaitPCs, SubWaitPCs, SyncPCs
  <2>4. Keeps
    BY <2>1, <2>2, <2>3 DEF Keeps
  <2> QED BY <2>1, <2>2, <2>4 DEF LockEffect
<1>8. CASE SubscribeBody(t, e)
  BY <1>5, <1>6, <1>8 DEF SubscribeBody, SubWaitPCs
<1>9. CASE TimedSubscribeBody(t, e)
  BY <1>5, <1>6, <1>7, <1>9 DEF TimedSubscribeBody, SubWaitPCs
<1> QED
  BY <1>8, <1>9

\* A subscriber that has waited.
LEMMA ReturnEffect ==
    ASSUME LockInv, NEW t \in Threads, NEW m \in HB_MUTEX, NEW e, pc[t] \in SubWaitPCs,
           m.lock_count = mtx.lock_count, m.owner = mtx.owner, m.lockers = mtx.lockers,
           m.cond_l = mtx.cond_l, FinishSubscribe(m, t, saved[t], e)
    PROVE  mtx' \in HB_MUTEX /\ pc' \in [Threads -> PCs] /\ LockEffect
<1>1. pc \in [Threads -> PCs] /\ saved \in [Threads -> Nat]
  BY DEF LockInv, LockMatchesBelief, TypeOK
<1>2. mtx' \in HB_MUTEX
  BY <1>1, FinishProps
<1>3. pc' \in [Threads -> PCs]
  BY <1>1, FinishProps, Labels DEF Goto
<1>4. Returns(t)
  BY <1>1, FinishProps DEF Returns
<1> QED
  BY <1>2, <1>3, <1>4 DEF LockEffect

\* The body of hb_threadMutexNotify() does nothing to the lock.
LEMMA NotifyEffect ==
    ASSUME LockInv, NEW t \in Threads, NEW all \in BOOLEAN, NEW m \in HB_MUTEX,
           pc[t] \notin WaitPCs, nextEvent \in Nat,
           m.lock_count = mtx.lock_count, m.owner = mtx.owner, m.lockers = mtx.lockers,
           m.cond_l = mtx.cond_l, NotifyBody(m, t, all)
    PROVE  mtx' \in HB_MUTEX /\ pc' \in [Threads -> PCs] /\ LockEffect
<1> DEFINE iCount == IF all THEN m.waiters - Len(m.events) ELSE 1
           added == [i \in 1 .. iCount |-> nextEvent]
<1>1. pc \in [Threads -> PCs] /\ UNCHANGED <<saved, held>>
  BY DEF LockInv, LockMatchesBelief, TypeOK, NotifyBody
<1>2. /\ pc' = [pc EXCEPT ![t] = "fault"] \/ pc' = [pc EXCEPT ![t] = "idle"]
      /\ \/ mtx' = m
         \/ /\ m.events # NULL /\ (all => m.waiters > Len(m.events))
            /\ \E s \in Wake(m, iCount) :
                 mtx' = [m EXCEPT !.events = @ \o added, !.cond_w = s]
  BY DEF NotifyBody, Goto
<1>3. /\ mtx' \in HB_MUTEX /\ mtx'.lock_count = m.lock_count /\ mtx'.owner = m.owner
      /\ mtx'.lockers = m.lockers /\ mtx'.cond_l = m.cond_l
  <2>1. CASE mtx' = m
    BY <2>1
  <2>2. CASE /\ m.events # NULL /\ (all => m.waiters > Len(m.events))
             /\ \E s \in Wake(m, iCount) :
                  mtx' = [m EXCEPT !.events = @ \o added, !.cond_w = s]
    <3>1. PICK s \in Wake(m, iCount) : mtx' = [m EXCEPT !.events = @ \o added, !.cond_w = s]
      BY <2>2
    <3>2. s \in SUBSET Threads
      BY DEF Wake, Signal, HB_MUTEX
    <3>3. m.events \in Seq(Nat) /\ m.waiters \in Nat
      BY <2>2 DEF HB_MUTEX
    <3>4. iCount \in Nat
      BY <2>2, <3>3, LenProperties
    <3>5. added \in Seq(Nat)
      BY <3>4, SeqDef
    <3>6. m.events \o added \in Seq(Nat)
      BY <3>3, <3>5, ConcatProperties
    <3> HIDE DEF added
    <3> QED BY <3>1, <3>2, <3>6 DEF HB_MUTEX
  <2> QED BY <1>2, <2>1, <2>2
<1>4. \A u \in Threads : pc'[u] = pc[u] \/ (pc[u] \notin WaitPCs /\ pc'[u] \notin WaitPCs)
  BY <1>1, <1>2 DEF WaitPCs, LockWaitPCs, SubWaitPCs, SyncPCs
<1>5. Keeps
  BY <1>1, <1>3, <1>4 DEF Keeps
<1> QED
  BY <1>1, <1>2, <1>3, <1>5, Labels DEF LockEffect

\* Outside the waits: where a thread that calls a function of the mutex is.
LEMMA Unwaiting ==
    /\ "idle" \notin WaitPCs /\ "fault" \notin WaitPCs
    /\ "sub_clear" \notin WaitPCs /\ "tsub_clear" \notin WaitPCs
    /\ \A l \in EventPCs : l \notin WaitPCs
  BY DEF WaitPCs, LockWaitPCs, SubWaitPCs, SyncPCs, EventPCs

Effect == mtx' \in HB_MUTEX /\ pc' \in [Threads -> PCs] /\ LockEffect

\* A thread that gets the lock.
LEMMA TakeEffect ==
    ASSUME LockInv, NEW t \in Threads, NEW m \in HB_MUTEX, Acquire(t, m), UNCHANGED saved,
           mtx.lock_count = 0, m.cond_l = mtx.cond_l \ {t},
           \/ pc[t] = "idle" /\ m.lockers = mtx.lockers /\ m.cond_l = mtx.cond_l
           \/ pc[t] \in {"lock_wait", "tlock_wait"} /\ m.lockers = mtx.lockers - 1
    PROVE  Effect
<1>1. pc \in [Threads -> PCs]
  BY DEF LockInv, LockMatchesBelief, TypeOK
<1>2. /\ mtx' \in HB_MUTEX /\ mtx'.lock_count = 1 /\ mtx'.owner = t
      /\ mtx'.lockers = m.lockers /\ mtx'.cond_l = m.cond_l
  BY DEF Acquire, Own, HB_MUTEX
<1>3. pc' \in [Threads -> PCs]
  BY <1>1, Labels DEF Acquire, Goto
<1>4. Takes(t)
  BY <1>2 DEF Takes, Acquire
<1> QED
  BY <1>2, <1>3, <1>4 DEF Effect, LockEffect

\* A thread that queues.
LEMMA QueueEffect ==
    ASSUME LockInv, NEW t \in Threads, NEW l \in {"lock_wait", "tlock_wait"},
           pc[t] = "idle", mtx.owner # t, mtx.lock_count # 0,
           mtx' = SleepL([mtx EXCEPT !.lockers = @ + 1], t), Goto(t, l),
           UNCHANGED <<saved, held>>
    PROVE  Effect
<1>1. pc \in [Threads -> PCs] /\ mtx \in HB_MUTEX
  BY DEF LockInv, LockMatchesBelief, TypeOK
<1>2. /\ mtx' \in HB_MUTEX /\ mtx'.lock_count = mtx.lock_count /\ mtx'.owner = mtx.owner
      /\ mtx'.lockers = mtx.lockers + 1 /\ mtx'.cond_l = mtx.cond_l \cup {t}
  BY <1>1, QueueProps
<1>3. pc' \in [Threads -> PCs]
  BY <1>1, Labels DEF Goto
<1>4. Queues(t)
  BY <1>2 DEF Queues
<1> QED
  BY <1>2, <1>3, <1>4 DEF Effect, LockEffect

\* A thread in the queue that finds the mutex taken.
LEMMA SleepOnEffect ==
    ASSUME LockInv, NEW t \in Threads, pc[t] \in LockWaitPCs, mtx.lock_count # 0,
           mtx' = SleepL(mtx, t), UNCHANGED <<pc, saved, held>>
    PROVE  Effect
<1>1. pc \in [Threads -> PCs] /\ mtx \in HB_MUTEX
  BY DEF LockInv, LockMatchesBelief, TypeOK
<1>2. mtx.owner # t
  BY DEF LockInv, LockMatchesBelief, BeliefOf, Waiting
<1>3. /\ mtx' \in HB_MUTEX /\ mtx'.lock_count = mtx.lock_count /\ mtx'.owner = mtx.owner
      /\ mtx'.lockers = mtx.lockers /\ mtx'.cond_l = mtx.cond_l \cup {t}
  <2>1. mtx.cond_l \cup {t} \in SUBSET Threads
    BY <1>1 DEF HB_MUTEX
  <2> QED BY <1>1, <2>1 DEF SleepL, HB_MUTEX
<1>4. Queues(t)
  BY <1>2, <1>3 DEF Queues
<1> QED
  BY <1>1, <1>3, <1>4 DEF Effect, LockEffect

\* Every step of the mutex has one of these effects on the lock.
LEMMA EffectStep == LockInv /\ [Next]_vars => Effect
<1> SUFFICES ASSUME LockInv, [Next]_vars PROVE Effect
  OBVIOUS
<1> USE DEF LockInv
<1> /\ TypeOK /\ mtx \in HB_MUTEX /\ pc \in [Threads -> PCs] /\ saved \in [Threads -> Nat]
    /\ held \in [Threads -> Nat] /\ nextEvent \in Nat /\ NoThread \notin Threads
  BY MutexAssumption DEF LockMatchesBelief, TypeOK
<1>1. ASSUME NEW t \in Threads, ThreadNext(t) PROVE Effect
  <2>1. ASSUME LockAgain(t) PROVE Effect
    <3>1. /\ pc[t] = "idle" /\ mtx.owner = t /\ UNCHANGED <<pc, saved>>
          /\ mtx' = [mtx EXCEPT !.lock_count = @ + 1] /\ held' = [held EXCEPT ![t] = @ + 1]
      BY <2>1 DEF LockAgain
    <3>2. /\ mtx' \in HB_MUTEX /\ mtx'.lock_count = mtx.lock_count + 1
          /\ mtx'.owner = mtx.owner /\ mtx'.lockers = mtx.lockers /\ mtx'.cond_l = mtx.cond_l
      <4>1. mtx.lock_count + 1 \in Nat
        BY DEF HB_MUTEX
      <4> QED BY <3>1, <4>1 DEF HB_MUTEX
    <3>3. Deepens(t)
      BY <3>1, <3>2, Unwaiting DEF Deepens
    <3> QED BY <3>1, <3>2, <3>3 DEF Effect, LockEffect
  <2>2. ASSUME Lock(t) PROVE Effect
    <3>1. pc[t] = "idle" /\ mtx.owner # t /\ UNCHANGED saved
      BY <2>2 DEF Lock
    <3>2. CASE mtx.lock_count = 0 /\ Acquire(t, mtx)
      <4>1. t \notin mtx.cond_l
        BY <3>1 DEF LockInv, SleepersWait, LockWaitPCs
      <4> QED BY <3>1, <3>2, <4>1, TakeEffect
    <3>3. CASE mtx.lock_count # 0
      BY <2>2, <3>1, <3>3, QueueEffect DEF Lock
    <3> QED BY <2>2, <3>2, <3>3 DEF Lock
  <2>3. ASSUME LockWoken(t) PROVE Effect
    <3>1. pc[t] = "lock_wait" /\ t \notin mtx.cond_l /\ UNCHANGED saved
      BY <2>3 DEF LockWoken
    <3>2. CASE mtx.lock_count = 0
      <4> DEFINE m == [mtx EXCEPT !.lockers = @ - 1]
      <4>1. m \in HB_MUTEX /\ m.lockers = mtx.lockers - 1 /\ m.cond_l = mtx.cond_l
        <5>1. mtx.lockers - 1 \in Nat
          BY <3>1, Counted DEF LockWaitPCs
        <5> QED BY <5>1 DEF HB_MUTEX
      <4>2. Acquire(t, m) /\ m.cond_l = mtx.cond_l \ {t}
        BY <2>3, <3>1, <3>2, <4>1 DEF LockWoken
      <4> QED BY <3>1, <3>2, <4>1, <4>2, TakeEffect
    <3>3. CASE mtx.lock_count # 0
      BY <2>3, <3>1, <3>3, SleepOnEffect DEF LockWoken, LockWaitPCs
    <3> QED BY <3>2, <3>3
  <2>4. ASSUME TimedLock(t) PROVE Effect
    BY <2>4, QueueEffect DEF TimedLock, history
  <2>5. ASSUME TimedLockWoken(t) PROVE Effect
    <3>1. pc[t] = "tlock_wait" /\ t \notin mtx.cond_l /\ UNCHANGED saved
      BY <2>5 DEF TimedLockWoken
    <3>2. CASE mtx.lock_count = 0
      <4> DEFINE m == [mtx EXCEPT !.lockers = @ - 1]
      <4>1. m \in HB_MUTEX /\ m.lockers = mtx.lockers - 1 /\ m.cond_l = mtx.cond_l
        <5>1. mtx.lockers - 1 \in Nat
          BY <3>1, Counted DEF LockWaitPCs
        <5> QED BY <5>1 DEF HB_MUTEX
      <4>2. Acquire(t, m) /\ m.cond_l = mtx.cond_l \ {t}
        BY <2>5, <3>1, <3>2, <4>1 DEF TimedLockWoken
      <4> QED BY <3>1, <3>2, <4>1, <4>2, TakeEffect
    <3>3. CASE mtx.lock_count # 0
      BY <2>5, <3>1, <3>3, SleepOnEffect DEF TimedLockWoken, LockWaitPCs
    <3> QED BY <3>2, <3>3
  <2>6. ASSUME TimedLockTimeout(t) PROVE Effect
    <3> DEFINE m == [mtx EXCEPT !.lockers = @ - 1, !.cond_l = @ \ {t}]
    <3>1. pc[t] = "tlock_wait" /\ UNCHANGED saved
      BY <2>6 DEF TimedLockTimeout
    <3>2. /\ m \in HB_MUTEX /\ m.lockers = mtx.lockers - 1 /\ m.cond_l = mtx.cond_l \ {t}
          /\ m.lock_count = mtx.lock_count /\ m.owner = mtx.owner
      <4>1. mtx.lockers - 1 \in Nat
        BY <3>1, Counted DEF LockWaitPCs
      <4> QED BY <4>1 DEF HB_MUTEX
    <3>3. CASE m.lock_count = 0 /\ Acquire(t, m)
      BY <3>1, <3>2, <3>3, TakeEffect
    <3>4. CASE m.lock_count # 0 /\ mtx' = m /\ Goto(t, "idle") /\ UNCHANGED held
      <4>1. mtx.owner # t
        BY <3>1 DEF LockMatchesBelief, BeliefOf, Waiting, LockWaitPCs
      <4>2. Queues(t)
        BY <3>1, <3>2, <3>4, <4>1 DEF Queues
      <4> QED BY <3>2, <3>4, <4>2, Labels DEF Effect, LockEffect, Goto
    <3> QED BY <2>6, <3>3, <3>4 DEF TimedLockTimeout
  <2>7. ASSUME Unlock(t) PROVE Effect
    <3>1. /\ pc[t] = "idle" /\ mtx.owner = t /\ UNCHANGED <<pc, saved>>
          /\ held' = [held EXCEPT ![t] = @ - 1]
      BY <2>7 DEF Unlock
    <3>2. CASE mtx.lock_count > 1 /\ mtx' = [mtx EXCEPT !.lock_count = @ - 1]
      <4>1. /\ mtx' \in HB_MUTEX /\ mtx'.lock_count = mtx.lock_count - 1
            /\ mtx'.owner = mtx.owner /\ mtx'.lockers = mtx.lockers
            /\ mtx'.cond_l = mtx.cond_l
        <5>1. mtx.lock_count - 1 \in Nat
          BY <3>2 DEF HB_MUTEX
        <5> QED BY <3>2, <5>1 DEF HB_MUTEX
      <4>2. Deepens(t)
        BY <3>1, <3>2, <4>1, Unwaiting DEF Deepens
      <4> QED BY <3>1, <4>1, <4>2 DEF Effect, LockEffect
    <3>3. CASE mtx.lock_count = 1 /\ mtx' \in Free(mtx)
      <4>1. mtx' \in HB_MUTEX /\ Freed(t)
        BY <3>1, <3>3, FreeProps DEF Freed
      <4>2. held[t] = 1
        BY <3>1, <3>3, Unwaiting DEF LockMatchesBelief, BeliefOf, Waiting, WaitPCs
      <4>3. Frees(t)
        BY <3>1, <4>1, <4>2, Unwaiting DEF Frees
      <4> QED BY <3>1, <4>1, <4>3 DEF Effect, LockEffect
    <3> QED BY <2>7, <3>2, <3>3 DEF Unlock
  <2>8. ASSUME ThreadEnd(t) PROVE Effect
    <3>1. /\ pc[t] = "idle" /\ UNCHANGED <<pc, saved>> /\ mtx' \in DropOwn(mtx, t)
          /\ held' = [held EXCEPT ![t] = 0]
      BY <2>8 DEF ThreadEnd
    <3>2. mtx' \in HB_MUTEX
      BY <3>1, DropOwnProps
    <3>3. CASE mtx.owner = t
      <4>1. Freed(t)
        BY <3>1, <3>3, DropOwnProps DEF Freed
      <4>2. Frees(t)
        BY <3>1, <4>1, Unwaiting DEF Frees
      <4> QED BY <3>1, <3>2, <4>2 DEF Effect, LockEffect
    <3>4. CASE mtx.owner # t
      <4>1. mtx' = mtx
        BY <3>1, <3>4, DropOwnProps
      <4>2. held[t] = 0
        BY <3>1, <3>4, Unwaiting DEF LockMatchesBelief, BeliefOf, Waiting, WaitPCs
      <4>3. Keeps
        BY <3>1, <4>1, <4>2 DEF Keeps
      <4> QED BY <3>1, <3>2, <4>3 DEF Effect, LockEffect
    <3> QED BY <3>3, <3>4
  <2>9. ASSUME NEW all \in BOOLEAN, Notify(t, all) PROVE Effect
    <3>1. CASE NotifyBody(mtx, t, all)
      BY <2>9, <3>1, NotifyEffect, Unwaiting DEF Notify, Effect
    <3>2. CASE Goto(t, Allocating(all)) /\ UNCHANGED <<mtx, syncCond, saved, request>> /\ UNCHANGED history
      <4>1. pc[t] = "idle"
        BY <2>9 DEF Notify
      <4>2. pc' \in [Threads -> PCs]
            /\ \A u \in Threads : pc'[u] = pc[u] \/ (pc[u] \notin WaitPCs /\ pc'[u] \notin WaitPCs)
        BY <3>2, <4>1, Labels, Unwaiting DEF Goto
      <4> QED BY <3>2, <4>2 DEF Effect, LockEffect, Keeps, history
    <3> QED BY <2>9, <3>1, <3>2 DEF Notify
  <2>10. ASSUME NEW all \in BOOLEAN, EventStore(t, all) PROVE Effect
    <3> DEFINE m == [mtx EXCEPT !.events = <<>>]
    <3>1. pc[t] = Allocating(all) /\ NotifyBody(m, t, all)
      BY <2>10 DEF EventStore
    <3>2. <<>> \in Seq(Nat)
      BY EmptySeq
    <3>3. /\ m \in HB_MUTEX /\ m.lock_count = mtx.lock_count /\ m.owner = mtx.owner
          /\ m.lockers = mtx.lockers /\ m.cond_l = mtx.cond_l
      BY <3>2 DEF HB_MUTEX
    <3> HIDE DEF m
    <3>4. pc[t] \notin WaitPCs
      BY <3>1, Labels, Unwaiting
    <3> QED BY <3>1, <3>3, <3>4, NotifyEffect DEF Effect
  <2>11. ASSUME NEW all \in BOOLEAN, EventDrop(t, all) PROVE Effect
    <3>1. /\ mtx' \in HB_MUTEX /\ mtx'.lock_count = mtx.lock_count /\ mtx'.owner = mtx.owner
          /\ mtx'.lockers = mtx.lockers /\ mtx'.cond_l \subseteq mtx.cond_l
          /\ UNCHANGED <<saved, held>>
      BY <2>11 DEF EventDrop, history, HB_MUTEX
    <3>2. pc' \in [Threads -> PCs]
          /\ \A u \in Threads : pc'[u] = pc[u] \/ (pc[u] \notin WaitPCs /\ pc'[u] \notin WaitPCs)
      BY <2>11, Labels, Unwaiting DEF EventDrop, Goto
    <3> QED BY <3>1, <3>2 DEF Effect, LockEffect, Keeps
  <2>12. ASSUME NEW all \in BOOLEAN, EventDropped(t, all) PROVE Effect
    <3>1. pc[t] \notin WaitPCs /\ NotifyBody(mtx, t, all)
      BY <2>12, Labels, Unwaiting DEF EventDropped
    <3> QED BY <3>1, NotifyEffect DEF Effect
  <2>13. ASSUME NEW fClear \in BOOLEAN, NEW timed \in BOOLEAN, Subscribe(t, fClear, timed) PROVE Effect
    <3> DEFINE e == IF fClear THEN nextEvent ELSE 0
    <3>1. pc[t] = "idle"
      BY <2>13 DEF Subscribe
    <3>2. CASE MustClear(mtx, fClear)
      <4>1. /\ mtx' = [mtx EXCEPT !.events = NULL] /\ UNCHANGED <<saved, held>>
            /\ Goto(t, "tsub_clear") \/ Goto(t, "sub_clear")
        BY <2>13, <3>2 DEF Subscribe
      <4>2. /\ mtx' \in HB_MUTEX /\ mtx'.lock_count = mtx.lock_count
            /\ mtx'.owner = mtx.owner /\ mtx'.lockers = mtx.lockers
            /\ mtx'.cond_l = mtx.cond_l
        BY <4>1 DEF HB_MUTEX
      <4>3. pc' \in [Threads -> PCs]
            /\ \A u \in Threads : pc'[u] = pc[u] \/ (pc[u] \notin WaitPCs /\ pc'[u] \notin WaitPCs)
        BY <3>1, <4>1, Labels, Unwaiting DEF Goto
      <4> QED BY <4>1, <4>2, <4>3 DEF Effect, LockEffect, Keeps
    <3>3. CASE ~MustClear(mtx, fClear)
      <4>1. SubscribeBody(t, e) \/ TimedSubscribeBody(t, e)
        BY <2>13, <3>3 DEF Subscribe
      <4> QED BY <3>1, <4>1, SubscribeEffect DEF Effect
    <3> QED BY <3>2, <3>3
  <2>14. ASSUME SubscribeCleared(t) PROVE Effect
    BY <2>14, SubscribeEffect DEF SubscribeCleared, Effect
  <2>15. ASSUME SubscribeWoken(t) PROVE Effect
    <3>1. pc[t] = "sub_wait"
      BY <2>15 DEF SubscribeWoken
    <3>2. CASE MustWait(mtx, t)
      <4>1. mtx' = SleepW(mtx, t) /\ UNCHANGED <<saved, pc, held>>
        BY <2>15, <3>2 DEF SubscribeWoken, history
      <4>2. mtx.cond_w \cup {t} \in SUBSET Threads
        BY DEF HB_MUTEX
      <4>3. /\ mtx' \in HB_MUTEX /\ mtx'.lock_count = mtx.lock_count
            /\ mtx'.owner = mtx.owner /\ mtx'.lockers = mtx.lockers
            /\ mtx'.cond_l = mtx.cond_l
        BY <4>1, <4>2 DEF HB_MUTEX, SleepW
      <4> QED BY <4>1, <4>3 DEF Effect, LockEffect, Keeps
    <3>3. CASE ~MustWait(mtx, t)
      <4> DEFINE m == [mtx EXCEPT !.waiters = @ - 1]
      <4>1. /\ m \in HB_MUTEX /\ m.lock_count = mtx.lock_count /\ m.owner = mtx.owner
            /\ m.lockers = mtx.lockers /\ m.cond_l = mtx.cond_l
        <5>1. mtx.waiters - 1 \in Nat
          BY <3>1, Counted DEF SubWaitPCs
        <5> QED BY <5>1 DEF HB_MUTEX
      <4>2. FinishSubscribe(m, t, saved[t], first[t])
        BY <2>15, <3>3 DEF SubscribeWoken
      <4> HIDE DEF m
      <4> QED BY <3>1, <4>1, <4>2, ReturnEffect DEF Effect, SubWaitPCs
    <3> QED BY <3>2, <3>3
  <2>16. ASSUME TimedSubscribeWoken(t) PROVE Effect
    <3>1. pc[t] = "tsub_wait"
      BY <2>16 DEF TimedSubscribeWoken
    <3>2. CASE MustWait(mtx, t)
      <4>1. mtx' = SleepW(mtx, t) /\ UNCHANGED <<saved, pc, held>>
        BY <2>16, <3>2 DEF TimedSubscribeWoken, history
      <4>2. mtx.cond_w \cup {t} \in SUBSET Threads
        BY DEF HB_MUTEX
      <4>3. /\ mtx' \in HB_MUTEX /\ mtx'.lock_count = mtx.lock_count
            /\ mtx'.owner = mtx.owner /\ mtx'.lockers = mtx.lockers
            /\ mtx'.cond_l = mtx.cond_l
        BY <4>1, <4>2 DEF HB_MUTEX, SleepW
      <4> QED BY <4>1, <4>3 DEF Effect, LockEffect, Keeps
    <3>3. CASE ~MustWait(mtx, t)
      <4> DEFINE m == [mtx EXCEPT !.waiters = @ - 1]
      <4>1. /\ m \in HB_MUTEX /\ m.lock_count = mtx.lock_count /\ m.owner = mtx.owner
            /\ m.lockers = mtx.lockers /\ m.cond_l = mtx.cond_l
        <5>1. mtx.waiters - 1 \in Nat
          BY <3>1, Counted DEF SubWaitPCs
        <5> QED BY <5>1 DEF HB_MUTEX
      <4>2. FinishSubscribe(m, t, saved[t], first[t])
        BY <2>16, <3>3 DEF TimedSubscribeWoken
      <4> HIDE DEF m
      <4> QED BY <3>1, <4>1, <4>2, ReturnEffect DEF Effect, SubWaitPCs
    <3> QED BY <3>2, <3>3
  <2>17. ASSUME TimedSubscribeTimeout(t) PROVE Effect
    <3> DEFINE m == [mtx EXCEPT !.waiters = @ - 1, !.cond_w = @ \ {t}]
    <3>1. pc[t] = "tsub_wait" /\ FinishSubscribe(m, t, saved[t], first[t])
      BY <2>17 DEF TimedSubscribeTimeout
    <3>2. /\ m \in HB_MUTEX /\ m.lock_count = mtx.lock_count /\ m.owner = mtx.owner
          /\ m.lockers = mtx.lockers /\ m.cond_l = mtx.cond_l
      <4>1. mtx.waiters - 1 \in Nat
        BY <3>1, Counted DEF SubWaitPCs
      <4> QED BY <4>1 DEF HB_MUTEX
    <3> HIDE DEF m
    <3> QED BY <3>1, <3>2, ReturnEffect DEF Effect, SubWaitPCs
  <2>18. ASSUME RelockWoken(t) PROVE Effect
    <3>1. pc[t] = "relock_wait" /\ t \notin mtx.cond_l /\ UNCHANGED held
      BY <2>18 DEF RelockWoken, history
    <3>2. CASE mtx.lock_count = 0
      <4>1. /\ mtx' = Own([mtx EXCEPT !.lockers = @ - 1], t, saved[t])
            /\ saved' = [saved EXCEPT ![t] = 0] /\ Goto(t, "idle")
        BY <2>18, <3>2 DEF RelockWoken
      <4>2. /\ mtx' \in HB_MUTEX /\ mtx'.lock_count = saved[t] /\ mtx'.owner = t
            /\ mtx'.lockers = mtx.lockers - 1 /\ mtx'.cond_l = mtx.cond_l
        <5>1. mtx.lockers - 1 \in Nat
          BY <3>1, Counted DEF LockWaitPCs
        <5> QED BY <4>1, <5>1 DEF HB_MUTEX, Own
      <4>3. saved[t] > 0 /\ mtx.owner = NoThread
        BY <3>1, <3>2 DEF RelockHasLevels, OwnerIffLocked, LockWaitPCs
      <4>4. Returns(t)
        BY <3>1, <4>1, <4>2, <4>3 DEF Returns
      <4> QED BY <4>1, <4>2, <4>4, Labels DEF Effect, LockEffect, Goto
    <3>3. CASE mtx.lock_count # 0
      BY <2>18, <3>1, <3>3, SleepOnEffect DEF RelockWoken, LockWaitPCs
    <3> QED BY <3>2, <3>3
  <2>19. ASSUME NEW timed \in BOOLEAN, SyncWait(t, timed) PROVE Effect
    <3>1. /\ pc[t] = "idle" /\ mtx' \in DropOwn(mtx, t) /\ UNCHANGED held
          /\ saved' = [saved EXCEPT ![t] = IF mtx.owner = t THEN mtx.lock_count ELSE 0]
          /\ pc' \in {[pc EXCEPT ![t] = l] : l \in SyncPCs}
      BY <2>19 DEF SyncWait, history, Goto, SyncPCs
    <3>2. mtx' \in HB_MUTEX /\ pc' \in [Threads -> PCs]
      BY <3>1, DropOwnProps DEF PCs
    <3>3. CASE mtx.owner = t
      <4>1. Freed(t)
        BY <3>1, <3>3, DropOwnProps DEF Freed
      <4>2. Parks(t)
        BY <3>1, <3>3, <4>1, Unwaiting DEF Parks
      <4> QED BY <3>2, <4>2 DEF Effect, LockEffect
    <3>4. CASE mtx.owner # t
      <4>1. mtx' = mtx
        BY <3>1, <3>4, DropOwnProps
      <4>2. Parks(t)
        BY <3>1, <3>4, <4>1, Unwaiting DEF Parks
      <4> QED BY <3>2, <4>2 DEF Effect, LockEffect
    <3> QED BY <3>3, <3>4
  <2>20. ASSUME SyncSignal(t) PROVE Effect
    BY <2>20 DEF SyncSignal, history, Effect, LockEffect, Keeps
  <2>21. ASSUME SyncWoken(t) PROVE Effect
    BY <2>21 DEF SyncWoken, history, Effect, LockEffect, Keeps
  <2>22. ASSUME SyncTimeout(t) PROVE Effect
    <3>1. pc[t] = "tsync_wait" /\ UNCHANGED held
      BY <2>22 DEF SyncTimeout, history
    <3>2. CASE saved[t] = 0 /\ Goto(t, "idle") /\ UNCHANGED <<mtx, saved>>
      <4>1. Returns(t)
        BY <3>1, <3>2 DEF Returns, SyncPCs
      <4> QED BY <3>2, <4>1, Labels DEF Effect, LockEffect, Goto
    <3>3. CASE /\ saved[t] > 0 /\ mtx.owner = NoThread /\ mtx' = Own(mtx, t, saved[t])
               /\ saved' = [saved EXCEPT ![t] = 0] /\ Goto(t, "idle")
      <4>1. /\ mtx' \in HB_MUTEX /\ mtx'.lock_count = saved[t] /\ mtx'.owner = t
            /\ mtx'.lockers = mtx.lockers /\ mtx'.cond_l = mtx.cond_l
        BY <3>3 DEF HB_MUTEX, Own
      <4>2. Returns(t)
        BY <3>1, <3>3, <4>1 DEF Returns, SyncPCs
      <4> QED BY <3>3, <4>1, <4>2, Labels DEF Effect, LockEffect, Goto
    <3>4. CASE /\ saved[t] > 0 /\ mtx.owner # NoThread
               /\ mtx' = SleepL([mtx EXCEPT !.lockers = @ + 1], t)
               /\ Goto(t, "relock_wait") /\ UNCHANGED saved
      <4>1. /\ mtx' \in HB_MUTEX /\ mtx'.lock_count = mtx.lock_count
            /\ mtx'.owner = mtx.owner /\ mtx'.lockers = mtx.lockers + 1
            /\ mtx'.cond_l = mtx.cond_l \cup {t}
        BY <3>4, QueueProps
      <4>2. Returns(t)
        BY <3>1, <3>4, <4>1 DEF Returns, SyncPCs
      <4> QED BY <3>4, <4>1, <4>2, Labels DEF Effect, LockEffect, Goto
    <3> QED BY <2>22, <3>2, <3>3, <3>4 DEF SyncTimeout
  <2>23. ASSUME QuitRequest(t) PROVE Effect
    BY <2>23 DEF QuitRequest, history, Effect, LockEffect, Keeps
  <2>24. ASSUME SpuriousWakeup(t) PROVE Effect
    <3>1. /\ mtx' \in HB_MUTEX /\ mtx'.lock_count = mtx.lock_count /\ mtx'.owner = mtx.owner
          /\ mtx'.lockers = mtx.lockers /\ mtx'.cond_l \subseteq mtx.cond_l
          /\ UNCHANGED <<saved, held>>
      BY <2>24 DEF SpuriousWakeup, history, HB_MUTEX
    <3>2. pc' \in [Threads -> PCs]
          /\ \A u \in Threads : pc'[u] = pc[u] \/ (pc[u] \notin WaitPCs /\ pc'[u] \notin WaitPCs)
      BY <2>24, Labels, Unwaiting DEF SpuriousWakeup, Goto
    <3> QED BY <3>1, <3>2 DEF Effect, LockEffect, Keeps
  <2> QED
    BY <1>1, <2>1, <2>2, <2>3, <2>4, <2>5, <2>6, <2>7, <2>8, <2>9, <2>10, <2>11, <2>12,
       <2>13, <2>14, <2>15, <2>16, <2>17, <2>18, <2>19, <2>20, <2>21, <2>22, <2>23, <2>24 DEF ThreadNext
<1>2. CASE UnsubscribeAll
  <2>1. /\ mtx' = [mtx EXCEPT !.cond_w = {}] /\ UNCHANGED <<pc, saved, held>>
    BY <1>2 DEF UnsubscribeAll, history
  <2>2. /\ mtx' \in HB_MUTEX /\ mtx'.lock_count = mtx.lock_count /\ mtx'.owner = mtx.owner
        /\ mtx'.lockers = mtx.lockers /\ mtx'.cond_l = mtx.cond_l
    BY <2>1 DEF HB_MUTEX
  <2> QED BY <2>1, <2>2 DEF Effect, LockEffect, Keeps
<1>3. CASE UNCHANGED vars
  BY <1>3 DEF vars, Effect, LockEffect, Keeps
<1> QED
  BY <1>1, <1>2, <1>3, BoundThreads DEF Next

-----------------------------------------------------------------------------
(* The lock invariants, effect by effect.                                  *)

\* The state of the lock and of its callers keeps its type.
LEMMA LockTypeStep ==
    ASSUME LockInv, Effect
    PROVE  saved' \in [Threads -> Nat] /\ held' \in [Threads -> Nat]
<1> /\ mtx \in HB_MUTEX /\ saved \in [Threads -> Nat] /\ held \in [Threads -> Nat]
    /\ mtx.lock_count \in Nat
  BY DEF LockInv, LockMatchesBelief, TypeOK, HB_MUTEX
<1>1. CASE Keeps
  BY <1>1 DEF Keeps
<1>2. ASSUME NEW t \in Threads, Deepens(t)
      PROVE  saved' \in [Threads -> Nat] /\ held' \in [Threads -> Nat]
  <2>1. held[t] = mtx.lock_count
    BY <1>2 DEF Deepens, LockInv, LockMatchesBelief, BeliefOf, Waiting, WaitPCs
  <2> QED BY <1>2, <2>1 DEF Deepens
<1>3. ASSUME NEW t \in Threads, Takes(t)
      PROVE  saved' \in [Threads -> Nat] /\ held' \in [Threads -> Nat]
  BY <1>3 DEF Takes
<1>4. ASSUME NEW t \in Threads, Queues(t) \/ Frees(t) \/ Parks(t) \/ Returns(t)
      PROVE  saved' \in [Threads -> Nat] /\ held' \in [Threads -> Nat]
  BY <1>4 DEF Queues, Frees, Parks, Returns
<1> QED
  BY <1>1, <1>2, <1>3, <1>4 DEF Effect, LockEffect

\* Nobody's belief is disappointed.
LEMMA BeliefStep ==
    ASSUME LockInv, Effect
    PROVE  (\A t \in Threads : BeliefOf(t)') /\ OwnerIffLocked' /\ RelockHasLevels'
<1> DEFINE Goal == (\A u \in Threads : BeliefOf(u)') /\ OwnerIffLocked' /\ RelockHasLevels'
<1>1. /\ mtx \in HB_MUTEX /\ mtx' \in HB_MUTEX
      /\ saved \in [Threads -> Nat] /\ held \in [Threads -> Nat]
      /\ pc \in [Threads -> PCs] /\ pc' \in [Threads -> PCs] /\ NoThread \notin Threads
      /\ mtx.lock_count \in Nat
  BY MutexAssumption DEF LockInv, LockMatchesBelief, TypeOK, Effect, HB_MUTEX
<1>2. /\ \A u \in Threads : pc[u] \in WaitPCs => mtx.owner # u /\ saved[u] = held[u]
      /\ \A u \in Threads : pc[u] \notin WaitPCs =>
           saved[u] = 0 /\ held[u] = IF mtx.owner = u THEN mtx.lock_count ELSE 0
  BY DEF LockInv, LockMatchesBelief, BeliefOf, Waiting, WaitPCs
<1>3. (mtx.owner = NoThread <=> mtx.lock_count = 0)
      /\ \A u \in Threads : pc[u] \in LockWaitPCs => (pc[u] = "relock_wait" <=> saved[u] > 0)
  BY DEF LockInv, OwnerIffLocked, RelockHasLevels
<1>4. ASSUME /\ \A u \in Threads : pc'[u] \in WaitPCs => mtx'.owner # u /\ saved'[u] = held'[u]
             /\ \A u \in Threads : pc'[u] \notin WaitPCs =>
                  saved'[u] = 0 /\ held'[u] = IF mtx'.owner = u THEN mtx'.lock_count ELSE 0
             /\ mtx'.owner = NoThread <=> mtx'.lock_count = 0
             /\ \A u \in Threads :
                  pc'[u] \in LockWaitPCs => (pc'[u] = "relock_wait" <=> saved'[u] > 0)
      PROVE  Goal
  BY <1>4 DEF BeliefOf, Waiting, WaitPCs, OwnerIffLocked, RelockHasLevels
<1>9. /\ "idle" \notin WaitPCs /\ "relock_wait" \in WaitPCs /\ "lock_wait" \in WaitPCs
      /\ "tlock_wait" \in WaitPCs /\ SubWaitPCs \subseteq WaitPCs /\ SyncPCs \subseteq WaitPCs
      /\ LockWaitPCs = {"lock_wait", "tlock_wait", "relock_wait"}
      /\ LockWaitPCs \cap (SubWaitPCs \cup SyncPCs) = {} /\ LockWaitPCs \subseteq WaitPCs
  BY DEF WaitPCs, LockWaitPCs, SubWaitPCs, SyncPCs
<1>5. CASE Keeps
  BY <1>1, <1>2, <1>3, <1>4, <1>5, <1>9 DEF Keeps
<1>6. ASSUME NEW t \in Threads,
             Deepens(t) \/ Takes(t) \/ Queues(t) \/ Frees(t) \/ Parks(t) \/ Returns(t)
      PROVE  Goal
  <2>1. CASE Deepens(t)
    BY <1>1, <1>2, <1>3, <1>4, <1>9, <2>1 DEF Deepens
  <2>2. CASE Takes(t)
    BY <1>1, <1>2, <1>3, <1>4, <1>9, <2>2 DEF Takes, Goto
  <2>3. CASE Queues(t)
    BY <1>1, <1>2, <1>3, <1>4, <1>9, <2>3 DEF Queues, Goto
  <2>4. CASE Frees(t)
    BY <1>1, <1>2, <1>3, <1>4, <1>9, <2>4 DEF Frees, Freed
  <2>5. CASE Parks(t)
    BY <1>1, <1>2, <1>3, <1>4, <1>9, <2>5 DEF Parks, Freed
  <2>6. CASE Returns(t)
    BY <1>1, <1>2, <1>3, <1>4, <1>9, <2>6 DEF Returns, Goto
  <2> QED BY <1>6, <2>1, <2>2, <2>3, <2>4, <2>5, <2>6
<1> QED
  BY <1>5, <1>6 DEF Effect, LockEffect

\* Moving one thread from its label to l changes the number of threads in Q by
\* what the two labels contribute.
CountOf(f, Q) == Cardinality({u \in Threads : f[u] \in Q})
One(l, Q) == IF l \in Q THEN 1 ELSE 0

\* One move changes the number of threads in Q by the contribution of both labels.
LEMMA CountMove ==
    ASSUME NEW f \in [Threads -> PCs], NEW t \in Threads, NEW l \in PCs, NEW Q
    PROVE  /\ CountOf(f, Q) \in Nat
           /\ CountOf([f EXCEPT ![t] = l], Q) = CountOf(f, Q) + One(l, Q) - One(f[t], Q)
<1> DEFINE S == {u \in Threads : f[u] \in Q}
           R == {u \in Threads : [f EXCEPT ![t] = l][u] \in Q}
<1>1. IsFiniteSet(S) /\ IsFiniteSet(R)
  BY MutexAssumption, FS_Subset
<1>2. Cardinality(S) \in Nat /\ Cardinality(R) \in Nat
  BY <1>1, FS_CardinalityType
<1>3. CASE l \in Q /\ f[t] \notin Q
  <2>1. R = S \cup {t} /\ t \notin S
    BY <1>3
  <2>2. Cardinality(R) = Cardinality(S) + 1
    BY <2>1, <1>1, FS_AddElement
  <2> QED BY <1>2, <1>3, <2>2 DEF CountOf, One
<1>4. CASE l \notin Q /\ f[t] \in Q
  <2>1. S = R \cup {t} /\ t \notin R
    BY <1>4
  <2>2. Cardinality(S) = Cardinality(R) + 1
    BY <2>1, <1>1, FS_AddElement
  <2> QED BY <1>2, <1>4, <2>2 DEF CountOf, One
<1>5. CASE l \in Q <=> f[t] \in Q
  <2>1. R = S
    BY <1>5
  <2> QED BY <1>2, <1>5, <2>1 DEF CountOf, One
<1> QED
  BY <1>3, <1>4, <1>5

\* lockers counts the threads queued for the lock, asleep or woken.
LockersExact == mtx.lockers = Cardinality({t \in Threads : pc[t] \in LockWaitPCs})

\* Every effect keeps lockers exact.
LEMMA LockersStep == ASSUME LockInv, Effect PROVE LockersExact'
<1>1. /\ mtx \in HB_MUTEX /\ mtx' \in HB_MUTEX
      /\ pc \in [Threads -> PCs] /\ pc' \in [Threads -> PCs]
      /\ mtx.lockers = CountOf(pc, LockWaitPCs)
  BY DEF LockInv, LockMatchesBelief, TypeOK, Effect, QueueCountsExact, CountOf
<1>2. mtx.lockers \in Nat /\ mtx'.lockers \in Nat
  BY <1>1 DEF HB_MUTEX
<1>3. LockersExact' <=> mtx'.lockers = CountOf(pc', LockWaitPCs)
  BY DEF LockersExact, CountOf
<1>4. ASSUME \A u \in Threads : pc'[u] \in LockWaitPCs <=> pc[u] \in LockWaitPCs,
             mtx'.lockers = mtx.lockers
      PROVE  LockersExact'
  <2>1. {u \in Threads : pc'[u] \in LockWaitPCs} = {u \in Threads : pc[u] \in LockWaitPCs}
    BY <1>4
  <2> QED BY <1>1, <1>4, <2>1 DEF LockersExact, CountOf
<1>5. \A t \in Threads, l \in PCs :
        /\ pc' = [pc EXCEPT ![t] = l]
        /\ mtx'.lockers = mtx.lockers + One(l, LockWaitPCs) - One(pc[t], LockWaitPCs)
        => LockersExact'
  <2>1. \A t \in Threads, l \in PCs :
          CountOf([pc EXCEPT ![t] = l], LockWaitPCs) =
            CountOf(pc, LockWaitPCs) + One(l, LockWaitPCs) - One(pc[t], LockWaitPCs)
    BY <1>1, CountMove, ZenonT(60)
  <2> QED BY <1>1, <1>3, <2>1
<1>6. /\ One("idle", LockWaitPCs) = 0 /\ One("lock_wait", LockWaitPCs) = 1
      /\ One("tlock_wait", LockWaitPCs) = 1 /\ One("relock_wait", LockWaitPCs) = 1
      /\ \A l \in SubWaitPCs \cup SyncPCs : One(l, LockWaitPCs) = 0 /\ l \in PCs
  BY DEF One, LockWaitPCs, SubWaitPCs, SyncPCs, PCs
<1>7. CASE Keeps
  BY <1>1, <1>4, <1>7 DEF Keeps, WaitPCs
<1>8. ASSUME NEW t \in Threads,
             Deepens(t) \/ Takes(t) \/ Queues(t) \/ Frees(t) \/ Parks(t) \/ Returns(t)
      PROVE  LockersExact'
  <2>1. CASE Deepens(t) \/ Frees(t)
    BY <1>1, <1>4, <2>1 DEF Deepens, Frees, Freed
  <2>2. CASE Takes(t)
    <3>1. pc' = [pc EXCEPT ![t] = "idle"] /\ "idle" \in PCs
      BY <2>2, Labels DEF Takes, Goto
    <3>2. mtx'.lockers = mtx.lockers + One("idle", LockWaitPCs) - One(pc[t], LockWaitPCs)
      BY <1>2, <1>6, <2>2 DEF Takes
    <3> QED BY <1>5, <3>1, <3>2
  <2>3. CASE Queues(t)
    BY <1>2, <1>4, <1>5, <1>6, <2>3, Labels DEF Queues, Goto
  <2>4. CASE Parks(t)
    <3>1. PICK l \in SubWaitPCs \cup SyncPCs : pc' = [pc EXCEPT ![t] = l]
      BY <2>4 DEF Parks
    <3>2. pc[t] \notin LockWaitPCs /\ l \notin LockWaitPCs /\ mtx'.lockers = mtx.lockers
      BY <2>4, <3>1 DEF Parks, Freed, WaitPCs, LockWaitPCs, SubWaitPCs, SyncPCs
    <3> QED BY <1>1, <1>4, <3>1, <3>2
  <2>5. CASE Returns(t)
    BY <1>2, <1>5, <1>6, <2>5, Labels DEF Returns, Goto
  <2> QED BY <1>8, <2>1, <2>2, <2>3, <2>4, <2>5
<1> QED
  BY <1>7, <1>8 DEF Effect, LockEffect

\* Who sleeps on cond_l is queued for the lock.
LockSleepersWait == \A t \in mtx.cond_l : pc[t] \in LockWaitPCs

\* Every effect leaves on cond_l only threads that are queued, and the lock free
\* only if one of them is awake.
LEMMA StrandedLockerStep ==
    ASSUME LockInv, NoStrandedLocker, Effect PROVE LockSleepersWait' /\ NoStrandedLocker'
<1>1. /\ mtx \in HB_MUTEX /\ mtx' \in HB_MUTEX
      /\ pc \in [Threads -> PCs] /\ pc' \in [Threads -> PCs] /\ saved \in [Threads -> Nat]
  BY DEF LockInv, LockMatchesBelief, TypeOK, Effect
<1>2. /\ mtx.cond_l \in SUBSET Threads /\ mtx'.cond_l \in SUBSET Threads
      /\ mtx.lock_count \in Nat /\ mtx.lockers \in Nat
  BY <1>1 DEF HB_MUTEX
<1>3. \A u \in mtx.cond_l : pc[u] \in LockWaitPCs
  BY DEF LockInv, SleepersWait
<1>4. mtx.cond_l # {} => mtx.lockers > 0
  <2>1. \A u \in mtx.cond_l : mtx.lockers - 1 \in Nat
    BY <1>2, <1>3, Counted DEF LockInv, LockMatchesBelief
  <2> QED BY <1>2, <2>1
<1>5. mtx.owner = NoThread <=> mtx.lock_count = 0
  BY DEF LockInv, OwnerIffLocked
<1>6. /\ "idle" \notin LockWaitPCs /\ "lock_wait" \in LockWaitPCs
      /\ "tlock_wait" \in LockWaitPCs /\ "relock_wait" \in LockWaitPCs
      /\ \A l \in LockWaitPCs : l \in WaitPCs /\ l \notin SubWaitPCs \cup SyncPCs
  BY DEF LockWaitPCs, SubWaitPCs, SyncPCs, WaitPCs
<1>7. CASE Keeps
  <2>1. \A u \in Threads : pc'[u] \in LockWaitPCs <=> pc[u] \in LockWaitPCs
    BY <1>6, <1>7 DEF Keeps
  <2>2. LockSleepersWait'
    BY <1>2, <1>3, <1>7, <2>1 DEF Keeps, LockSleepersWait
  <2>3. NoStrandedLocker'
    BY <1>2, <1>3, <1>7, <2>1 DEF Keeps, NoStrandedLocker
  <2> QED BY <2>2, <2>3
<1>8. ASSUME NEW t \in Threads,
             Deepens(t) \/ Takes(t) \/ Queues(t) \/ Frees(t) \/ Parks(t) \/ Returns(t)
      PROVE  LockSleepersWait' /\ NoStrandedLocker'
  <2>1. CASE Deepens(t)
    BY <1>2, <1>3, <1>5, <2>1 DEF Deepens, LockSleepersWait, NoStrandedLocker
  <2>2. CASE Takes(t)
    BY <1>1, <1>2, <1>3, <2>2 DEF Takes, Goto, LockSleepersWait, NoStrandedLocker
  <2>3. CASE Queues(t)
    BY <1>1, <1>2, <1>3, <1>6, <2>3 DEF Queues, Goto, LockSleepersWait, NoStrandedLocker
  <2>4. ASSUME Freed(t), \A u \in Threads \ {t} : pc'[u] = pc[u], pc[t] \notin WaitPCs
        PROVE  LockSleepersWait' /\ NoStrandedLocker'
    <3>1. t \notin mtx.cond_l
      BY <1>3, <1>6, <2>4
    <3>2. LockSleepersWait'
      BY <1>2, <1>3, <2>4, <3>1 DEF Freed, LockSleepersWait
    <3>3. ASSUME mtx'.cond_l # {} PROVE \E u \in Threads : pc'[u] \in LockWaitPCs /\ u \notin mtx'.cond_l
      <4>1. mtx.cond_l # {} /\ mtx'.cond_l \subseteq mtx.cond_l /\ mtx'.cond_l # mtx.cond_l
        BY <1>4, <2>4, <3>3 DEF Freed
      <4>2. PICK u \in mtx.cond_l : u \notin mtx'.cond_l
        BY <4>1
      <4> QED BY <1>2, <1>3, <2>4, <3>1, <4>2
    <3> QED BY <3>2, <3>3 DEF NoStrandedLocker
  <2>5. CASE Frees(t)
    BY <2>4, <2>5 DEF Frees
  <2>6. CASE Parks(t)
    <3>1. PICK l \in SubWaitPCs \cup SyncPCs : pc' = [pc EXCEPT ![t] = l]
      BY <2>6 DEF Parks
    <3>2. CASE Freed(t)
      BY <1>1, <2>4, <2>6, <3>1, <3>2 DEF Parks
    <3>3. CASE mtx'.lock_count = mtx.lock_count /\ mtx'.cond_l = mtx.cond_l
      <4>1. \A u \in Threads : pc'[u] \in LockWaitPCs <=> pc[u] \in LockWaitPCs
        BY <1>1, <1>6, <2>6, <3>1 DEF Parks
      <4> QED BY <1>2, <1>3, <3>3, <4>1 DEF LockSleepersWait, NoStrandedLocker
    <3> QED BY <2>6, <3>2, <3>3 DEF Parks
  <2>7. CASE Returns(t)
    BY <1>1, <1>2, <1>3, <1>5, <1>6, <2>7 DEF Returns, Goto, LockSleepersWait, NoStrandedLocker
  <2> QED BY <1>8, <2>1, <2>2, <2>3, <2>5, <2>6, <2>7
<1> QED
  BY <1>7, <1>8 DEF Effect, LockEffect

-----------------------------------------------------------------------------
(* What a section does to the events.                                      *)

\* An event number that no queued event is older than.
FreshFor(e) ==
    /\ e \in Nat /\ e <= nextEvent
    /\ mtx.events # NULL => \A i \in DOMAIN mtx.events : e <= mtx.events[i]

SameSubscribers == \A u \in Threads : pc'[u] \in SubWaitPCs <=> pc[u] \in SubWaitPCs

\* Nothing, but for sleepers that are woken.
Rests ==
    /\ mtx'.events = mtx.events /\ mtx'.waiters = mtx.waiters
    /\ mtx'.cond_w \subseteq mtx.cond_w /\ SameSubscribers
    /\ UNCHANGED <<first, nextEvent, stale>>

\* k events are queued; with one event one sleeper is woken, with more all are.
Posts ==
    /\ \E k \in Nat \ {0} :
         /\ \/ mtx.events # NULL
               /\ mtx'.events = mtx.events \o [i \in 1 .. k |-> nextEvent]
            \/ mtx.events = NULL /\ mtx'.events = <<>> \o [i \in 1 .. k |-> nextEvent]
         /\ \/ mtx'.cond_w = {}
            \/ k = 1 /\ \E u \in mtx.cond_w : mtx'.cond_w = mtx.cond_w \ {u}
    /\ mtx'.waiters = mtx.waiters /\ SameSubscribers
    /\ nextEvent' = nextEvent + 1 /\ UNCHANGED <<first, stale>>

\* The queue is emptied, for hb_mutexSubscribeNow(), or an empty one is made.
Clears ==
    /\ mtx'.events \in {NULL, <<>>}
    /\ mtx'.waiters = mtx.waiters /\ mtx'.cond_w = mtx.cond_w /\ SameSubscribers
    /\ \/ UNCHANGED first
       \/ \E t \in Threads, e \in {0, nextEvent} : first' = [first EXCEPT ![t] = e]
    /\ UNCHANGED <<nextEvent, stale>>

\* A thread falls asleep, for the first time or again, beside an empty queue.
Sleeps(t) ==
    /\ ~HasEvent(mtx) /\ mtx'.events = mtx.events
    /\ mtx'.cond_w = mtx.cond_w \cup {t}
    /\ \/ /\ pc[t] \notin SubWaitPCs /\ mtx'.waiters = mtx.waiters + 1
          /\ \E l \in SubWaitPCs : pc' = [pc EXCEPT ![t] = l]
          /\ \E e : FreshFor(e) /\ first' = [first EXCEPT ![t] = e]
       \/ /\ pc[t] \in SubWaitPCs /\ mtx'.waiters = mtx.waiters
          /\ UNCHANGED <<pc, first>>
    /\ UNCHANGED <<nextEvent, stale>>

\* A call ends, with an event if there is one.
Fetches(t) ==
    /\ mtx'.events = Taken(mtx).events
    /\ \E l \in PCs \ SubWaitPCs : pc' = [pc EXCEPT ![t] = l]
    /\ \/ pc[t] \notin SubWaitPCs /\ mtx'.waiters = mtx.waiters /\ mtx'.cond_w = mtx.cond_w
       \/ /\ pc[t] \in SubWaitPCs /\ mtx'.waiters = mtx.waiters - 1
          /\ mtx'.cond_w = mtx.cond_w \ {t}
    /\ first' = [first EXCEPT ![t] = 0]
    /\ \E e : FreshFor(e) /\ stale' = (stale \/ (HasEvent(mtx) /\ Head(mtx.events) < e))
    /\ UNCHANGED nextEvent

EventEffect == Rests \/ Posts \/ Clears \/ \E t \in Threads : Sleeps(t) \/ Fetches(t)

\* The labels of subscribers asleep.
LEMMA NotSubscribing ==
    /\ "idle" \notin SubWaitPCs /\ "fault" \notin SubWaitPCs /\ "relock_wait" \notin SubWaitPCs
    /\ "sub_clear" \notin SubWaitPCs /\ "tsub_clear" \notin SubWaitPCs
    /\ "lock_wait" \notin SubWaitPCs /\ "tlock_wait" \notin SubWaitPCs
    /\ "sync_wait" \notin SubWaitPCs /\ "tsync_wait" \notin SubWaitPCs
    /\ \A l \in EventPCs : l \notin SubWaitPCs
    /\ "sub_wait" \in SubWaitPCs /\ "tsub_wait" \in SubWaitPCs
  BY DEF SubWaitPCs, EventPCs

\* How a call of hb_mutexSubscribe() that has not waited goes on.
LEMMA SubscribeEvents ==
    ASSUME LockInv, NEW t \in Threads, NEW e, FreshFor(e),
           pc[t] \in {"idle", "sub_clear", "tsub_clear"},
           SubscribeBody(t, e) \/ TimedSubscribeBody(t, e)
    PROVE  EventEffect
<1> DEFINE n == IF mtx.owner = t THEN mtx.lock_count ELSE 0
<1>1. /\ mtx \in HB_MUTEX /\ n \in Nat /\ pc \in [Threads -> PCs] /\ pc[t] \notin SubWaitPCs
  BY NotSubscribing DEF LockInv, LockMatchesBelief, TypeOK, HB_MUTEX
<1>2. \A m \in DropOwn(mtx, t) :
        /\ m \in HB_MUTEX /\ m.waiters = mtx.waiters /\ m.events = mtx.events
        /\ m.cond_w = mtx.cond_w
  BY <1>1, DropOwnProps
<1>3. ASSUME NEW m \in DropOwn(mtx, t), NEW l \in SubWaitPCs, MustWait(m, t),
             mtx' = SleepW([m EXCEPT !.waiters = @ + 1], t), Goto(t, l),
             first' = [first EXCEPT ![t] = e], UNCHANGED <<nextEvent, stale>>
      PROVE  EventEffect
  <2>1. ~HasEvent(mtx)
    BY <1>2, <1>3 DEF MustWait, HasEvent
  <2>2. /\ mtx'.waiters = mtx.waiters + 1 /\ mtx'.events = mtx.events
        /\ mtx'.cond_w = mtx.cond_w \cup {t}
    BY <1>2, <1>3, SubscribeProps
  <2>3. Sleeps(t)
    BY <1>1, <1>3, <2>1, <2>2 DEF Sleeps, Goto
  <2> QED BY <2>3 DEF EventEffect
<1>4. ASSUME NEW m \in HB_MUTEX, NEW k \in Nat, FinishSubscribe(m, t, k, e),
             m.waiters = mtx.waiters, m.events = mtx.events, m.cond_w = mtx.cond_w
      PROVE  EventEffect
  <2>1. /\ mtx'.waiters = mtx.waiters /\ mtx'.cond_w = mtx.cond_w
        /\ mtx'.events = Taken(m).events /\ first' = [first EXCEPT ![t] = 0]
        /\ stale' = (stale \/ (HasEvent(m) /\ Head(m.events) < e)) /\ UNCHANGED nextEvent
        /\ Goto(t, "idle") \/ Goto(t, "relock_wait")
    BY <1>4, FinishProps
  <2>2. (HasEvent(m) <=> HasEvent(mtx)) /\ Taken(m).events = Taken(mtx).events
    BY <1>1, <1>4, TakenProps DEF HasEvent
  <2>3. \E l \in PCs \ SubWaitPCs : pc' = [pc EXCEPT ![t] = l]
    BY <2>1, Labels, NotSubscribing DEF Goto
  <2>4. Fetches(t)
    BY <1>1, <1>4, <2>1, <2>2, <2>3 DEF Fetches
  <2> QED BY <2>4 DEF EventEffect
<1>5. \A m \in DropOwn(mtx, t) : FinishSubscribe(m, t, n, e) => EventEffect
  BY <1>1, <1>2, <1>4
<1>6. FinishSubscribe(mtx, t, 0, e) => EventEffect
  BY <1>1, <1>4
<1>7. CASE SubscribeBody(t, e)
  BY <1>3, <1>5, <1>7 DEF SubscribeBody, SubWaitPCs
<1>8. CASE TimedSubscribeBody(t, e)
  BY <1>3, <1>5, <1>6, <1>8 DEF TimedSubscribeBody, SubWaitPCs
<1> QED
  BY <1>7, <1>8

\* How a subscriber that has waited returns.
LEMMA ReturnEvents ==
    ASSUME LockInv, NEW t \in Threads, NEW m \in HB_MUTEX, FreshFor(first[t]),
           pc[t] \in SubWaitPCs, m.waiters = mtx.waiters - 1, m.events = mtx.events,
           m.cond_w = mtx.cond_w \ {t}, FinishSubscribe(m, t, saved[t], first[t])
    PROVE  EventEffect
<1>1. mtx \in HB_MUTEX /\ pc \in [Threads -> PCs] /\ saved[t] \in Nat
  BY DEF LockInv, LockMatchesBelief, TypeOK
<1>2. /\ mtx'.waiters = m.waiters /\ mtx'.cond_w = m.cond_w
      /\ mtx'.events = Taken(m).events /\ first' = [first EXCEPT ![t] = 0]
      /\ stale' = (stale \/ (HasEvent(m) /\ Head(m.events) < first[t])) /\ UNCHANGED nextEvent
      /\ Goto(t, "idle") \/ Goto(t, "relock_wait")
  BY <1>1, FinishProps
<1>3. (HasEvent(m) <=> HasEvent(mtx)) /\ Taken(m).events = Taken(mtx).events
  BY <1>1, TakenProps DEF HasEvent
<1>4. \E l \in PCs \ SubWaitPCs : pc' = [pc EXCEPT ![t] = l]
  BY <1>2, Labels, NotSubscribing DEF Goto
<1>5. Fetches(t)
  BY <1>1, <1>2, <1>3, <1>4 DEF Fetches
<1> QED
  BY <1>5 DEF EventEffect

\* Who sleeps on a condition is counted.
LEMMA SleepersCounted ==
    ASSUME LockInv
    PROVE  mtx.cond_w # {} => mtx.waiters # 0
<1>1. TypeOK /\ mtx.cond_w \in SUBSET Threads /\ mtx.waiters \in Nat
  BY DEF LockInv, LockMatchesBelief, TypeOK, HB_MUTEX
<1>2. \A t \in mtx.cond_w : mtx.waiters - 1 \in Nat
  BY <1>1, Counted DEF LockInv, SleepersWait
<1> QED
  BY <1>1, <1>2

\* What hb_threadMutexNotify() does to the events.
LEMMA NotifyEvents ==
    ASSUME LockInv, NEW t \in Threads, NEW all \in BOOLEAN, NEW m \in HB_MUTEX,
           pc[t] \notin SubWaitPCs, m.waiters = mtx.waiters, m.cond_w = mtx.cond_w,
           m.events = mtx.events \/ (mtx.events = NULL /\ m.events = <<>>),
           NotifyBody(m, t, all)
    PROVE  EventEffect
<1> DEFINE iCount == IF all THEN m.waiters - Len(m.events) ELSE 1
<1>1. /\ pc \in [Threads -> PCs] /\ mtx \in HB_MUTEX
      /\ pc' = [pc EXCEPT ![t] = "fault"] \/ pc' = [pc EXCEPT ![t] = "idle"]
      /\ UNCHANGED <<first, stale>>
  BY DEF LockInv, LockMatchesBelief, TypeOK, NotifyBody, Goto
<1>2. SameSubscribers
  BY <1>1, NotSubscribing DEF SameSubscribers
<1>3. CASE mtx' = m /\ UNCHANGED nextEvent
  <2>1. CASE m.events = mtx.events
    BY <1>1, <1>2, <1>3, <2>1 DEF Rests, EventEffect
  <2>2. CASE m.events = <<>>
    BY <1>1, <1>2, <1>3, <2>2 DEF Clears, EventEffect
  <2> QED BY <2>1, <2>2
<1>4. CASE /\ m.events # NULL /\ (all => m.waiters > Len(m.events))
           /\ nextEvent' = nextEvent + 1
           /\ \E s \in Wake(m, iCount) :
                mtx' = [m EXCEPT !.events = @ \o [i \in 1 .. iCount |-> nextEvent],
                                 !.cond_w = s]
  <2>1. PICK s \in Wake(m, iCount) :
          mtx' = [m EXCEPT !.events = @ \o [i \in 1 .. iCount |-> nextEvent], !.cond_w = s]
    BY <1>4
  <2>2. m.events \in Seq(Nat) /\ m.waiters \in Nat
    BY <1>4 DEF HB_MUTEX
  <2>3. iCount \in Nat \ {0}
    BY <1>4, <2>2, LenProperties
  <2>4. /\ mtx'.events = m.events \o [i \in 1 .. iCount |-> nextEvent]
        /\ mtx'.cond_w = s /\ mtx'.waiters = m.waiters
    BY <2>1 DEF HB_MUTEX
  <2> HIDE DEF iCount
  <2>5. s = {} \/ (iCount = 1 /\ \E u \in mtx.cond_w : s = mtx.cond_w \ {u})
    BY <2>1, SleepersCounted DEF Wake, Signal
  <2>6. Posts
    BY <1>1, <1>2, <1>4, <2>3, <2>4, <2>5 DEF Posts
  <2> QED BY <2>6 DEF EventEffect
<1> QED
  BY <1>3, <1>4 DEF NotifyBody

\* The recorded numbers are numbers.
LEMMA EventTypes ==
    LockInv => /\ first \in [Threads -> Nat] /\ nextEvent \in Nat
               /\ mtx.events \in Seq(Nat) \cup {NULL}
               /\ mtx.events # NULL => \A i \in DOMAIN mtx.events : mtx.events[i] \in Nat
<1> SUFFICES ASSUME LockInv
             PROVE  /\ first \in [Threads -> Nat] /\ nextEvent \in Nat
                    /\ mtx.events \in Seq(Nat) \cup {NULL}
                    /\ mtx.events # NULL => \A i \in DOMAIN mtx.events : mtx.events[i] \in Nat
  OBVIOUS
<1>1. /\ first \in [Threads -> Nat] /\ nextEvent \in Nat /\ mtx.events \in Seq(Nat) \cup {NULL}
  BY DEF LockInv, LockMatchesBelief, TypeOK, HB_MUTEX
<1>2. ASSUME NEW s \in Seq(Nat), NEW i \in DOMAIN s PROVE s[i] \in Nat
  BY <1>2, LenProperties, ElementOfSeq
<1> QED
  BY <1>1, <1>2

\* While the invariant holds, what a subscriber remembers is fresh.
LEMMA FirstIsFresh ==
    ASSUME LockInv, EventsAreFresh, NEW t \in Threads
    PROVE  FreshFor(first[t])
  BY EventTypes DEF FreshFor, EventsAreFresh

\* Every step of the mutex has one of these effects on the events.
LEMMA EventStep == LockInv /\ EventsAreFresh /\ [Next]_vars => EventEffect
<1> SUFFICES ASSUME LockInv, EventsAreFresh, [Next]_vars PROVE EventEffect
  OBVIOUS
<1> /\ TypeOK /\ QueueCountsExact /\ mtx \in HB_MUTEX /\ pc \in [Threads -> PCs]
    /\ nextEvent \in Nat
  BY DEF LockInv, LockMatchesBelief, TypeOK
<1>1. ASSUME NEW t \in Threads, ThreadNext(t) PROVE EventEffect
  <2>1. ASSUME LockAgain(t) PROVE EventEffect
    <3>1. /\ mtx'.events = mtx.events /\ mtx'.waiters = mtx.waiters
          /\ mtx'.cond_w = mtx.cond_w /\ UNCHANGED <<first, nextEvent, stale>>
      BY <2>1 DEF LockAgain, history, HB_MUTEX, Acquire, Own, SleepL
    <3>2. SameSubscribers
      BY <2>1, NotSubscribing, Labels DEF LockAgain, SameSubscribers, Goto, Acquire, history
    <3> QED BY <3>1, <3>2 DEF Rests, EventEffect
  <2>2. ASSUME Lock(t) PROVE EventEffect
    <3>1. /\ mtx'.events = mtx.events /\ mtx'.waiters = mtx.waiters
          /\ mtx'.cond_w = mtx.cond_w /\ UNCHANGED <<first, nextEvent, stale>>
      BY <2>2 DEF Lock, history, HB_MUTEX, Acquire, Own, SleepL
    <3>2. SameSubscribers
      BY <2>2, NotSubscribing, Labels DEF Lock, SameSubscribers, Goto, Acquire, history
    <3> QED BY <3>1, <3>2 DEF Rests, EventEffect
  <2>3. ASSUME LockWoken(t) PROVE EventEffect
    <3>1. /\ mtx'.events = mtx.events /\ mtx'.waiters = mtx.waiters
          /\ mtx'.cond_w = mtx.cond_w /\ UNCHANGED <<first, nextEvent, stale>>
      BY <2>3 DEF LockWoken, history, HB_MUTEX, Acquire, Own, SleepL
    <3>2. SameSubscribers
      BY <2>3, NotSubscribing, Labels DEF LockWoken, SameSubscribers, Goto, Acquire, history
    <3> QED BY <3>1, <3>2 DEF Rests, EventEffect
  <2>4. ASSUME TimedLock(t) PROVE EventEffect
    <3>1. /\ mtx'.events = mtx.events /\ mtx'.waiters = mtx.waiters
          /\ mtx'.cond_w = mtx.cond_w /\ UNCHANGED <<first, nextEvent, stale>>
      BY <2>4 DEF TimedLock, history, HB_MUTEX, Acquire, Own, SleepL
    <3>2. SameSubscribers
      BY <2>4, NotSubscribing, Labels DEF TimedLock, SameSubscribers, Goto, Acquire, history
    <3> QED BY <3>1, <3>2 DEF Rests, EventEffect
  <2>5. ASSUME TimedLockWoken(t) PROVE EventEffect
    <3>1. /\ mtx'.events = mtx.events /\ mtx'.waiters = mtx.waiters
          /\ mtx'.cond_w = mtx.cond_w /\ UNCHANGED <<first, nextEvent, stale>>
      BY <2>5 DEF TimedLockWoken, history, HB_MUTEX, Acquire, Own, SleepL
    <3>2. SameSubscribers
      BY <2>5, NotSubscribing, Labels DEF TimedLockWoken, SameSubscribers, Goto, Acquire, history
    <3> QED BY <3>1, <3>2 DEF Rests, EventEffect
  <2>6. ASSUME TimedLockTimeout(t) PROVE EventEffect
    <3>1. /\ mtx'.events = mtx.events /\ mtx'.waiters = mtx.waiters
          /\ mtx'.cond_w = mtx.cond_w /\ UNCHANGED <<first, nextEvent, stale>>
      BY <2>6 DEF TimedLockTimeout, history, HB_MUTEX, Acquire, Own, SleepL
    <3>2. SameSubscribers
      BY <2>6, NotSubscribing, Labels DEF TimedLockTimeout, SameSubscribers, Goto, Acquire, history
    <3> QED BY <3>1, <3>2 DEF Rests, EventEffect
  <2>7. ASSUME Unlock(t) PROVE EventEffect
    <3>1. /\ mtx'.events = mtx.events /\ mtx'.waiters = mtx.waiters
          /\ mtx'.cond_w = mtx.cond_w
      BY <2>7, DropOwnProps, FreeProps DEF Unlock, HB_MUTEX
    <3>2. UNCHANGED <<first, nextEvent, stale>>
      BY <2>7 DEF Unlock, history
    <3>3. SameSubscribers
      BY <2>7, NotSubscribing DEF Unlock, SameSubscribers, Goto
    <3> QED BY <3>1, <3>2, <3>3 DEF Rests, EventEffect
  <2>8. ASSUME ThreadEnd(t) PROVE EventEffect
    <3>1. /\ mtx'.events = mtx.events /\ mtx'.waiters = mtx.waiters
          /\ mtx'.cond_w = mtx.cond_w
      BY <2>8, DropOwnProps, FreeProps DEF ThreadEnd, HB_MUTEX
    <3>2. UNCHANGED <<first, nextEvent, stale>>
      BY <2>8 DEF ThreadEnd, history
    <3>3. SameSubscribers
      BY <2>8, NotSubscribing DEF ThreadEnd, SameSubscribers, Goto
    <3> QED BY <3>1, <3>2, <3>3 DEF Rests, EventEffect
  <2>9. ASSUME NEW all \in BOOLEAN, Notify(t, all) PROVE EventEffect
    <3>1. CASE NotifyBody(mtx, t, all)
      BY <2>9, <3>1, NotifyEvents, NotSubscribing DEF Notify
    <3>2. CASE Goto(t, Allocating(all)) /\ UNCHANGED <<mtx, syncCond, saved, request>> /\ UNCHANGED history
      <4>1. pc[t] = "idle"
        BY <2>9 DEF Notify
      <4>2. SameSubscribers
        BY <3>2, <4>1, Labels, NotSubscribing DEF Goto, SameSubscribers
      <4> QED BY <3>2, <4>2 DEF Rests, EventEffect, history
    <3> QED BY <2>9, <3>1, <3>2 DEF Notify
  <2>10. ASSUME NEW all \in BOOLEAN, EventStore(t, all) PROVE EventEffect
    <3> DEFINE m == [mtx EXCEPT !.events = <<>>]
    <3>1. pc[t] = Allocating(all) /\ NotifyBody(m, t, all) /\ mtx.events = NULL
      BY <2>10 DEF EventStore
    <3>2. <<>> \in Seq(Nat)
      BY EmptySeq
    <3>3. m \in HB_MUTEX /\ m.events = <<>> /\ m.waiters = mtx.waiters /\ m.cond_w = mtx.cond_w
      BY <3>2 DEF HB_MUTEX
    <3> HIDE DEF m
    <3>4. pc[t] \notin SubWaitPCs
      BY <3>1, Labels, NotSubscribing
    <3> QED BY <3>1, <3>3, <3>4, NotifyEvents
  <2>11. ASSUME NEW all \in BOOLEAN, EventDrop(t, all) PROVE EventEffect
    <3>1. /\ mtx'.events = mtx.events /\ mtx'.waiters = mtx.waiters
          /\ mtx'.cond_w = mtx.cond_w /\ UNCHANGED <<first, nextEvent, stale>>
      BY <2>11 DEF EventDrop, history, HB_MUTEX, Acquire, Own, SleepL
    <3>2. SameSubscribers
      BY <2>11, NotSubscribing, Labels DEF EventDrop, SameSubscribers, Goto, Acquire, history
    <3> QED BY <3>1, <3>2 DEF Rests, EventEffect
  <2>12. ASSUME NEW all \in BOOLEAN, EventDropped(t, all) PROVE EventEffect
    <3>1. pc[t] \notin SubWaitPCs /\ NotifyBody(mtx, t, all)
      BY <2>12, Labels, NotSubscribing DEF EventDropped
    <3> QED BY <3>1, NotifyEvents
  <2>13. ASSUME NEW fClear \in BOOLEAN, NEW timed \in BOOLEAN, Subscribe(t, fClear, timed) PROVE EventEffect
    <3> DEFINE e == IF fClear THEN nextEvent ELSE 0
    <3>1. pc[t] = "idle"
      BY <2>13 DEF Subscribe
    <3>2. CASE MustClear(mtx, fClear)
      <4>1. /\ mtx' = [mtx EXCEPT !.events = NULL]
            /\ first' = [first EXCEPT ![t] = e] /\ UNCHANGED <<nextEvent, stale>>
            /\ Goto(t, "tsub_clear") \/ Goto(t, "sub_clear")
        BY <2>13, <3>2 DEF Subscribe
      <4>2. mtx'.events = NULL /\ mtx'.waiters = mtx.waiters /\ mtx'.cond_w = mtx.cond_w
        BY <4>1 DEF HB_MUTEX
      <4>3. SameSubscribers
        BY <3>1, <4>1, NotSubscribing DEF SameSubscribers, Goto
      <4>4. Clears
        BY <4>1, <4>2, <4>3 DEF Clears
      <4> QED BY <4>4 DEF EventEffect
    <3>3. CASE ~MustClear(mtx, fClear)
      <4>1. SubscribeBody(t, e) \/ TimedSubscribeBody(t, e)
        BY <2>13, <3>3 DEF Subscribe
      <4>2. FreshFor(e)
        <5>1. CASE fClear
          BY <3>3, <5>1 DEF MustClear, FreshFor
        <5>2. CASE ~fClear
          BY <5>2, EventTypes DEF FreshFor
        <5> QED BY <5>1, <5>2
      <4> QED BY <3>1, <4>1, <4>2, SubscribeEvents
    <3> QED BY <3>2, <3>3
  <2>14. ASSUME SubscribeCleared(t) PROVE EventEffect
    BY <2>14, FirstIsFresh, SubscribeEvents DEF SubscribeCleared
  <2>15. ASSUME SubscribeWoken(t) PROVE EventEffect
    <3>1. pc[t] = "sub_wait" /\ t \notin mtx.cond_w
      BY <2>15 DEF SubscribeWoken
    <3>2. CASE MustWait(mtx, t)
      <4>1. mtx' = SleepW(mtx, t) /\ UNCHANGED <<pc, first, nextEvent, stale>>
        BY <2>15, <3>2 DEF SubscribeWoken, history
      <4>2. /\ mtx'.events = mtx.events /\ mtx'.waiters = mtx.waiters
            /\ mtx'.cond_w = mtx.cond_w \cup {t}
        BY <4>1 DEF HB_MUTEX, SleepW
      <4>3. Sleeps(t)
        BY <3>1, <3>2, <4>1, <4>2, NotSubscribing DEF Sleeps, MustWait
      <4> QED BY <4>3 DEF EventEffect
    <3>3. CASE ~MustWait(mtx, t)
      <4> DEFINE m == [mtx EXCEPT !.waiters = @ - 1]
      <4>1. mtx.waiters - 1 \in Nat
        BY <3>1, Counted DEF SubWaitPCs
      <4>2. /\ m \in HB_MUTEX /\ m.waiters = mtx.waiters - 1 /\ m.events = mtx.events
            /\ m.cond_w = mtx.cond_w
        BY <4>1 DEF HB_MUTEX
      <4>3. FinishSubscribe(m, t, saved[t], first[t])
        BY <2>15, <3>3 DEF SubscribeWoken
      <4> HIDE DEF m
      <4>4. m.cond_w = mtx.cond_w \ {t}
        BY <3>1, <4>2
      <4> QED BY <3>1, <4>2, <4>3, <4>4, FirstIsFresh, NotSubscribing, ReturnEvents
    <3> QED BY <3>2, <3>3
  <2>16. ASSUME TimedSubscribeWoken(t) PROVE EventEffect
    <3>1. pc[t] = "tsub_wait" /\ t \notin mtx.cond_w
      BY <2>16 DEF TimedSubscribeWoken
    <3>2. CASE MustWait(mtx, t)
      <4>1. mtx' = SleepW(mtx, t) /\ UNCHANGED <<pc, first, nextEvent, stale>>
        BY <2>16, <3>2 DEF TimedSubscribeWoken, history
      <4>2. /\ mtx'.events = mtx.events /\ mtx'.waiters = mtx.waiters
            /\ mtx'.cond_w = mtx.cond_w \cup {t}
        BY <4>1 DEF HB_MUTEX, SleepW
      <4>3. Sleeps(t)
        BY <3>1, <3>2, <4>1, <4>2, NotSubscribing DEF Sleeps, MustWait
      <4> QED BY <4>3 DEF EventEffect
    <3>3. CASE ~MustWait(mtx, t)
      <4> DEFINE m == [mtx EXCEPT !.waiters = @ - 1]
      <4>1. mtx.waiters - 1 \in Nat
        BY <3>1, Counted DEF SubWaitPCs
      <4>2. /\ m \in HB_MUTEX /\ m.waiters = mtx.waiters - 1 /\ m.events = mtx.events
            /\ m.cond_w = mtx.cond_w
        BY <4>1 DEF HB_MUTEX
      <4>3. FinishSubscribe(m, t, saved[t], first[t])
        BY <2>16, <3>3 DEF TimedSubscribeWoken
      <4> HIDE DEF m
      <4>4. m.cond_w = mtx.cond_w \ {t}
        BY <3>1, <4>2
      <4> QED BY <3>1, <4>2, <4>3, <4>4, FirstIsFresh, NotSubscribing, ReturnEvents
    <3> QED BY <3>2, <3>3
  <2>17. ASSUME TimedSubscribeTimeout(t) PROVE EventEffect
    <3> DEFINE m == [mtx EXCEPT !.waiters = @ - 1, !.cond_w = @ \ {t}]
    <3>1. pc[t] = "tsub_wait" /\ FinishSubscribe(m, t, saved[t], first[t])
      BY <2>17 DEF TimedSubscribeTimeout
    <3>2. mtx.waiters - 1 \in Nat
      BY <3>1, Counted DEF SubWaitPCs
    <3>3. /\ m \in HB_MUTEX /\ m.waiters = mtx.waiters - 1 /\ m.events = mtx.events
          /\ m.cond_w = mtx.cond_w \ {t}
      BY <3>2 DEF HB_MUTEX
    <3> HIDE DEF m
    <3> QED BY <3>1, <3>3, FirstIsFresh, NotSubscribing, ReturnEvents
  <2>18. ASSUME RelockWoken(t) PROVE EventEffect
    <3>1. /\ mtx'.events = mtx.events /\ mtx'.waiters = mtx.waiters
          /\ mtx'.cond_w = mtx.cond_w /\ UNCHANGED <<first, nextEvent, stale>>
      BY <2>18 DEF RelockWoken, history, HB_MUTEX, Acquire, Own, SleepL
    <3>2. SameSubscribers
      BY <2>18, NotSubscribing, Labels DEF RelockWoken, SameSubscribers, Goto, Acquire, history
    <3> QED BY <3>1, <3>2 DEF Rests, EventEffect
  <2>19. ASSUME NEW timed \in BOOLEAN, SyncWait(t, timed) PROVE EventEffect
    <3>1. /\ mtx'.events = mtx.events /\ mtx'.waiters = mtx.waiters
          /\ mtx'.cond_w = mtx.cond_w
      BY <2>19, DropOwnProps, FreeProps DEF SyncWait, HB_MUTEX
    <3>2. UNCHANGED <<first, nextEvent, stale>>
      BY <2>19 DEF SyncWait, history
    <3>3. SameSubscribers
      BY <2>19, NotSubscribing DEF SyncWait, SameSubscribers, Goto
    <3> QED BY <3>1, <3>2, <3>3 DEF Rests, EventEffect
  <2>20. ASSUME SyncSignal(t) PROVE EventEffect
    <3>1. /\ mtx'.events = mtx.events /\ mtx'.waiters = mtx.waiters
          /\ mtx'.cond_w = mtx.cond_w /\ UNCHANGED <<first, nextEvent, stale>>
      BY <2>20 DEF SyncSignal, history, HB_MUTEX, Acquire, Own, SleepL
    <3>2. SameSubscribers
      BY <2>20, NotSubscribing, Labels DEF SyncSignal, SameSubscribers, Goto, Acquire, history
    <3> QED BY <3>1, <3>2 DEF Rests, EventEffect
  <2>21. ASSUME SyncWoken(t) PROVE EventEffect
    <3>1. /\ mtx'.events = mtx.events /\ mtx'.waiters = mtx.waiters
          /\ mtx'.cond_w = mtx.cond_w /\ UNCHANGED <<first, nextEvent, stale>>
      BY <2>21 DEF SyncWoken, history, HB_MUTEX, Acquire, Own, SleepL
    <3>2. SameSubscribers
      BY <2>21, NotSubscribing, Labels DEF SyncWoken, SameSubscribers, Goto, Acquire, history
    <3> QED BY <3>1, <3>2 DEF Rests, EventEffect
  <2>22. ASSUME SyncTimeout(t) PROVE EventEffect
    <3>1. /\ mtx'.events = mtx.events /\ mtx'.waiters = mtx.waiters
          /\ mtx'.cond_w = mtx.cond_w /\ UNCHANGED <<first, nextEvent, stale>>
      BY <2>22 DEF SyncTimeout, history, HB_MUTEX, Acquire, Own, SleepL
    <3>2. SameSubscribers
      BY <2>22, NotSubscribing, Labels DEF SyncTimeout, SameSubscribers, Goto, Acquire, history
    <3> QED BY <3>1, <3>2 DEF Rests, EventEffect
  <2>23. ASSUME QuitRequest(t) PROVE EventEffect
    <3>1. /\ mtx'.events = mtx.events /\ mtx'.waiters = mtx.waiters
          /\ mtx'.cond_w = mtx.cond_w /\ UNCHANGED <<first, nextEvent, stale>>
      BY <2>23 DEF QuitRequest, history, HB_MUTEX, Acquire, Own, SleepL
    <3>2. SameSubscribers
      BY <2>23, NotSubscribing, Labels DEF QuitRequest, SameSubscribers, Goto, Acquire, history
    <3> QED BY <3>1, <3>2 DEF Rests, EventEffect
  <2>24. ASSUME SpuriousWakeup(t) PROVE EventEffect
    <3>1. /\ mtx'.events = mtx.events /\ mtx'.waiters = mtx.waiters
          /\ mtx'.cond_w \subseteq mtx.cond_w /\ UNCHANGED <<pc, first, nextEvent, stale>>
      BY <2>24 DEF SpuriousWakeup, history, HB_MUTEX
    <3> QED BY <3>1 DEF Rests, EventEffect, SameSubscribers
  <2> QED
    BY <1>1, <2>1, <2>2, <2>3, <2>4, <2>5, <2>6, <2>7, <2>8, <2>9, <2>10, <2>11, <2>12,
       <2>13, <2>14, <2>15, <2>16, <2>17, <2>18, <2>19, <2>20, <2>21, <2>22, <2>23, <2>24 DEF ThreadNext
<1>2. CASE UnsubscribeAll
  <2>1. /\ mtx'.events = mtx.events /\ mtx'.waiters = mtx.waiters /\ mtx'.cond_w = {}
        /\ UNCHANGED <<pc, first, nextEvent, stale>>
    BY <1>2 DEF UnsubscribeAll, history, HB_MUTEX
  <2> QED BY <2>1 DEF Rests, EventEffect, SameSubscribers
<1>3. CASE UNCHANGED vars
  BY <1>3 DEF vars, Rests, EventEffect, SameSubscribers
<1> QED
  BY <1>1, <1>2, <1>3, BoundThreads DEF Next

\* waiters counts the subscribers that have not left their wait.
WaitersExact == mtx.waiters = Cardinality({t \in Threads : pc[t] \in SubWaitPCs})

SubSleepersWait == \A t \in mtx.cond_w : pc[t] \in SubWaitPCs

\* Every effect keeps waiters exact, and only subscribers asleep on cond_w.
LEMMA WaitersStep == ASSUME LockInv, Effect, EventEffect PROVE WaitersExact' /\ SubSleepersWait'
<1>1. /\ mtx \in HB_MUTEX /\ mtx' \in HB_MUTEX
      /\ pc \in [Threads -> PCs] /\ pc' \in [Threads -> PCs]
      /\ mtx.waiters = CountOf(pc, SubWaitPCs)
      /\ \A u \in mtx.cond_w : pc[u] \in SubWaitPCs
  BY DEF LockInv, LockMatchesBelief, TypeOK, Effect, QueueCountsExact, CountOf, SleepersWait
<1>2. mtx.waiters \in Nat /\ mtx.cond_w \in SUBSET Threads /\ mtx'.cond_w \in SUBSET Threads
  BY <1>1 DEF HB_MUTEX
<1>3. WaitersExact' <=> mtx'.waiters = CountOf(pc', SubWaitPCs)
  BY DEF WaitersExact, CountOf
<1>4. ASSUME SameSubscribers, mtx'.waiters = mtx.waiters, mtx'.cond_w \subseteq mtx.cond_w
      PROVE  WaitersExact' /\ SubSleepersWait'
  <2>1. {u \in Threads : pc'[u] \in SubWaitPCs} = {u \in Threads : pc[u] \in SubWaitPCs}
    BY <1>4 DEF SameSubscribers
  <2>2. WaitersExact'
    BY <1>1, <1>4, <2>1 DEF WaitersExact, CountOf
  <2>3. SubSleepersWait'
    BY <1>1, <1>2, <1>4 DEF SubSleepersWait, SameSubscribers
  <2> QED BY <2>2, <2>3
<1>5. \A t \in Threads, l \in PCs :
        CountOf([pc EXCEPT ![t] = l], SubWaitPCs) =
          CountOf(pc, SubWaitPCs) + One(l, SubWaitPCs) - One(pc[t], SubWaitPCs)
  BY <1>1, CountMove, ZenonT(60)
<1>6. CASE Rests
  BY <1>4, <1>6 DEF Rests
<1>7. CASE Posts
  BY <1>4, <1>7 DEF Posts
<1>8. CASE Clears
  BY <1>4, <1>8 DEF Clears
<1>9. ASSUME NEW t \in Threads, Sleeps(t) PROVE WaitersExact' /\ SubSleepersWait'
  <2>1. CASE pc[t] \in SubWaitPCs
    <3>1. pc' = pc /\ mtx'.waiters = mtx.waiters /\ mtx'.cond_w = mtx.cond_w \cup {t}
      BY <1>9, <2>1 DEF Sleeps
    <3> QED BY <1>1, <1>3, <2>1, <3>1 DEF SubSleepersWait
  <2>2. CASE pc[t] \notin SubWaitPCs
    <3>1. /\ mtx'.waiters = mtx.waiters + 1 /\ mtx'.cond_w = mtx.cond_w \cup {t}
          /\ \E l \in SubWaitPCs : pc' = [pc EXCEPT ![t] = l]
      BY <1>9, <2>2 DEF Sleeps
    <3>2. PICK l \in SubWaitPCs : pc' = [pc EXCEPT ![t] = l]
      BY <3>1
    <3>3. l \in PCs /\ One(l, SubWaitPCs) = 1 /\ One(pc[t], SubWaitPCs) = 0
      BY <2>2 DEF PCs, One
    <3>4. WaitersExact'
      <4>1. CountOf(pc', SubWaitPCs) = mtx.waiters + 1 - 0
        BY <1>1, <1>5, <3>2, <3>3
      <4> QED BY <1>2, <1>3, <3>1, <4>1
    <3>5. SubSleepersWait'
      BY <1>1, <1>2, <3>1, <3>2 DEF SubSleepersWait
    <3> QED BY <3>4, <3>5
  <2> QED BY <2>1, <2>2
<1>10. ASSUME NEW t \in Threads, Fetches(t) PROVE WaitersExact' /\ SubSleepersWait'
  <2>1. PICK l \in PCs \ SubWaitPCs : pc' = [pc EXCEPT ![t] = l]
    BY <1>10 DEF Fetches
  <2>2. mtx'.waiters = mtx.waiters + One(l, SubWaitPCs) - One(pc[t], SubWaitPCs)
    BY <1>2, <1>10 DEF Fetches, One
  <2>3. WaitersExact'
    BY <1>1, <1>3, <1>5, <2>1, <2>2
  <2>4. SubSleepersWait'
    BY <1>1, <1>2, <1>10, <2>1 DEF Fetches, SubSleepersWait
  <2> QED BY <2>3, <2>4
<1> QED
  BY <1>6, <1>7, <1>8, <1>9, <1>10 DEF EventEffect

\* The subscribers on their way to fetch an event.
Awake == {t \in Threads : pc[t] \in SubWaitPCs /\ t \notin mtx.cond_w}

\* No subscriber is left asleep beside an event that nobody fetches.
LEMMA StrandedSubscriberStep ==
    ASSUME LockInv, NoStrandedSubscriber, Effect, EventEffect PROVE NoStrandedSubscriber'
<1>1. /\ mtx \in HB_MUTEX /\ mtx' \in HB_MUTEX
      /\ pc \in [Threads -> PCs] /\ pc' \in [Threads -> PCs]
      /\ \A u \in mtx.cond_w : pc[u] \in SubWaitPCs
  BY DEF LockInv, LockMatchesBelief, TypeOK, Effect, SleepersWait
<1>2. /\ mtx.cond_w \in SUBSET Threads /\ mtx'.cond_w \in SUBSET Threads
      /\ mtx.events \in Seq(Nat) \cup {NULL} /\ mtx'.events \in Seq(Nat) \cup {NULL}
  BY <1>1 DEF HB_MUTEX
<1>3. /\ IsFiniteSet(Awake) /\ IsFiniteSet(Awake')
      /\ Cardinality(Awake) \in Nat /\ Cardinality(Awake') \in Nat
  <2>1. Awake \subseteq Threads /\ Awake' \subseteq Threads
    BY DEF Awake
  <2> QED BY <2>1, MutexAssumption, FS_Subset, FS_CardinalityType
<1>4. NoStrandedSubscriber <=>
        (mtx.cond_w # {} /\ HasEvent(mtx) => Len(mtx.events) <= Cardinality(Awake))
  BY DEF NoStrandedSubscriber, Awake
<1>5. NoStrandedSubscriber' <=>
        (mtx'.cond_w # {} /\ HasEvent(mtx') => Len(mtx'.events) <= Cardinality(Awake'))
  BY DEF NoStrandedSubscriber, Awake, HasEvent
<1>6. HasEvent(mtx) => mtx.events \in Seq(Nat) /\ Len(mtx.events) \in Nat
  BY <1>2, LenProperties DEF HasEvent
<1>7. Awake \subseteq Awake' => Cardinality(Awake) <= Cardinality(Awake')
  BY <1>3, FS_Subset
<1>8. CASE Rests
  <2>1. Awake \subseteq Awake' /\ (HasEvent(mtx') <=> HasEvent(mtx)) /\ mtx'.events = mtx.events
    BY <1>8 DEF Rests, SameSubscribers, Awake, HasEvent
  <2>2. mtx'.cond_w # {} => mtx.cond_w # {}
    BY <1>8 DEF Rests
  <2> QED BY <1>3, <1>4, <1>5, <1>6, <1>7, <2>1, <2>2
<1>9. CASE Posts
  <2>1. SUFFICES ASSUME mtx'.cond_w # {} PROVE Len(mtx'.events) <= Cardinality(Awake')
    BY <1>5
  <2> DEFINE q == IF mtx.events = NULL THEN <<>> ELSE mtx.events
             one == [i \in 1 .. 1 |-> nextEvent]
  <2>2. mtx'.events = q \o one /\ \E u \in mtx.cond_w : mtx'.cond_w = mtx.cond_w \ {u}
    BY <1>9, <2>1 DEF Posts
  <2>3. PICK u \in mtx.cond_w : mtx'.cond_w = mtx.cond_w \ {u}
    BY <2>2
  <2>4. Awake' = Awake \cup {u} /\ u \notin Awake
    BY <1>1, <1>2, <1>9, <2>3 DEF Posts, SameSubscribers, Awake
  <2>5. Cardinality(Awake') = Cardinality(Awake) + 1
    BY <1>3, <2>4, FS_AddElement
  <2>6. q \in Seq(Nat) /\ nextEvent \in Nat
    BY <1>2, EmptySeq DEF LockInv, LockMatchesBelief, TypeOK
  <2>7. one \in Seq(Nat) /\ Len(one) = 1
    <3>1. one \in Seq(Nat)
      BY <2>6, SeqDef
    <3>2. DOMAIN one = 1 .. 1
      OBVIOUS
    <3> QED BY <3>1, <3>2, LenProperties
  <2>8. Len(q \o one) = Len(q) + 1
    <3> HIDE DEF one, q
    <3>1. q \in Seq(Nat) /\ one \in Seq(Nat)
      BY <2>6, <2>7
    <3>2. Len(q \o one) = Len(q) + Len(one)
      BY <3>1, ConcatProperties, Zenon
    <3> QED BY <2>7, <3>2
  <2> HIDE DEF one
  <2>9. Len(q) <= Cardinality(Awake) /\ Len(q) \in Nat
    <3>1. CASE HasEvent(mtx)
      <4>1. q = mtx.events /\ mtx.cond_w # {}
        BY <2>3, <3>1 DEF HasEvent
      <4> QED BY <1>4, <1>6, <3>1, <4>1
    <3>2. CASE ~HasEvent(mtx)
      <4>1. q = <<>>
        BY <3>2 DEF HasEvent
      <4>2. Len(q) = 0
        BY <4>1, EmptySeq
      <4> QED BY <1>3, <4>2
    <3> QED BY <3>1, <3>2
  <2> QED BY <1>3, <2>2, <2>5, <2>8, <2>9
<1>10. CASE Clears
  BY <1>5, <1>10 DEF Clears, HasEvent
<1>11. ASSUME NEW t \in Threads, Sleeps(t) PROVE NoStrandedSubscriber'
  <2>1. ~HasEvent(mtx')
    BY <1>11 DEF Sleeps, HasEvent
  <2> QED BY <1>5, <2>1
<1>12. ASSUME NEW t \in Threads, Fetches(t) PROVE NoStrandedSubscriber'
  <2>1. SUFFICES ASSUME mtx'.cond_w # {}, HasEvent(mtx')
                 PROVE  Len(mtx'.events) <= Cardinality(Awake')
    BY <1>5
  <2>2. HasEvent(mtx)
    <3>1. ~HasEvent(mtx) => mtx'.events = mtx.events
      BY <1>1, <1>12, TakenProps DEF Fetches
    <3> QED BY <2>1, <3>1 DEF HasEvent
  <2>3. mtx.events \in Seq(Nat) /\ mtx.events # <<>> /\ mtx'.events = Tail(mtx.events)
    BY <1>1, <1>12, <2>2, TakenProps DEF Fetches, HasEvent
  <2>4. Len(mtx'.events) = Len(mtx.events) - 1 /\ Len(mtx.events) \in Nat
    BY <2>3, HeadTailProperties, LenProperties
  <2>5. mtx.cond_w # {} /\ Len(mtx.events) <= Cardinality(Awake)
    BY <1>4, <1>12, <2>1, <2>2 DEF Fetches
  <2>6. PICK l \in PCs \ SubWaitPCs : pc' = [pc EXCEPT ![t] = l]
    BY <1>12 DEF Fetches
  <2>7. Cardinality(Awake) <= Cardinality(Awake') + 1
    <3>1. CASE t \in Awake
      <4>1. Awake' = Awake \ {t}
        BY <1>1, <1>12, <2>6, <3>1 DEF Fetches, Awake
      <4>2. Awake = Awake' \cup {t} /\ t \notin Awake'
        BY <3>1, <4>1
      <4>3. Cardinality(Awake' \cup {t}) = Cardinality(Awake') + 1
        BY <1>3, <4>2, FS_AddElement
      <4> QED BY <1>3, <4>2, <4>3
    <3>2. CASE t \notin Awake
      <4>1. Awake \subseteq Awake'
        BY <1>1, <1>12, <2>6, <3>2 DEF Fetches, Awake
      <4> QED BY <1>3, <1>7, <4>1
    <3> QED BY <3>1, <3>2
  <2> QED BY <1>3, <2>4, <2>5, <2>7
<1> QED
  BY <1>8, <1>9, <1>10, <1>11, <1>12 DEF EventEffect

\* What hb_mutexSubscribeNow() may return stays younger than the call.
LEMMA FreshStep ==
    ASSUME LockInv, EventsAreFresh, SubscribeNowIsFresh, Effect, EventEffect
    PROVE  /\ first' \in [Threads -> Nat] /\ nextEvent' \in Nat /\ stale' \in BOOLEAN
           /\ EventsAreFresh' /\ SubscribeNowIsFresh'
<1> DEFINE Goal == /\ first' \in [Threads -> Nat] /\ nextEvent' \in Nat /\ stale' \in BOOLEAN
                   /\ EventsAreFresh' /\ SubscribeNowIsFresh'
<1>1. /\ mtx \in HB_MUTEX /\ first \in [Threads -> Nat] /\ nextEvent \in Nat
      /\ mtx.events \in Seq(Nat) \cup {NULL}
      /\ mtx.events # NULL => \A i \in DOMAIN mtx.events : mtx.events[i] \in Nat
  BY EventTypes DEF LockInv, LockMatchesBelief, TypeOK
<1>2. stale = FALSE
  BY DEF SubscribeNowIsFresh, LockInv, LockMatchesBelief, TypeOK
<1>3. /\ \A u \in Threads : first[u] <= nextEvent
      /\ mtx.events # NULL =>
           \A u \in Threads : \A i \in DOMAIN mtx.events : first[u] <= mtx.events[i]
  BY DEF EventsAreFresh
<1> DEFINE Typed   == first' \in [Threads -> Nat] /\ nextEvent' \in Nat /\ stale' = FALSE
           Started == \A u \in Threads : first'[u] <= nextEvent'
           Queued  == mtx'.events # NULL =>
                        \A u \in Threads : \A i \in DOMAIN mtx'.events : first'[u] <= mtx'.events[i]
<1>4. Typed /\ Started /\ Queued => Goal
  BY DEF EventsAreFresh, SubscribeNowIsFresh
<1> HIDE DEF Goal
<1>5. ASSUME Rests PROVE Goal
  <2>1. Typed /\ Started
    BY <1>1, <1>2, <1>3, <1>5 DEF Rests
  <2>2. Queued
    BY <1>3, <1>5 DEF Rests
  <2> QED BY <1>4, <2>1, <2>2
<1>6. ASSUME Posts PROVE Goal
  <2>1. PICK k \in Nat \ {0} :
          \/ mtx.events # NULL /\ mtx'.events = mtx.events \o [i \in 1 .. k |-> nextEvent]
          \/ mtx.events = NULL /\ mtx'.events = <<>> \o [i \in 1 .. k |-> nextEvent]
    BY <1>6 DEF Posts
  <2> DEFINE q == IF mtx.events = NULL THEN <<>> ELSE mtx.events
             new == [i \in 1 .. k |-> nextEvent]
  <2>2. mtx'.events = q \o new
    BY <2>1
  <2>3. q \in Seq(Nat) /\ new \in Seq(Nat) /\ Len(new) = k
    <3>1. q \in Seq(Nat)
      BY <1>1, EmptySeq
    <3>2. new \in Seq(Nat)
      BY <1>1, SeqDef
    <3>3. DOMAIN new = 1 .. k
      OBVIOUS
    <3> QED BY <3>1, <3>2, <3>3, LenProperties
  <2>4. \A i \in 1 .. k : new[i] = nextEvent
    OBVIOUS
  <2>5. \A u \in Threads : \A i \in 1 .. Len(q) : first[u] <= q[i]
    <3>1. CASE mtx.events = NULL
      BY <3>1, EmptySeq
    <3>2. CASE mtx.events # NULL
      BY <1>3, <2>3, <3>2, LenProperties
    <3> QED BY <3>1, <3>2
  <2> HIDE DEF q, new
  <2>6. /\ Len(q \o new) = Len(q) + k /\ q \o new \in Seq(Nat) /\ Len(q) \in Nat
        /\ \A i \in 1 .. Len(q) + k :
             (q \o new)[i] = IF i <= Len(q) THEN q[i] ELSE new[i - Len(q)]
    BY <2>3, ConcatProperties, LenProperties
  <2>7. \A u \in Threads : \A i \in 1 .. Len(q) + k : first[u] <= (q \o new)[i]
    <3> SUFFICES ASSUME NEW u \in Threads, NEW i \in 1 .. Len(q) + k
                 PROVE  first[u] <= (q \o new)[i]
      OBVIOUS
    <3>1. CASE i <= Len(q)
      BY <2>5, <2>6, <3>1
    <3>2. CASE i > Len(q)
      <4>1. i - Len(q) \in 1 .. k
        BY <2>6, <3>2
      <4> QED BY <1>3, <2>4, <2>6, <3>2, <4>1
    <3> QED BY <2>6, <3>1, <3>2
  <2>8. DOMAIN mtx'.events = 1 .. Len(q) + k
    BY <2>2, <2>6, LenProperties
  <2>9. nextEvent' = nextEvent + 1 /\ first' = first /\ stale' = stale
    BY <1>6 DEF Posts
  <2>10. Typed /\ Started
    BY <1>1, <1>2, <1>3, <2>9
  <2>11. Queued
    BY <2>2, <2>7, <2>8, <2>9
  <2> QED BY <1>4, <2>10, <2>11
<1>7. ASSUME Clears PROVE Goal
  <2>1. mtx'.events # NULL => DOMAIN mtx'.events = {}
    BY <1>7 DEF Clears
  <2>2. Typed /\ Started
    BY <1>1, <1>2, <1>3, <1>7 DEF Clears
  <2>3. Queued
    BY <2>1
  <2> QED BY <1>4, <2>2, <2>3
<1>8. ASSUME NEW t \in Threads, Sleeps(t) PROVE Goal
  <2>1. CASE UNCHANGED first
    <3>1. Typed /\ Started
      BY <1>1, <1>2, <1>3, <1>8, <2>1 DEF Sleeps
    <3>2. Queued
      BY <1>3, <1>8, <2>1 DEF Sleeps
    <3> QED BY <1>4, <3>1, <3>2
  <2>2. CASE \E e : FreshFor(e) /\ first' = [first EXCEPT ![t] = e]
    <3>1. PICK e : FreshFor(e) /\ first' = [first EXCEPT ![t] = e]
      BY <2>2
    <3>2. Typed /\ Started
      BY <1>1, <1>2, <1>3, <1>8, <3>1 DEF Sleeps, FreshFor
    <3>3. Queued
      BY <1>1, <1>3, <1>8, <3>1 DEF Sleeps, FreshFor
    <3> QED BY <1>4, <3>2, <3>3
  <2> QED BY <1>8, <2>1, <2>2 DEF Sleeps
<1>9. ASSUME NEW t \in Threads, Fetches(t) PROVE Goal
  <2>1. PICK e : FreshFor(e) /\ stale' = (stale \/ (HasEvent(mtx) /\ Head(mtx.events) < e))
    BY <1>9 DEF Fetches
  <2>2. /\ first' = [first EXCEPT ![t] = 0] /\ nextEvent' = nextEvent
        /\ mtx'.events = Taken(mtx).events
    BY <1>9 DEF Fetches
  <2>3. CASE HasEvent(mtx)
    <3>1. /\ mtx.events \in Seq(Nat) /\ mtx.events # <<>> /\ mtx.events # NULL
          /\ mtx'.events = Tail(mtx.events)
      BY <1>1, <2>2, <2>3, TakenProps DEF HasEvent
    <3>2. /\ Head(mtx.events) = mtx.events[1] /\ 1 \in DOMAIN mtx.events
          /\ DOMAIN mtx'.events = 1 .. Len(mtx.events) - 1 /\ Len(mtx.events) \in Nat
          /\ \A i \in 1 .. Len(mtx.events) - 1 :
               mtx'.events[i] = mtx.events[i + 1] /\ i + 1 \in DOMAIN mtx.events
      <4>1. DOMAIN mtx.events = 1 .. Len(mtx.events) /\ Len(mtx.events) \in Nat \ {0}
        BY <3>1, EmptySeq, LenProperties
      <4>2. /\ Tail(mtx.events) \in Seq(Nat) /\ Len(Tail(mtx.events)) = Len(mtx.events) - 1
            /\ \A i \in 1 .. Len(Tail(mtx.events)) : Tail(mtx.events)[i] = mtx.events[i + 1]
            /\ Head(mtx.events) = mtx.events[1]
        BY <3>1, HeadTailProperties
      <4>3. DOMAIN Tail(mtx.events) = 1 .. Len(mtx.events) - 1
        BY <4>2, LenProperties
      <4> QED BY <3>1, <4>1, <4>2, <4>3
    <3>3. stale' = FALSE
      <4>1. e <= Head(mtx.events) /\ e \in Nat /\ Head(mtx.events) \in Nat
        BY <1>1, <2>1, <3>1, <3>2 DEF FreshFor
      <4>2. ~(Head(mtx.events) < e)
        BY <4>1
      <4> QED BY <1>2, <2>1, <4>2
    <3>4. Typed /\ Started
      BY <1>1, <1>3, <2>2, <3>3
    <3>5. Queued
      <4> SUFFICES ASSUME NEW u \in Threads, NEW i \in DOMAIN mtx'.events
                   PROVE  first'[u] <= mtx'.events[i]
        OBVIOUS
      <4>1. /\ i \in 1 .. Len(mtx.events) - 1 /\ mtx'.events[i] = mtx.events[i + 1]
            /\ i + 1 \in DOMAIN mtx.events
        BY <3>2
      <4>2. first[u] <= mtx.events[i + 1] /\ mtx.events[i + 1] \in Nat
        BY <1>1, <1>3, <3>1, <4>1
      <4> QED BY <1>1, <2>2, <4>1, <4>2
    <3> QED BY <1>4, <3>4, <3>5
  <2>4. CASE ~HasEvent(mtx)
    <3>1. mtx'.events = mtx.events
      BY <1>1, <2>2, <2>4, TakenProps
    <3>2. stale' = FALSE
      BY <1>2, <2>1, <2>4
    <3>3. Typed /\ Started
      BY <1>1, <1>3, <2>2, <3>2
    <3>4. Queued
      BY <1>1, <1>3, <2>2, <3>1
    <3> QED BY <1>4, <3>3, <3>4
  <2> QED BY <2>3, <2>4
<1> QED
  BY <1>5, <1>6, <1>7, <1>8, <1>9 DEF EventEffect, Goal

-----------------------------------------------------------------------------
(* The theorems.                                                           *)

\* The rest of the state keeps its type.
LEMMA OutsideStep ==
    TypeOK /\ [Next]_vars => bound' \in Bounds /\ syncCond' \in SUBSET Threads
                             /\ request' \in SUBSET Threads
<1> SUFFICES ASSUME TypeOK, [Next]_vars
             PROVE  bound' \in Bounds /\ syncCond' \in SUBSET Threads /\ request' \in SUBSET Threads
  OBVIOUS
<1>1. bound \in Bounds /\ syncCond \in SUBSET Threads /\ request \in SUBSET Threads
  BY DEF TypeOK
<1>2. CASE UNCHANGED vars
  BY <1>1, <1>2 DEF vars
<1>3. CASE UnsubscribeAll /\ UNCHANGED bound
  BY <1>1, <1>3 DEF UnsubscribeAll
<1>4. ASSUME NEW t \in bound.threads, ThreadNext(t), UNCHANGED bound
      PROVE  bound' \in Bounds /\ syncCond' \in SUBSET Threads /\ request' \in SUBSET Threads
  <2>1. t \in Threads
    BY <1>4, BoundThreads
  <2>2. \/ UNCHANGED <<syncCond, request>>
        \/ syncCond' = syncCond /\ request' \in {request \ {t}, request \cup {t}}
        \/ request' = request /\ syncCond' \in {syncCond \ {t}, syncCond \cup {t}, {}}
    <3>1. CASE \/ LockAgain(t) \/ Lock(t) \/ LockWoken(t) \/ TimedLock(t)
               \/ TimedLockWoken(t) \/ TimedLockTimeout(t) \/ Unlock(t) \/ ThreadEnd(t)
      BY <3>1 DEF LockAgain, Lock, LockWoken, TimedLock, TimedLockWoken, TimedLockTimeout,
                  Unlock, ThreadEnd
    <3>2. CASE \E all \in BOOLEAN : \/ Notify(t, all) \/ EventStore(t, all)
                                    \/ EventDrop(t, all) \/ EventDropped(t, all)
      BY <3>2 DEF Notify, EventStore, EventDrop, EventDropped, NotifyBody
    <3>3. CASE \/ \E fClear, timed \in BOOLEAN : Subscribe(t, fClear, timed)
               \/ SubscribeCleared(t) \/ SubscribeWoken(t)
               \/ TimedSubscribeWoken(t) \/ TimedSubscribeTimeout(t) \/ RelockWoken(t)
      BY <3>3 DEF Subscribe, SubscribeCleared, SubscribeWoken, TimedSubscribeWoken,
                  TimedSubscribeTimeout, RelockWoken
    <3>4. CASE \/ \E timed \in BOOLEAN : SyncWait(t, timed)
               \/ SyncSignal(t) \/ SyncWoken(t) \/ SyncTimeout(t)
               \/ QuitRequest(t) \/ SpuriousWakeup(t)
      BY <3>4 DEF SyncWait, SyncSignal, SyncWoken, SyncTimeout, QuitRequest, SpuriousWakeup
    <3> QED BY <1>4, <3>1, <3>2, <3>3, <3>4 DEF ThreadNext
  <2> QED BY <1>1, <1>4, <2>1, <2>2
<1> QED
  BY <1>2, <1>3, <1>4 DEF Next

\* The inductive invariant of the mutex.
Inv == MutexInv /\ EventsAreFresh /\ SubscribeNowIsFresh

\* A new mutex is free, empty and awaited by nobody.
LEMMA InitInv == Init => Inv
<1> SUFFICES ASSUME Init PROVE Inv
  OBVIOUS
<1> USE DEF Init
<1>1. TypeOK
  <2>1. mtx \in HB_MUTEX
    BY DEF HB_MUTEX
  <2> QED BY <2>1, Labels DEF TypeOK
<1>2. /\ mtx.lock_count = 0 /\ mtx.owner = NoThread /\ mtx.lockers = 0 /\ mtx.waiters = 0
      /\ mtx.events = NULL /\ mtx.cond_l = {} /\ mtx.cond_w = {}
      /\ \A t \in Threads : pc[t] = "idle" /\ saved[t] = 0 /\ held[t] = 0 /\ first[t] = 0
  OBVIOUS
<1>3. \A t \in Threads : pc[t] \notin LockWaitPCs /\ pc[t] \notin SubWaitPCs /\ pc[t] \notin SyncPCs
  BY <1>2 DEF LockWaitPCs, SubWaitPCs, SyncPCs
<1>4. LockMatchesBelief /\ OwnerIffLocked /\ RelockHasLevels
  BY <1>1, <1>2, <1>3, MutexAssumption
     DEF LockMatchesBelief, BeliefOf, Waiting, OwnerIffLocked, RelockHasLevels
<1>5. QueueCountsExact
  <2>1. {t \in Threads : pc[t] \in LockWaitPCs} = {} /\ {t \in Threads : pc[t] \in SubWaitPCs} = {}
    BY <1>3
  <2>2. Cardinality({}) = 0
    BY FS_EmptySet
  <2> QED BY <1>2, <2>1, <2>2 DEF QueueCountsExact
<1>6. SleepersWait /\ NobodyIsStranded
  BY <1>2 DEF SleepersWait, NobodyIsStranded, NoStrandedLocker, NoStrandedSubscriber
<1>7. EventsAreFresh /\ SubscribeNowIsFresh
  BY <1>2 DEF EventsAreFresh, SubscribeNowIsFresh
<1> QED
  BY <1>4, <1>5, <1>6, <1>7 DEF Inv, MutexInv

\* Every step of every thread keeps the invariant.
LEMMA InvStep == Inv /\ [Next]_vars => Inv'
<1> SUFFICES ASSUME Inv, [Next]_vars PROVE Inv'
  OBVIOUS
<1>1. /\ LockInv /\ NoStrandedLocker /\ NoStrandedSubscriber
      /\ EventsAreFresh /\ SubscribeNowIsFresh /\ TypeOK
  BY DEF Inv, MutexInv, LockInv, NobodyIsStranded, LockMatchesBelief
<1>2. Effect /\ EventEffect
  BY <1>1, EffectStep, EventStep
<1>3. /\ first' \in [Threads -> Nat] /\ nextEvent' \in Nat /\ stale' \in BOOLEAN
      /\ EventsAreFresh' /\ SubscribeNowIsFresh'
  BY <1>1, <1>2, FreshStep
<1>4. TypeOK'
  <2>1. mtx' \in HB_MUTEX /\ pc' \in [Threads -> PCs]
    BY <1>2 DEF Effect
  <2>2. saved' \in [Threads -> Nat] /\ held' \in [Threads -> Nat]
    BY <1>1, <1>2, LockTypeStep
  <2>3. bound' \in Bounds /\ syncCond' \in SUBSET Threads /\ request' \in SUBSET Threads
    BY <1>1, OutsideStep
  <2> QED BY <1>3, <2>1, <2>2, <2>3 DEF TypeOK
<1>5. (\A t \in Threads : BeliefOf(t)') /\ OwnerIffLocked' /\ RelockHasLevels'
  BY <1>1, <1>2, BeliefStep
<1>6. LockMatchesBelief'
  BY <1>4, <1>5 DEF LockMatchesBelief
<1>7. LockersExact' /\ WaitersExact' /\ LockSleepersWait' /\ SubSleepersWait'
  BY <1>1, <1>2, LockersStep, WaitersStep, StrandedLockerStep
<1>8. QueueCountsExact' /\ SleepersWait'
  BY <1>7 DEF QueueCountsExact, SleepersWait, LockersExact, WaitersExact, LockSleepersWait,
              SubSleepersWait
<1>9. NobodyIsStranded'
  BY <1>1, <1>2, StrandedLockerStep, StrandedSubscriberStep DEF NobodyIsStranded
<1> QED
  BY <1>3, <1>5, <1>6, <1>8, <1>9 DEF Inv, MutexInv

\* The invariant holds in every state of the mutex.
THEOREM Invariance == Spec => []Inv
  BY InitInv, InvStep, PTL DEF Spec

\* The lock is where its callers believe it is: hb_mutexLock() and
\* hb_mutexUnlock() count, and a wait gives back and restores every level.
THEOREM LockCorrect == Spec => []LockMatchesBelief
<1>1. Inv => LockMatchesBelief
  BY DEF Inv, MutexInv
<1> QED
  BY <1>1, Invariance, PTL

\* lockers and waiters count the threads that wait, whatever timeouts and wakeups
\* come in between.
THEOREM QueueCountsCorrect == Spec => []QueueCountsExact
<1>1. Inv => QueueCountsExact
  BY DEF Inv, MutexInv
<1> QED
  BY <1>1, Invariance, PTL

\* No signal of the mutex is lost: neither a free lock nor a queued event is left
\* to sleepers that nobody wakes.
THEOREM SignalsCorrect == Spec => []NobodyIsStranded
<1>1. Inv => NobodyIsStranded
  BY DEF Inv, MutexInv
<1> QED
  BY <1>1, Invariance, PTL

\* hb_mutexSubscribeNow() never returns an event queued before it was called.
THEOREM SubscribeNowCorrect == Spec => []SubscribeNowIsFresh
<1>1. Inv => SubscribeNowIsFresh
  BY DEF Inv
<1> QED
  BY <1>1, Invariance, PTL

-----------------------------------------------------------------------------
(* The refinement of ReentrantLock.                                        *)

\* The levels that each thread has, as ReentrantLock sees them.
Levels == [t \in Threads |-> IF mtx.owner = t THEN mtx.lock_count ELSE 0]

\* Every effect on the lock is a step of the reentrant lock, or none.
LEMMA RefinementStep == LockInv /\ Effect => [RL!Next]_<<Levels, saved>>
<1> SUFFICES ASSUME LockInv, Effect PROVE RL!Next \/ UNCHANGED <<Levels, saved>>
  BY DEF Levels
<1>1. /\ mtx \in HB_MUTEX /\ saved \in [Threads -> Nat] /\ NoThread \notin Threads
      /\ mtx.lock_count \in Nat
  BY MutexAssumption DEF LockInv, LockMatchesBelief, TypeOK, HB_MUTEX
<1>2. /\ mtx.owner = NoThread <=> mtx.lock_count = 0
      /\ \A u \in Threads : pc[u] \notin WaitPCs => saved[u] = 0
      /\ \A u \in Threads : pc[u] \in WaitPCs => mtx.owner # u
      /\ \A u \in Threads : pc[u] \in {"lock_wait", "tlock_wait"} => ~(saved[u] > 0)
  BY DEF LockInv, LockMatchesBelief, BeliefOf, Waiting, WaitPCs, OwnerIffLocked,
         RelockHasLevels, LockWaitPCs
<1>3. /\ "idle" \notin WaitPCs /\ "relock_wait" \in WaitPCs
      /\ SubWaitPCs \cup SyncPCs \subseteq WaitPCs
  BY DEF WaitPCs, LockWaitPCs, SubWaitPCs, SyncPCs
<1>4. /\ Levels \in [Threads -> Nat]
      /\ \A u \in Threads : Levels[u] = IF mtx.owner = u THEN mtx.lock_count ELSE 0
      /\ Levels' = [u \in Threads |-> IF mtx'.owner = u THEN mtx'.lock_count ELSE 0]
  BY <1>1 DEF Levels
<1> DEFINE Free4(t) == \A u \in Threads \ {t} : Levels[u] = 0
<1>5. /\ \A t \in Threads : RL!Acquire(t) <=>
            /\ Free4(t) /\ saved[t] = 0 /\ Levels' = [Levels EXCEPT ![t] = @ + 1]
            /\ saved' = saved
      /\ \A t \in Threads : RL!Release(t) <=>
            Levels[t] > 0 /\ Levels' = [Levels EXCEPT ![t] = @ - 1] /\ saved' = saved
      /\ \A t \in Threads : RL!ReleaseAll(t) <=>
            Levels' = [Levels EXCEPT ![t] = 0] /\ saved' = saved
      /\ \A t \in Threads : RL!Park(t) <=>
            /\ Levels[t] > 0 /\ saved[t] = 0 /\ Levels' = [Levels EXCEPT ![t] = 0]
            /\ saved' = [saved EXCEPT ![t] = Levels[t]]
      /\ \A t \in Threads : RL!Regain(t) <=>
            /\ Free4(t) /\ saved[t] > 0 /\ Levels[t] = 0
            /\ Levels' = [Levels EXCEPT ![t] = saved[t]] /\ saved' = [saved EXCEPT ![t] = 0]
  BY DEF Levels, RL!Acquire, RL!Release, RL!ReleaseAll, RL!Park, RL!Regain, RL!FreeFor
<1>6. \A t \in Threads :
        RL!Acquire(t) \/ RL!Release(t) \/ RL!ReleaseAll(t) \/ RL!Park(t) \/ RL!Regain(t)
        => RL!Next
  BY DEF RL!Next
<1> HIDE DEF Levels
<1>7. CASE Keeps
  BY <1>4, <1>7 DEF Keeps, Levels
<1>8. ASSUME NEW t \in Threads, Deepens(t) PROVE RL!Next
  <2>1. Levels[t] = mtx.lock_count /\ Free4(t) /\ saved[t] = 0
    BY <1>2, <1>4, <1>8 DEF Deepens
  <2>2. CASE mtx'.lock_count = mtx.lock_count + 1
    <3>1. Levels' = [Levels EXCEPT ![t] = @ + 1]
      BY <1>1, <1>4, <1>8, <2>1, <2>2 DEF Deepens
    <3> QED BY <1>5, <1>6, <1>8, <2>1, <3>1 DEF Deepens
  <2>3. CASE mtx.lock_count > 1 /\ mtx'.lock_count = mtx.lock_count - 1
    <3>1. Levels' = [Levels EXCEPT ![t] = mtx.lock_count - 1]
      BY <1>4, <1>8, <2>1, <2>3, ZenonT(60) DEF Deepens
    <3>2. Levels[t] > 0
      BY <1>1, <2>1, <2>3
    <3> QED BY <1>5, <1>6, <1>8, <2>1, <3>1, <3>2 DEF Deepens
  <2> QED BY <1>8, <2>2, <2>3 DEF Deepens
<1>9. ASSUME NEW t \in Threads, Takes(t) PROVE RL!Next
  <2>1. Free4(t) /\ Levels[t] = 0
    BY <1>1, <1>2, <1>4, <1>9 DEF Takes
  <2>2. saved[t] = 0
    BY <1>1, <1>2, <1>3, <1>9 DEF Takes
  <2>3. Levels' = [Levels EXCEPT ![t] = @ + 1]
    <3>1. mtx'.owner = t /\ mtx'.lock_count = 1
      BY <1>9 DEF Takes
    <3>2. Levels' = [Levels EXCEPT ![t] = 1]
      BY <1>4, <2>1, <3>1
    <3>3. Levels[t] + 1 = 1
      BY <2>1
    <3> QED BY <3>2, <3>3
  <2> QED BY <1>5, <1>6, <1>9, <2>1, <2>2, <2>3 DEF Takes
<1>10. ASSUME NEW t \in Threads, Queues(t) PROVE UNCHANGED <<Levels, saved>>
  BY <1>10 DEF Queues, Levels
<1>11. ASSUME NEW t \in Threads, Frees(t) PROVE RL!Next
  <2>1. Levels' = [Levels EXCEPT ![t] = 0]
    BY <1>1, <1>4, <1>11 DEF Frees, Freed
  <2> QED BY <1>5, <1>6, <1>11, <2>1 DEF Frees
<1>12. ASSUME NEW t \in Threads, Parks(t) PROVE RL!Next \/ UNCHANGED <<Levels, saved>>
  <2>1. saved[t] = 0
    BY <1>2, <1>12 DEF Parks
  <2>2. CASE Freed(t) /\ saved' = [saved EXCEPT ![t] = mtx.lock_count]
    <3>1. Levels[t] = mtx.lock_count /\ Levels[t] > 0
      BY <1>1, <1>2, <1>4, <2>2 DEF Freed
    <3>2. Levels' = [Levels EXCEPT ![t] = 0]
      BY <1>1, <1>4, <2>2 DEF Freed
    <3> QED BY <1>5, <1>6, <2>1, <2>2, <3>1, <3>2
  <2>3. CASE /\ mtx.owner # t /\ saved' = [saved EXCEPT ![t] = 0]
             /\ mtx'.lock_count = mtx.lock_count /\ mtx'.owner = mtx.owner
    BY <1>1, <2>1, <2>3 DEF Levels
  <2> QED BY <1>12, <2>2, <2>3 DEF Parks
<1>13. ASSUME NEW t \in Threads, Returns(t) PROVE RL!Next \/ UNCHANGED <<Levels, saved>>
  <2>1. CASE /\ saved[t] > 0 /\ mtx.owner = NoThread /\ mtx'.owner = t
             /\ mtx'.lock_count = saved[t] /\ saved' = [saved EXCEPT ![t] = 0]
    <3>1. Free4(t) /\ Levels[t] = 0 /\ Levels' = [Levels EXCEPT ![t] = saved[t]]
      BY <1>1, <1>4, <2>1
    <3> QED BY <1>5, <1>6, <2>1, <3>1
  <2>2. CASE /\ mtx'.lock_count = mtx.lock_count /\ mtx'.owner = mtx.owner
             /\ \/ saved[t] = 0 /\ saved' = [saved EXCEPT ![t] = 0]
                \/ saved' = saved
    BY <1>1, <2>2 DEF Levels
  <2> QED BY <1>13, <2>1, <2>2 DEF Returns
<1> QED
  BY <1>7, <1>8, <1>9, <1>10, <1>11, <1>12, <1>13 DEF Effect, LockEffect

\* The lock of hb_threadMutexLock() and hb_threadMutexUnlock(), with its queues,
\* its timeouts and the waits that give it up, implements a reentrant lock.
THEOREM Refinement == Spec => ImplementsReentrantLock
<1>1. Init => RL!Init
  BY MutexAssumption DEF Init, RL!Init
<1>2. Inv /\ [Next]_vars => [RL!Next]_<<Levels, saved>>
  <2>1. Inv => LockInv
    BY DEF Inv, MutexInv, LockInv
  <2> QED BY <2>1, EffectStep, RefinementStep
<1> QED
  BY <1>1, <1>2, Invariance, PTL DEF Spec, ImplementsReentrantLock, RL!Spec, Levels
=============================================================================
