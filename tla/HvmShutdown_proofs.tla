------------------------ MODULE HvmShutdown_proofs ------------------------
(***************************************************************************)
(* Proofs about the end of a program (HvmShutdown): whatever the threads   *)
(* do with the mutex, and however many they are, hb_vmTerminateThreads()   *)
(* returns to a main thread that is alone and to mutexes nobody holds.     *)
(*                                                                         *)
(* Every step moves one thread.  The counters are dealt with once for all  *)
(* the steps that neither end a thread nor touch the waiters, the rest is  *)
(* shown action by action.                                                 *)
(***************************************************************************)
EXTENDS HvmShutdown, FiniteSetTheorems, TLAPS

\* The type invariant, one conjunct a line as the provers like it.
LEMMA Types ==
    TypeOK <=>
      /\ s_vmMtx \in Threads \cup {NoThread}
      /\ s_mutexlst_mtx \in Threads \cup {NoThread}
      /\ mutex \in Threads \cup {NoThread}
      /\ owner \in Threads \cup {NoThread}
      /\ QUIT \in BOOLEAN /\ asleep \in BOOLEAN
      /\ quit \in SUBSET Workers
      /\ s_iStackCount \in Nat /\ waiters \in Nat /\ events \in Nat
      /\ cond_l \in SUBSET Threads /\ cond_w \in SUBSET Threads
      /\ pc \in [Threads -> MainPCs \cup WorkerPCs]
BY DEF TypeOK

\* The same for the state after a step.
LEMMA TypesNext ==
    TypeOK' <=>
      /\ s_vmMtx' \in Threads \cup {NoThread}
      /\ s_mutexlst_mtx' \in Threads \cup {NoThread}
      /\ mutex' \in Threads \cup {NoThread}
      /\ owner' \in Threads \cup {NoThread}
      /\ QUIT' \in BOOLEAN /\ asleep' \in BOOLEAN
      /\ quit' \in SUBSET Workers
      /\ s_iStackCount' \in Nat /\ waiters' \in Nat /\ events' \in Nat
      /\ cond_l' \in SUBSET Threads /\ cond_w' \in SUBSET Threads
      /\ pc' \in [Threads -> MainPCs \cup WorkerPCs]
BY DEF TypeOK

-----------------------------------------------------------------------------
(* The counters.                                                           *)

\* The sets that are counted are finite.
LEMMA CountedAreFinite ==
    /\ IsFiniteSet(Alive) /\ IsFiniteSet(Subscribers)
    /\ Cardinality(Alive) \in Nat /\ Cardinality(Subscribers) \in Nat
<1>1. IsFiniteSet(Alive)
  BY ShutdownAssumption, FS_Subset, Alive \subseteq Workers DEF Alive
<1>2. IsFiniteSet(Subscribers)
  BY ShutdownAssumption, FS_Subset, Subscribers \subseteq Workers DEF Subscribers
<1> QED BY <1>1, <1>2, FS_CardinalityType

\* A thread that moves between places where it has a stack and does not wait for
\* an event leaves the counters right.
LEMMA SameCounts ==
    ASSUME NEW t \in Threads, NEW l,
           pc \in [Threads -> MainPCs \cup WorkerPCs], CountsExact,
           pc[t] \notin {"none", "sub_wait"}, l \notin {"none", "sub_wait"},
           pc' = [pc EXCEPT ![t] = l],
           s_iStackCount' = s_iStackCount, waiters' = waiters
    PROVE  CountsExact'
<1>1. Alive' = Alive
  BY DEF Alive, Threads
<1>2. Subscribers' = Subscribers
  BY DEF Subscribers, Threads
<1> QED BY <1>1, <1>2 DEF CountsExact

\* A thread that goes to sleep is counted, and one that wakes is counted off.
LEMMA SleepCounts ==
    ASSUME NEW t \in Workers, ShutdownInv, SubscribeSleep(t)
    PROVE  CountsExact' /\ waiters' \in Nat
<1>1. pc \in [Threads -> MainPCs \cup WorkerPCs] /\ waiters \in Nat
  BY Types DEF ShutdownInv
<1>2. pc[t] = "sleep" /\ pc' = [pc EXCEPT ![t] = "sub_wait"]
  BY DEF SubscribeSleep, Goto
<1>3. Alive' = Alive
  BY <1>1, <1>2 DEF Alive, Threads
<1>4. Subscribers' = Subscribers \cup {t} /\ t \notin Subscribers
  BY <1>1, <1>2 DEF Subscribers, Threads
<1>5. Cardinality(Subscribers') = Cardinality(Subscribers) + 1
  BY <1>4, CountedAreFinite, FS_AddElement
<1>6. s_iStackCount' = s_iStackCount /\ waiters' = waiters + 1
  BY DEF SubscribeSleep
<1> QED BY <1>1, <1>3, <1>5, <1>6 DEF ShutdownInv, CountsExact

\* A woken worker leaves the subscribers and the counter of waiters together.
LEMMA WakeCounts ==
    ASSUME NEW t \in Workers, ShutdownInv, SubscribeWoken(t)
    PROVE  CountsExact' /\ waiters' \in Nat
<1>1. pc \in [Threads -> MainPCs \cup WorkerPCs] /\ waiters \in Nat
  BY Types DEF ShutdownInv
<1>2. pc[t] = "sub_wait" /\ pc' = [pc EXCEPT ![t] = "query"]
  BY DEF SubscribeWoken, Goto
<1>3. Alive' = Alive
  BY <1>1, <1>2 DEF Alive, Threads
<1>4. Subscribers' = Subscribers \ {t} /\ t \in Subscribers
  BY <1>1, <1>2 DEF Subscribers, Threads
<1>5. Cardinality(Subscribers') = Cardinality(Subscribers) - 1
  BY <1>4, CountedAreFinite, FS_RemoveElement
<1>6. Cardinality(Subscribers') \in Nat
  BY <1>4, CountedAreFinite, FS_RemoveElement, FS_CardinalityType
<1>7. s_iStackCount' = s_iStackCount /\ waiters' = waiters - 1
  BY DEF SubscribeWoken
<1> QED BY <1>1, <1>3, <1>5, <1>6, <1>7 DEF ShutdownInv, CountsExact

\* A stack that is released is counted off.
LEMMA ReleaseCounts ==
    ASSUME NEW t \in Workers, ShutdownInv, StackRelease(t)
    PROVE  CountsExact' /\ s_iStackCount' \in Nat
<1>1. pc \in [Threads -> MainPCs \cup WorkerPCs] /\ s_iStackCount \in Nat
  BY Types DEF ShutdownInv
<1>2. pc[t] = "release" /\ pc' = [pc EXCEPT ![t] = "none"]
  BY DEF StackRelease, Goto
<1>3. Subscribers' = Subscribers
  BY <1>1, <1>2 DEF Subscribers, Threads
<1>4. Alive' = Alive \ {t} /\ t \in Alive
  BY <1>1, <1>2 DEF Alive, Threads
<1>5. Cardinality(Alive') = Cardinality(Alive) - 1
  BY <1>4, CountedAreFinite, FS_RemoveElement
<1>6. Cardinality(Alive') \in Nat
  BY <1>4, CountedAreFinite, FS_RemoveElement, FS_CardinalityType
<1>7. s_iStackCount' = s_iStackCount - 1 /\ waiters' = waiters
  BY DEF StackRelease, queue
<1> QED BY <1>1, <1>3, <1>5, <1>6, <1>7, CountedAreFinite DEF ShutdownInv, CountsExact

\* The main thread sees s_iStackCount at one only when every stack is gone.
LEMMA NobodyAlive ==
    ASSUME ShutdownInv, s_iStackCount <= 1
    PROVE  \A t \in Workers : pc[t] = "none"
<1>1. Cardinality(Alive) = 0
  BY CountedAreFinite DEF ShutdownInv, CountsExact
<1>2. Alive = {}
  BY <1>1, CountedAreFinite, FS_EmptySet
<1> QED BY <1>2 DEF Alive

-----------------------------------------------------------------------------
(* The rest of the invariant, action by action.                            *)

\* The parts that say where the holders of the mutexes are.
Holders ==
    /\ PlacesKnown /\ VmMutexIsMains /\ MutexHolder /\ ListHolder
    /\ OwnerIsAlive /\ EventForTaker /\ GoneAtEnd

\* A worker that moves is not the main thread and the program has not ended.
LEMMA WorkerMoves ==
    ASSUME NEW t \in Workers, ShutdownInv, pc[t] # "none"
    PROVE  /\ t # Main /\ t # NoThread /\ Main # NoThread
           /\ t \in Threads /\ Main \in Threads
           /\ pc[Main] # "done"
BY ShutdownAssumption DEF Threads, ShutdownInv, GoneAtEnd

\* The steps of a worker that keep the native mutexes and the owner.
LEMMA QuietSteps ==
    ASSUME NEW t \in Workers, ShutdownInv,
           FetchOpcode(t) \/ EndOpcode(t) \/ Call(t) \/ Leave(t) \/ ThreadQuit(t)
    PROVE  ShutdownInv'
<1>1. TypeOK /\ Holders
  BY DEF ShutdownInv, Holders
<1>2. PICK l \in {"op", "run", "lock", "unlock", "notify", "subscribe", "end"} :
        /\ pc[t] \in {"run", "op", "leave"}
        /\ pc' = [pc EXCEPT ![t] = l]
        /\ l = "unlock" => owner = t
  BY DEF FetchOpcode, EndOpcode, Call, Leave, ThreadQuit, VmSection, Goto
<1>3. /\ UNCHANGED <<s_vmMtx, s_mutexlst_mtx, mutex, QUIT, s_iStackCount, owner, cond_l>>
      /\ UNCHANGED <<cond_w, waiters, events, asleep>>
      /\ quit' \in {quit, quit \cup {t}}
  BY DEF FetchOpcode, EndOpcode, Call, Leave, ThreadQuit, VmSection, natives, queue
<1>4. TypeOK'
  BY <1>1, <1>2, <1>3, Types, TypesNext DEF MainPCs, WorkerPCs
<1>5. CountsExact'
  BY <1>1, <1>2, <1>3, Types, SameCounts, t \in Threads DEF ShutdownInv, Threads
<1>6. Holders'
  BY <1>1, <1>2, <1>3, Types, WorkerMoves
     DEF Holders, PlacesKnown, VmMutexIsMains, MutexHolder, ListHolder, OwnerIsAlive,
         EventForTaker, GoneAtEnd, MainPCs, WorkerPCs
<1> QED BY <1>4, <1>5, <1>6 DEF ShutdownInv, Holders

\* The steps of a worker on the lock of the Harbour mutex.
LEMMA LockSteps ==
    ASSUME NEW t \in Workers, ShutdownInv, Lock(t) \/ Unlock(t)
    PROVE  ShutdownInv'
<1>1. TypeOK /\ Holders
  BY DEF ShutdownInv, Holders
<1>2. PICK l \in {"leave", "lock_wait"} :
        /\ pc[t] \in {"lock", "lock_wait", "unlock"}
        /\ pc' = [pc EXCEPT ![t] = l]
  BY DEF Lock, Unlock, Goto
<1>3. \/ pc[t] # "unlock" /\ owner = NoThread /\ owner' = t
      \/ pc[t] # "unlock" /\ owner' = owner
      \/ owner = t /\ owner' = NoThread
  BY <1>1, t \in Threads DEF Lock, Unlock, Holders, OwnerIsAlive, Threads
<1>4. /\ UNCHANGED <<s_vmMtx, s_mutexlst_mtx, mutex, QUIT, quit, s_iStackCount>>
      /\ UNCHANGED <<cond_w, waiters, events, asleep>>
      /\ cond_l' \subseteq cond_l \cup {t}
  BY DEF Lock, Unlock, SignalLocker, natives, queue
<1>5. TypeOK'
  BY <1>1, <1>2, <1>3, <1>4, Types, TypesNext, t \in Threads DEF MainPCs, WorkerPCs, Threads
<1>6. CountsExact'
  BY <1>1, <1>2, <1>4, Types, SameCounts, t \in Threads DEF ShutdownInv, Threads
<1>7. Holders'
  <2>1. /\ t # Main /\ t # NoThread /\ Main # NoThread /\ NoThread \notin Threads
        /\ t \in Threads /\ Main \in Threads /\ Workers \subseteq Threads
        /\ pc[Main] # "done"
    BY <1>2, WorkerMoves, ShutdownAssumption DEF Threads
  <2>2. pc'[t] \in {"leave", "lock_wait"} /\ \A u \in Threads : u # t => pc'[u] = pc[u]
    BY <1>1, <1>2, <2>1, Types
  <2>3. PlacesKnown' /\ VmMutexIsMains' /\ GoneAtEnd'
    BY <1>1, <1>2, <1>3, <1>4, <2>1, <2>2 DEF Holders, PlacesKnown, VmMutexIsMains, GoneAtEnd, WorkerPCs
  <2>4. MutexHolder'
    BY <1>1, <1>2, <1>3, <1>4, <2>1, <2>2 DEF Holders, MutexHolder
  <2>5. ListHolder'
    BY <1>1, <1>2, <1>3, <1>4, <2>1, <2>2 DEF Holders, ListHolder
  <2>6. OwnerIsAlive'
    BY <1>1, <1>2, <1>3, <1>4, <2>1, <2>2 DEF Holders, OwnerIsAlive
  <2>7. EventForTaker'
    BY <1>1, <1>2, <1>3, <1>4, <2>1, <2>2 DEF Holders, EventForTaker
  <2> QED BY <2>3, <2>4, <2>5, <2>6, <2>7 DEF Holders
<1> QED BY <1>5, <1>6, <1>7 DEF ShutdownInv, Holders

\* The steps that lock pMutex->mutex: of a notifier, of a subscriber, and of one
\* that was woken.
LEMMA EnterSteps ==
    ASSUME NEW t \in Workers, ShutdownInv, Notify(t) \/ Subscribe(t) \/ SubscribeWoken(t)
    PROVE  ShutdownInv'
<1>1. TypeOK /\ Holders
  BY DEF ShutdownInv, Holders
<1>2. PICK l \in {"add", "query"} :
        /\ pc[t] \in {"notify", "subscribe", "sub_wait"}
        /\ pc' = [pc EXCEPT ![t] = l]
  BY DEF Notify, Subscribe, SubscribeWoken, Goto
<1>3. /\ UNCHANGED <<s_vmMtx, s_mutexlst_mtx, QUIT, quit, s_iStackCount, owner, cond_l>>
      /\ UNCHANGED <<cond_w, events, asleep>>
      /\ mutex = NoThread /\ mutex' = t
  BY DEF Notify, Subscribe, SubscribeWoken, queue
<1>4. CountsExact' /\ waiters' \in Nat
  <2>1. CASE SubscribeWoken(t)
    BY <2>1, WakeCounts
  <2>2. CASE Notify(t) \/ Subscribe(t)
    <3>1. pc[t] # "sub_wait" /\ waiters' = waiters
      BY <2>2 DEF Notify, Subscribe, queue
    <3> QED BY <1>1, <1>2, <1>3, <3>1, Types, SameCounts, t \in Threads DEF ShutdownInv, Threads
  <2> QED BY <2>1, <2>2
<1>5. TypeOK'
  BY <1>1, <1>2, <1>3, <1>4, Types, TypesNext, t \in Threads DEF MainPCs, WorkerPCs, Threads
<1>6. Holders'
  <2>1. /\ t # Main /\ t # NoThread /\ Main # NoThread /\ NoThread \notin Threads
        /\ t \in Threads /\ Main \in Threads /\ Workers \subseteq Threads
        /\ pc[Main] # "done"
    BY <1>2, WorkerMoves, ShutdownAssumption DEF Threads
  <2>2. pc'[t] \in {"add", "query"} /\ \A u \in Threads : u # t => pc'[u] = pc[u]
    BY <1>1, <1>2, <2>1, Types
  <2>3. PlacesKnown' /\ VmMutexIsMains' /\ GoneAtEnd'
    BY <1>1, <1>2, <1>3, <2>1, <2>2 DEF Holders, PlacesKnown, VmMutexIsMains, GoneAtEnd, WorkerPCs
  <2>4. MutexHolder'
    BY <1>1, <1>2, <1>3, <2>1, <2>2 DEF Holders, MutexHolder
  <2>5. ListHolder'
    BY <1>1, <1>2, <1>3, <2>1, <2>2 DEF Holders, ListHolder
  <2>6. OwnerIsAlive'
    BY <1>1, <1>2, <1>3, <2>1, <2>2 DEF Holders, OwnerIsAlive
  <2>7. EventForTaker'
    BY <1>1, <1>2, <1>3, <2>1, <2>2 DEF Holders, EventForTaker
  <2> QED BY <2>3, <2>4, <2>5, <2>6, <2>7 DEF Holders
<1> QED BY <1>4, <1>5, <1>6 DEF ShutdownInv, Holders

\* The steps of the thread that has pMutex->mutex and keeps it.
LEMMA InsideSteps ==
    ASSUME NEW t \in Workers, ShutdownInv,
           NotifyAdd(t) \/ SubscribeTake(t) \/ (SubscribeQuery(t) /\ mutex' = mutex)
    PROVE  ShutdownInv'
<1>1. TypeOK /\ Holders
  BY DEF ShutdownInv, Holders
<1>2. PICK l \in {"added", "taken", "take", "sleep"} :
        /\ pc[t] \in {"add", "take", "query"}
        /\ pc' = [pc EXCEPT ![t] = l]
        /\ l = "take" => events' > 0
  <2>1. CASE NotifyAdd(t)
    BY <2>1 DEF NotifyAdd, VmSection, Goto
  <2>2. CASE SubscribeTake(t)
    BY <2>2 DEF SubscribeTake, VmSection, Goto
  <2>3. CASE SubscribeQuery(t) /\ mutex' = mutex
    <3>1. mutex = t /\ t # NoThread
      BY <1>1, <2>3, ShutdownAssumption, t \in Threads
         DEF Holders, MutexHolder, SubscribeQuery, Threads
    <3> QED BY <2>3, <3>1 DEF SubscribeQuery, queue, Goto
  <2> QED BY <2>1, <2>2, <2>3
<1>3. /\ UNCHANGED <<s_vmMtx, s_mutexlst_mtx, mutex, QUIT, s_iStackCount, owner, cond_l>>
      /\ UNCHANGED <<cond_w, waiters, asleep>>
      /\ quit' \in {quit, quit \cup {t}}
  BY DEF NotifyAdd, SubscribeTake, SubscribeQuery, VmSection, natives, queue
<1>4. events' \in Nat
  <2>1. CASE NotifyAdd(t)
    BY <1>1, <2>1, Types DEF NotifyAdd
  <2>2. CASE SubscribeTake(t)
    BY <1>1, <2>2, Types DEF SubscribeTake, Holders, EventForTaker
  <2>3. CASE SubscribeQuery(t)
    BY <1>1, <2>3, Types DEF SubscribeQuery, queue
  <2> QED BY <2>1, <2>2, <2>3
<1>5. \A u \in Workers : u # t => pc[u] # "take"
  BY <1>1, <1>2, t \in Threads DEF Holders, MutexHolder, Threads
<1>6. TypeOK'
  BY <1>1, <1>2, <1>3, <1>4, Types, TypesNext DEF MainPCs, WorkerPCs
<1>7. CountsExact'
  BY <1>1, <1>2, <1>3, Types, SameCounts, t \in Threads DEF ShutdownInv, Threads
<1>8. Holders'
  BY <1>1, <1>2, <1>3, <1>5, Types, WorkerMoves
     DEF Holders, PlacesKnown, VmMutexIsMains, MutexHolder, ListHolder, OwnerIsAlive,
         EventForTaker, GoneAtEnd, MainPCs, WorkerPCs
<1> QED BY <1>6, <1>7, <1>8 DEF ShutdownInv, Holders

\* The steps that unlock pMutex->mutex.
LEMMA ExitSteps ==
    ASSUME NEW t \in Workers, ShutdownInv,
           \/ NotifySignal(t) \/ SubscribeTaken(t) \/ SubscribeSleep(t)
           \/ SubscribeQuery(t) /\ mutex' # mutex
    PROVE  ShutdownInv'
<1>1. TypeOK /\ Holders
  BY DEF ShutdownInv, Holders
<1>2. PICK l \in {"leave", "sub_wait"} :
        /\ pc[t] \in {"added", "taken", "sleep", "query"}
        /\ pc' = [pc EXCEPT ![t] = l]
  BY DEF NotifySignal, SubscribeTaken, SubscribeSleep, SubscribeQuery, VmSection, Goto
<1>3. /\ UNCHANGED <<s_vmMtx, s_mutexlst_mtx, QUIT, s_iStackCount, owner, cond_l>>
      /\ UNCHANGED <<events, asleep>>
      /\ mutex' = NoThread
      /\ cond_w' \subseteq cond_w \cup {t}
      /\ quit' \in {quit, quit \cup {t}}
  BY DEF NotifySignal, SubscribeTaken, SubscribeSleep, SubscribeQuery, VmSection, queue
<1>4. CountsExact' /\ waiters' \in Nat
  <2>1. CASE SubscribeSleep(t)
    BY <2>1, SleepCounts
  <2>2. CASE NotifySignal(t) \/ SubscribeTaken(t) \/ (SubscribeQuery(t) /\ mutex' # mutex)
    <3>1. pc' = [pc EXCEPT ![t] = "leave"] /\ waiters' = waiters
      BY <2>2 DEF NotifySignal, SubscribeTaken, SubscribeQuery, VmSection, Goto, queue
    <3> QED BY <1>1, <1>2, <1>3, <3>1, Types, SameCounts, t \in Threads DEF ShutdownInv, Threads
  <2> QED BY <2>1, <2>2
<1>5. TypeOK'
  BY <1>1, <1>2, <1>3, <1>4, Types, TypesNext, t \in Threads DEF MainPCs, WorkerPCs, Threads
<1>6. mutex = t
  BY <1>1, <1>2, t \in Threads DEF Holders, MutexHolder, Threads
<1>7. Holders'
  <2>1. /\ t # Main /\ t # NoThread /\ Main # NoThread /\ NoThread \notin Threads
        /\ t \in Threads /\ Main \in Threads /\ Workers \subseteq Threads
        /\ pc[Main] # "done"
    BY <1>2, WorkerMoves, ShutdownAssumption DEF Threads
  <2>2. pc'[t] \in {"leave", "sub_wait"} /\ \A u \in Threads : u # t => pc'[u] = pc[u]
    BY <1>1, <1>2, <2>1, Types
  <2>3. PlacesKnown' /\ VmMutexIsMains' /\ GoneAtEnd'
    BY <1>1, <1>2, <1>3, <1>6, <2>1, <2>2 DEF Holders, PlacesKnown, VmMutexIsMains, GoneAtEnd, WorkerPCs
  <2>4. MutexHolder'
    BY <1>1, <1>2, <1>3, <1>6, <2>1, <2>2 DEF Holders, MutexHolder
  <2>5. ListHolder'
    BY <1>1, <1>2, <1>3, <1>6, <2>1, <2>2 DEF Holders, ListHolder
  <2>6. OwnerIsAlive'
    BY <1>1, <1>2, <1>3, <1>6, <2>1, <2>2 DEF Holders, OwnerIsAlive
  <2>7. EventForTaker'
    BY <1>1, <1>2, <1>3, <1>6, <2>1, <2>2 DEF Holders, EventForTaker
  <2> QED BY <2>3, <2>4, <2>5, <2>6, <2>7 DEF Holders
<1> QED BY <1>4, <1>5, <1>7 DEF ShutdownInv, Holders

\* hb_threadMutexUnlockAll(), of a worker that ends and of the main thread.
LEMMA UnlockAllStep ==
    ASSUME NEW t \in Threads, ShutdownInv, UnlockAll(t)
    PROVE  ShutdownInv'
<1>1. TypeOK /\ Holders
  BY DEF ShutdownInv, Holders
<1>2. PICK l \in {"unlock_one", "release", "t_unlock_one", "t_unsubscribe"} :
        /\ pc' = [pc EXCEPT ![t] = l]
        /\ l \in {"unlock_one", "release"} => pc[t] = "end"
        /\ l \in {"t_unlock_one", "t_unsubscribe"} => pc[t] = "t_unlock_all"
        /\ l \in {"unlock_one", "t_unlock_one"} <=> owner = t
  BY DEF UnlockAll, Goto
<1>3. /\ UNCHANGED <<s_vmMtx, mutex, QUIT, quit, s_iStackCount, owner, cond_l>>
      /\ UNCHANGED <<cond_w, waiters, events, asleep>>
      /\ s_mutexlst_mtx = NoThread
      /\ s_mutexlst_mtx' = IF owner = t THEN t ELSE NoThread
  BY DEF UnlockAll, queue
<1>4. /\ NoThread \notin Threads /\ Main \notin Workers /\ Main \in Threads
      /\ t \in Workers \/ t = Main
  BY ShutdownAssumption DEF Threads
<1>5. pc[t] = "end" => t \in Workers
  BY <1>1, <1>4 DEF Holders, PlacesKnown, MainPCs
<1>6. pc[t] = "t_unlock_all" => t = Main
  BY <1>1, <1>4 DEF Holders, PlacesKnown, WorkerPCs
<1>7. TypeOK'
  BY <1>1, <1>2, <1>3, Types, TypesNext DEF MainPCs, WorkerPCs
<1>8. CountsExact'
  BY <1>1, <1>2, <1>3, Types, SameCounts DEF ShutdownInv
<1>9. Holders'
  BY <1>1, <1>2, <1>3, <1>4, <1>5, <1>6, Types
     DEF Holders, PlacesKnown, VmMutexIsMains, MutexHolder, ListHolder, OwnerIsAlive,
         EventForTaker, GoneAtEnd, MainPCs, WorkerPCs
<1> QED BY <1>7, <1>8, <1>9 DEF ShutdownInv, Holders

\* A thread leaves one of the mutexes it holds.
LEMMA UnlockOneStep ==
    ASSUME NEW t \in Threads, ShutdownInv, UnlockOne(t)
    PROVE  ShutdownInv'
<1>1. TypeOK /\ Holders
  BY DEF ShutdownInv, Holders
<1>2. PICK l \in {"release", "t_unsubscribe"} :
        /\ pc' = [pc EXCEPT ![t] = l]
        /\ l = "release" => pc[t] = "unlock_one"
        /\ l = "t_unsubscribe" => pc[t] = "t_unlock_one"
  BY DEF UnlockOne, Goto
<1>3. /\ UNCHANGED <<s_vmMtx, mutex, QUIT, quit, s_iStackCount>>
      /\ UNCHANGED <<cond_w, waiters, events, asleep>>
      /\ s_mutexlst_mtx' = NoThread /\ owner' = NoThread
      /\ cond_l' \subseteq cond_l
  BY DEF UnlockOne, SignalLocker, queue
<1>4. owner = t /\ s_mutexlst_mtx = t
  BY <1>1, <1>2 DEF Holders, OwnerIsAlive, ListHolder
<1>5. /\ NoThread \notin Threads /\ Main \notin Workers /\ Main \in Threads
      /\ t \in Workers \/ t = Main
  BY ShutdownAssumption DEF Threads
<1>6. pc[t] = "unlock_one" => t \in Workers
  BY <1>1, <1>5 DEF Holders, PlacesKnown, MainPCs
<1>7. pc[t] = "t_unlock_one" => t = Main
  BY <1>1, <1>5 DEF Holders, PlacesKnown, WorkerPCs
<1>8. TypeOK'
  BY <1>1, <1>2, <1>3, Types, TypesNext DEF MainPCs, WorkerPCs
<1>9. CountsExact'
  BY <1>1, <1>2, <1>3, Types, SameCounts DEF ShutdownInv
<1>10. Holders'
  BY <1>1, <1>2, <1>3, <1>4, <1>5, <1>6, <1>7, Types
     DEF Holders, PlacesKnown, VmMutexIsMains, MutexHolder, ListHolder, OwnerIsAlive,
         EventForTaker, GoneAtEnd, MainPCs, WorkerPCs, Threads
<1> QED BY <1>8, <1>9, <1>10 DEF ShutdownInv, Holders

\* hb_vmStackRelease().
LEMMA ReleaseStep ==
    ASSUME NEW t \in Workers, ShutdownInv, StackRelease(t)
    PROVE  ShutdownInv'
<1>1. TypeOK /\ Holders
  BY DEF ShutdownInv, Holders
<1>2. pc[t] = "release" /\ pc' = [pc EXCEPT ![t] = "none"]
  BY DEF StackRelease, Goto
<1>3. /\ UNCHANGED <<s_vmMtx, s_mutexlst_mtx, mutex, QUIT, owner, cond_l>>
      /\ UNCHANGED <<cond_w, waiters, events>>
      /\ asleep' = FALSE /\ quit' = quit \ {t}
  BY DEF StackRelease, natives, queue
<1>4. CountsExact' /\ s_iStackCount' \in Nat
  BY ReleaseCounts
<1>5. TypeOK'
  BY <1>1, <1>2, <1>3, <1>4, Types, TypesNext DEF MainPCs, WorkerPCs
<1>6. Holders'
  BY <1>1, <1>2, <1>3, Types, WorkerMoves
     DEF Holders, PlacesKnown, VmMutexIsMains, MutexHolder, ListHolder, OwnerIsAlive,
         EventForTaker, GoneAtEnd, MainPCs, WorkerPCs
<1> QED BY <1>4, <1>5, <1>6 DEF ShutdownInv, Holders

\* hb_vmTerminateThreads(), up to its wait.
LEMMA MainSteps ==
    ASSUME ShutdownInv, TerminateThreads \/ UnsubscribeAll \/ UnsubscribeSignal
    PROVE  ShutdownInv'
<1>1. TypeOK /\ Holders
  BY DEF ShutdownInv, Holders
<1>2. PICK l \in {"t_unlock_all", "t_signal", "t_wait"} :
        /\ pc' = [pc EXCEPT ![Main] = l]
        /\ pc[Main] \in {"run", "t_unsubscribe", "t_signal"}
        /\ l = "t_unlock_all" <=> pc[Main] = "run"
        /\ s_vmMtx' = IF l = "t_unlock_all" THEN Main ELSE s_vmMtx
        /\ l = "t_signal" => s_mutexlst_mtx = NoThread /\ s_mutexlst_mtx' = Main
        /\ l = "t_unlock_all" => s_mutexlst_mtx' = s_mutexlst_mtx
        /\ l = "t_wait" => IF pc[Main] = "t_signal" THEN s_mutexlst_mtx' = NoThread
                           ELSE s_mutexlst_mtx' = s_mutexlst_mtx
  BY DEF TerminateThreads, UnsubscribeAll, UnsubscribeSignal, Goto
<1>3. /\ UNCHANGED <<mutex, quit, s_iStackCount, owner, cond_l>>
      /\ UNCHANGED <<waiters, events, asleep>>
      /\ QUIT' \in {QUIT, TRUE} /\ cond_w' \subseteq cond_w
  BY DEF TerminateThreads, UnsubscribeAll, UnsubscribeSignal, queue
<1>4. /\ NoThread \notin Threads /\ Main \notin Workers /\ Main \in Threads
      /\ Workers \subseteq Threads
  BY ShutdownAssumption DEF Threads
<1>5. TypeOK'
  BY <1>1, <1>2, <1>3, <1>4, Types, TypesNext DEF MainPCs, WorkerPCs
<1>6. CountsExact'
  BY <1>1, <1>2, <1>3, <1>4, Types, SameCounts DEF ShutdownInv
<1>7. Holders'
  BY <1>1, <1>2, <1>3, <1>4, Types
     DEF Holders, PlacesKnown, VmMutexIsMains, MutexHolder, ListHolder, OwnerIsAlive,
         EventForTaker, GoneAtEnd, MainPCs, WorkerPCs
<1> QED BY <1>5, <1>6, <1>7 DEF ShutdownInv, Holders

\* The wait of hb_vmTerminateThreads() and its return.
LEMMA WaitStep ==
    ASSUME ShutdownInv, TerminateWait
    PROVE  ShutdownInv'
<1>1. TypeOK /\ Holders
  BY DEF ShutdownInv, Holders
<1>2. /\ UNCHANGED <<s_mutexlst_mtx, mutex, quit, s_iStackCount, owner, cond_l>>
      /\ UNCHANGED <<cond_w, waiters, events>>
      /\ s_vmMtx' = NoThread
      /\ pc[Main] = "t_wait"
  BY DEF TerminateWait, queue
<1>3. /\ NoThread \notin Threads /\ Main \notin Workers /\ Main \in Threads
      /\ Workers \subseteq Threads
  BY ShutdownAssumption DEF Threads
<1>4. CASE s_iStackCount > 1
  <2>1. asleep' = TRUE /\ UNCHANGED <<QUIT, pc>>
    BY <1>1, <1>4, Types DEF TerminateWait
  <2>2. TypeOK'
    BY <1>1, <1>2, <2>1, Types, TypesNext
  <2>3. CountsExact'
    BY <1>2, <2>1 DEF ShutdownInv, CountsExact, Alive, Subscribers
  <2>4. Holders'
    BY <1>1, <1>2, <2>1
       DEF Holders, PlacesKnown, VmMutexIsMains, MutexHolder, ListHolder, OwnerIsAlive,
           EventForTaker, GoneAtEnd
  <2> QED BY <2>2, <2>3, <2>4 DEF ShutdownInv, Holders
<1>5. CASE s_iStackCount <= 1
  <2>1. QUIT' = FALSE /\ pc' = [pc EXCEPT ![Main] = "done"] /\ asleep' = asleep
    BY <1>1, <1>5, Types DEF TerminateWait, Goto
  <2>2. \A t \in Workers : pc[t] = "none"
    BY <1>5, NobodyAlive
  <2>3. TypeOK'
    BY <1>1, <1>2, <2>1, Types, TypesNext DEF MainPCs, WorkerPCs
  <2>4. CountsExact'
    BY <1>1, <1>2, <1>3, <2>1, Types, SameCounts DEF ShutdownInv
  <2>5. Holders'
    BY <1>1, <1>2, <1>3, <2>1, <2>2, Types
       DEF Holders, PlacesKnown, VmMutexIsMains, MutexHolder, ListHolder, OwnerIsAlive,
           EventForTaker, GoneAtEnd, MainPCs, WorkerPCs
  <2> QED BY <2>3, <2>4, <2>5 DEF ShutdownInv, Holders
<1> QED BY <1>1, <1>4, <1>5, Types

-----------------------------------------------------------------------------
(* The theorems.                                                           *)

\* The program starts in the invariant.
LEMMA InvInit == Init => ShutdownInv
<1> SUFFICES ASSUME Init PROVE ShutdownInv
  OBVIOUS
<1>1. /\ NoThread \notin Threads /\ Main \notin Workers /\ Main \in Threads
      /\ Workers \subseteq Threads /\ IsFiniteSet(Workers)
  BY ShutdownAssumption DEF Threads
<1>2. \A t \in Threads : pc[t] = "run"
  BY DEF Init
<1>3. Alive = Workers /\ Subscribers = {}
  BY <1>1, <1>2 DEF Alive, Subscribers
<1>4. CountsExact /\ Cardinality(Workers) \in Nat
  BY <1>1, <1>3, FS_EmptySet, FS_CardinalityType DEF Init, CountsExact
<1>5. TypeOK
  <2>1. pc \in [Threads -> MainPCs \cup WorkerPCs]
    BY DEF Init, MainPCs, WorkerPCs
  <2>2. s_iStackCount \in Nat /\ waiters \in Nat /\ events \in Nat
    BY <1>4 DEF Init
  <2>3. {s_vmMtx, s_mutexlst_mtx, mutex, owner} \subseteq Threads \cup {NoThread}
    BY <1>1 DEF Init
  <2>4. QUIT = FALSE /\ asleep = FALSE /\ quit = {} /\ cond_l = {} /\ cond_w = {}
    BY DEF Init
  <2> QED BY <2>1, <2>2, <2>3, <2>4, Types
<1>6. Holders
  BY <1>1, <1>2
     DEF Init, Holders, PlacesKnown, VmMutexIsMains, MutexHolder, ListHolder, OwnerIsAlive,
         EventForTaker, GoneAtEnd, MainPCs, WorkerPCs
<1> QED BY <1>4, <1>5, <1>6 DEF ShutdownInv, Holders

\* Every step keeps it.
LEMMA InvNext == ShutdownInv /\ [Next]_vars => ShutdownInv'
<1> SUFFICES ASSUME ShutdownInv, [Next]_vars PROVE ShutdownInv'
  OBVIOUS
<1>1. ASSUME NEW t \in Workers,
             FetchOpcode(t) \/ Call(t) \/ ThreadQuit(t) \/ WorkerStep(t)
      PROVE  ShutdownInv'
  <2>1. CASE FetchOpcode(t) \/ EndOpcode(t) \/ Call(t) \/ Leave(t) \/ ThreadQuit(t)
    BY <2>1, QuietSteps
  <2>2. CASE Lock(t) \/ Unlock(t)
    BY <2>2, LockSteps
  <2>3. CASE Notify(t) \/ Subscribe(t) \/ SubscribeWoken(t)
    BY <2>3, EnterSteps
  <2>4. CASE NotifyAdd(t) \/ SubscribeTake(t) \/ (SubscribeQuery(t) /\ mutex' = mutex)
    BY <2>4, InsideSteps
  <2>5. CASE \/ NotifySignal(t) \/ SubscribeTaken(t) \/ SubscribeSleep(t)
             \/ SubscribeQuery(t) /\ mutex' # mutex
    BY <2>5, ExitSteps
  <2>6. CASE StackRelease(t)
    BY <2>6, ReleaseStep
  <2> QED BY <1>1, <2>1, <2>2, <2>3, <2>4, <2>5, <2>6 DEF WorkerStep
<1>2. ASSUME NEW t \in Threads, UnlockStep(t) PROVE ShutdownInv'
  BY <1>2, UnlockAllStep, UnlockOneStep DEF UnlockStep
<1>3. ASSUME TerminateThreads \/ MainStep PROVE ShutdownInv'
  BY <1>3, MainSteps, WaitStep DEF MainStep
<1>4. CASE UNCHANGED vars
  BY <1>4
     DEF vars, ShutdownInv, TypeOK, PlacesKnown, CountsExact, Alive, Subscribers,
         VmMutexIsMains, MutexHolder, ListHolder, OwnerIsAlive, EventForTaker, GoneAtEnd
<1> QED BY <1>1, <1>2, <1>3, <1>4 DEF Next

\* The holders of the mutexes, the two counters and the owner of the Harbour mutex
\* are what the places of the threads say, for any number of threads.
THEOREM Invariance == Spec => []ShutdownInv
BY InvInit, InvNext, PTL DEF Spec

\* When hb_vmTerminateThreads() returns to the exit procedures every other stack is
\* released, no native mutex is held and the Harbour mutex has neither an owner nor
\* a waiter, for any number of threads and whatever they do with the mutex.
THEOREM TerminationCorrect == Spec => []AloneAtEnd
<1>1. ShutdownInv => AloneAtEnd
  <2> SUFFICES ASSUME ShutdownInv PROVE AloneAtEnd
    OBVIOUS
  <2>1. TypeOK
    BY DEF ShutdownInv
  <2>2. ASSUME pc[Main] = "done"
        PROVE  /\ \A t \in Workers : pc[t] = "none"
               /\ s_vmMtx = NoThread /\ s_mutexlst_mtx = NoThread /\ mutex = NoThread
               /\ owner = NoThread /\ waiters = 0
    <3>1. \A t \in Workers : pc[t] = "none"
      BY <2>2 DEF ShutdownInv, GoneAtEnd
    <3>2. \A t \in Threads : pc[t] \in {"none", "done"}
      BY <2>2, <3>1 DEF Threads
    <3>3. s_vmMtx = NoThread
      BY <2>2 DEF ShutdownInv, VmMutexIsMains
    <3>4. s_mutexlst_mtx = NoThread
      BY <2>1, <3>2, Types DEF ShutdownInv, ListHolder
    <3>5. mutex = NoThread
      BY <2>1, <3>2, Types DEF ShutdownInv, MutexHolder
    <3>6. owner = NoThread
      BY <2>1, <2>2, <3>1, Types DEF ShutdownInv, OwnerIsAlive, Threads
    <3>7. Subscribers = {}
      BY <3>1 DEF Subscribers
    <3>8. waiters = 0
      BY <3>7, FS_EmptySet DEF ShutdownInv, CountsExact
    <3> QED BY <3>1, <3>3, <3>4, <3>5, <3>6, <3>8
  <2> QED BY <2>1, <2>2 DEF AloneAtEnd
<1> QED BY Invariance, <1>1, PTL
=============================================================================
