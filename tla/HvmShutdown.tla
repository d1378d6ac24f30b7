---------------------------- MODULE HvmShutdown ----------------------------
(***************************************************************************)
(* The end of a multithreaded program: hb_vmTerminateThreads() of          *)
(* src/src/vm/hvm.c together with the Harbour mutexes of                   *)
(* src/src/vm/thread.c.  HvmLock and HbMutex treat the two halves one by   *)
(* one; here they share the three native mutexes s_vmMtx, s_mutexlst_mtx   *)
(* and pMutex->mutex, and the steps are the ones between their operations. *)
(*                                                                         *)
(* There is one Harbour mutex, with its array of events.  STOP and         *)
(* s_iRunningCount are left to HvmLock: hb_vmLock(), hb_vmLockForce() and  *)
(* hb_vmUnlock() are steps that need s_vmMtx and take a quit request.      *)
(* A subscriber does not own the lock of the mutex (see HbMutex).          *)
(*                                                                         *)
(* A definition X_Y is a broken variant of X: it stands for a mistake the  *)
(* properties must notice and is no part of the specification.             *)
(***************************************************************************)
EXTENDS Integers, FiniteSets

CONSTANTS
    Main, Workers,
    NoThread,
    Ops,        \* what the program uses: a subset of {"lock", "notify", "subscribe"}
    MaxEvents   \* bound on the events that wait in the queue

Threads == {Main} \cup Workers

ASSUME ShutdownAssumption ==
    /\ IsFiniteSet(Workers) /\ Main \notin Workers /\ NoThread \notin Threads
    /\ Ops \subseteq {"lock", "notify", "subscribe"}
    /\ MaxEvents \in Nat

VARIABLES
    s_vmMtx, s_mutexlst_mtx, mutex,  \* the owners of the native mutexes
    QUIT,            \* HB_THREQUEST_QUIT is set
    quit,            \* threads that have stored HB_QUIT_REQUESTED on their stack
    s_iStackCount,
    owner,           \* the owner of the Harbour mutex
    cond_l, cond_w,  \* threads asleep on the conditions of the Harbour mutex
    waiters,
    events,          \* the length of the array of events
    asleep,          \* the main thread sleeps on s_vmCond
    pc

vars == <<s_vmMtx, s_mutexlst_mtx, mutex, QUIT, quit, s_iStackCount, owner,
          cond_l, cond_w, waiters, events, asleep, pc>>
natives == <<s_vmMtx, s_mutexlst_mtx, mutex>>
queue == <<cond_w, waiters, events>>

WorkerPCs == {"run", "op", "lock", "lock_wait", "unlock", "notify", "add", "added",
              "subscribe", "query", "sleep", "sub_wait", "take", "taken", "leave",
              "end", "unlock_all", "unlock_one", "release", "none"}

MainPCs == {"run", "t_unlock_all", "t_unlock_one", "t_unsubscribe", "t_signal", "t_wait", "done"}

\* The type invariant.
TypeOK ==
    /\ {s_vmMtx, s_mutexlst_mtx, mutex, owner} \subseteq Threads \cup {NoThread}
    /\ {QUIT, asleep} \subseteq BOOLEAN
    /\ quit \in SUBSET Workers
    /\ {s_iStackCount, waiters, events} \subseteq Nat
    /\ {cond_l, cond_w} \subseteq SUBSET Threads
    /\ pc \in [Threads -> MainPCs \cup WorkerPCs]

\* The workers run and the main thread, which may have locked the mutex, is about
\* to end the program.
Init ==
    /\ s_vmMtx = NoThread /\ s_mutexlst_mtx = NoThread /\ mutex = NoThread
    /\ QUIT = FALSE /\ quit = {}
    /\ s_iStackCount = 1 + Cardinality(Workers)
    /\ owner \in {Main, NoThread}
    /\ cond_l = {} /\ cond_w = {} /\ waiters = 0 /\ events = 0
    /\ asleep = FALSE
    /\ pc = [t \in Threads |-> "run"]

-----------------------------------------------------------------------------
Goto(t, l) == pc' = [pc EXCEPT ![t] = l]

\* hb_vmLock(), hb_vmLockForce() or hb_vmUnlock(): a section of s_vmMtx in which
\* the thread takes a quit request; it goes on at l.
VmSection(t, l) ==
    /\ s_vmMtx = NoThread
    /\ quit' = IF QUIT THEN quit \cup {t} ELSE quit
    /\ Goto(t, l)

\* HB_COND_SIGNAL( pMutex->cond_l )
SignalLocker == IF cond_l = {} THEN UNCHANGED cond_l ELSE \E t \in cond_l : cond_l' = cond_l \ {t}

-----------------------------------------------------------------------------
(* The workers.                                                            *)

\* The top of the opcode loop; hb_vmRequestTest() takes the request.
FetchOpcode(t) ==
    /\ pc[t] = "run" /\ t \notin quit
    /\ QUIT => s_vmMtx = NoThread
    /\ quit' = IF QUIT THEN quit \cup {t} ELSE quit
    /\ Goto(t, "op")
    /\ UNCHANGED <<natives, QUIT, s_iStackCount, owner, cond_l, queue, asleep>>

EndOpcode(t) ==
    /\ pc[t] = "op"
    /\ Goto(t, "run")
    /\ UNCHANGED <<natives, QUIT, quit, s_iStackCount, owner, cond_l, queue, asleep>>

\* A function on the mutex begins with hb_vmUnlock().
Call(t) ==
    /\ pc[t] = "op"
    /\ \/ "lock" \in Ops /\ owner # t /\ VmSection(t, "lock")
       \/ "lock" \in Ops /\ owner = t /\ VmSection(t, "unlock")
       \/ "notify" \in Ops /\ events < MaxEvents /\ VmSection(t, "notify")
       \/ "subscribe" \in Ops /\ owner # t /\ VmSection(t, "subscribe")
    /\ UNCHANGED <<natives, QUIT, s_iStackCount, owner, cond_l, queue, asleep>>

\* ... and ends with hb_vmLock(); the opcode that called it is done.
Leave(t) ==
    /\ pc[t] = "leave"
    /\ VmSection(t, "run")
    /\ UNCHANGED <<natives, QUIT, s_iStackCount, owner, cond_l, queue, asleep>>

\* hb_threadMutexLock() and hb_threadMutexUnlock() without their calls of the VM.
Lock(t) ==
    /\ pc[t] = "lock" \/ (pc[t] = "lock_wait" /\ t \notin cond_l)
    /\ mutex = NoThread
    /\ \/ owner = NoThread /\ owner' = t /\ Goto(t, "leave") /\ UNCHANGED cond_l
       \/ owner # NoThread /\ cond_l' = cond_l \cup {t} /\ Goto(t, "lock_wait") /\ UNCHANGED owner
    /\ UNCHANGED <<natives, QUIT, quit, s_iStackCount, queue, asleep>>

Unlock(t) ==
    /\ pc[t] = "unlock"
    /\ mutex = NoThread
    /\ owner' = NoThread /\ SignalLocker
    /\ Goto(t, "leave")
    /\ UNCHANGED <<natives, QUIT, quit, s_iStackCount, queue, asleep>>

\* hb_threadMutexNotify(): hb_vmLockForce() and hb_vmUnlock() inside the section.
Notify(t) ==
    /\ pc[t] = "notify"
    /\ mutex = NoThread /\ mutex' = t
    /\ Goto(t, "add")
    /\ UNCHANGED <<s_vmMtx, s_mutexlst_mtx, QUIT, quit, s_iStackCount, owner, cond_l, queue, asleep>>

NotifyAdd(t) ==
    /\ pc[t] = "add"
    /\ VmSection(t, "added")
    /\ events' = events + 1
    /\ UNCHANGED <<natives, QUIT, s_iStackCount, owner, cond_l, cond_w, waiters, asleep>>

NotifySignal(t) ==
    /\ pc[t] = "added"
    /\ VmSection(t, "leave")
    /\ IF cond_w = {} THEN UNCHANGED cond_w ELSE \E u \in cond_w : cond_w' = cond_w \ {u}
    /\ mutex' = NoThread
    /\ UNCHANGED <<s_vmMtx, s_mutexlst_mtx, QUIT, s_iStackCount, owner, cond_l, waiters, events, asleep>>

\* hb_threadMutexSubscribe(): the loop condition is read without s_vmMtx ...
Subscribe(t) ==
    /\ pc[t] = "subscribe"
    /\ mutex = NoThread /\ mutex' = t
    /\ Goto(t, "query")
    /\ UNCHANGED <<s_vmMtx, s_mutexlst_mtx, QUIT, quit, s_iStackCount, owner, cond_l, queue, asleep>>

SubscribeQuery(t) ==
    /\ pc[t] = "query"
    /\ quit' = IF QUIT /\ events = 0 THEN quit \cup {t} ELSE quit
    /\ IF events > 0 THEN Goto(t, "take") /\ UNCHANGED mutex
       ELSE IF t \in quit' THEN Goto(t, "leave") /\ mutex' = NoThread
       ELSE Goto(t, "sleep") /\ UNCHANGED mutex
    /\ UNCHANGED <<s_vmMtx, s_mutexlst_mtx, QUIT, s_iStackCount, owner, cond_l, queue, asleep>>

\* ... and only then the thread counts as a waiter and sleeps.
SubscribeSleep(t) ==
    /\ pc[t] = "sleep"
    /\ waiters' = waiters + 1
    /\ cond_w' = cond_w \cup {t}
    /\ mutex' = NoThread
    /\ Goto(t, "sub_wait")
    /\ UNCHANGED <<s_vmMtx, s_mutexlst_mtx, QUIT, quit, s_iStackCount, owner, cond_l, events, asleep>>

SubscribeWoken(t) ==
    /\ pc[t] = "sub_wait" /\ t \notin cond_w
    /\ mutex = NoThread /\ mutex' = t
    /\ waiters' = waiters - 1
    /\ Goto(t, "query")
    /\ UNCHANGED <<s_vmMtx, s_mutexlst_mtx, QUIT, quit, s_iStackCount, owner, cond_l, cond_w, events, asleep>>

SubscribeTake(t) ==
    /\ pc[t] = "take"
    /\ VmSection(t, "taken")
    /\ events' = events - 1
    /\ UNCHANGED <<natives, QUIT, s_iStackCount, owner, cond_l, cond_w, waiters, asleep>>

SubscribeTaken(t) ==
    /\ pc[t] = "taken"
    /\ VmSection(t, "leave")
    /\ mutex' = NoThread
    /\ UNCHANGED <<s_vmMtx, s_mutexlst_mtx, QUIT, s_iStackCount, owner, cond_l, queue, asleep>>

-----------------------------------------------------------------------------
(* hb_vmThreadQuit() and hb_vmStackRelease().                              *)

\* The thread function returns, or the thread has taken a quit request.
ThreadQuit(t) ==
    /\ pc[t] = "run" /\ t \in Workers
    /\ s_vmMtx = NoThread
    /\ Goto(t, "end")
    /\ UNCHANGED <<natives, QUIT, quit, s_iStackCount, owner, cond_l, queue, asleep>>

\* hb_threadMutexUnlockAll(), as called by a thread that ends ("end") and by
\* hb_vmTerminateThreads() ("t_unlock_all"): the list of mutexes is walked with
\* s_mutexlst_mtx, and the owner is read before pMutex->mutex is locked.
UnlockAll(t) ==
    /\ \/ pc[t] = "end" /\ Goto(t, IF owner = t THEN "unlock_one" ELSE "release")
       \/ pc[t] = "t_unlock_all" /\ Goto(t, IF owner = t THEN "t_unlock_one" ELSE "t_unsubscribe")
    /\ s_mutexlst_mtx = NoThread
    /\ s_mutexlst_mtx' = IF owner = t THEN t ELSE NoThread
    /\ UNCHANGED <<s_vmMtx, mutex, QUIT, quit, s_iStackCount, owner, cond_l, queue, asleep>>

UnlockOne_Quiet(t) ==
    /\ \/ pc[t] = "unlock_one" /\ Goto(t, "release")
       \/ pc[t] = "t_unlock_one" /\ Goto(t, "t_unsubscribe")
    /\ mutex = NoThread
    /\ owner' = NoThread
    /\ s_mutexlst_mtx' = NoThread
    /\ UNCHANGED <<s_vmMtx, mutex, QUIT, quit, s_iStackCount, cond_l, queue, asleep>>

UnlockOne(t) ==
    /\ \/ pc[t] = "unlock_one" /\ Goto(t, "release")
       \/ pc[t] = "t_unlock_one" /\ Goto(t, "t_unsubscribe")
    /\ mutex = NoThread
    /\ owner' = NoThread /\ SignalLocker
    /\ s_mutexlst_mtx' = NoThread
    /\ UNCHANGED <<s_vmMtx, mutex, QUIT, quit, s_iStackCount, queue, asleep>>

StackRelease(t) ==
    /\ pc[t] = "release"
    /\ s_vmMtx = NoThread
    /\ s_iStackCount' = s_iStackCount - 1
    /\ asleep' = FALSE
    /\ quit' = quit \ {t}
    /\ Goto(t, "none")
    /\ UNCHANGED <<natives, QUIT, owner, cond_l, queue>>

-----------------------------------------------------------------------------
(* hb_vmTerminateThreads() keeps s_vmMtx while it calls                    *)
(* hb_threadMutexUnlockAll() and hb_threadMutexUnsubscribeAll().           *)

TerminateThreads ==
    /\ pc[Main] = "run"
    /\ s_vmMtx = NoThread /\ s_vmMtx' = Main
    /\ QUIT' = TRUE
    /\ Goto(Main, "t_unlock_all")
    /\ UNCHANGED <<s_mutexlst_mtx, mutex, quit, s_iStackCount, owner, cond_l, queue, asleep>>

\* hb_threadMutexUnsubscribeAll(): "if( pMutex->waiters )" is read without
\* pMutex->mutex.
UnsubscribeAll ==
    /\ pc[Main] = "t_unsubscribe"
    /\ s_mutexlst_mtx = NoThread
    /\ IF waiters > 0 THEN s_mutexlst_mtx' = Main /\ Goto(Main, "t_signal")
                      ELSE Goto(Main, "t_wait") /\ UNCHANGED s_mutexlst_mtx
    /\ UNCHANGED <<s_vmMtx, mutex, QUIT, quit, s_iStackCount, owner, cond_l, queue, asleep>>

UnsubscribeSignal ==
    /\ pc[Main] = "t_signal"
    /\ mutex = NoThread
    /\ cond_w' = {}
    /\ s_mutexlst_mtx' = NoThread
    /\ Goto(Main, "t_wait")
    /\ UNCHANGED <<s_vmMtx, mutex, QUIT, quit, s_iStackCount, owner, cond_l, waiters, events, asleep>>

\* "while( s_iStackCount > 1 ) hb_threadCondWait( &s_vmCond, &s_vmMtx )"
TerminateWait_Once ==
    /\ pc[Main] = "t_wait" /\ ~asleep /\ s_vmMtx \in {Main, NoThread}
    /\ \/ /\ s_iStackCount > 1 /\ s_vmMtx = Main
          /\ asleep' = TRUE
          /\ UNCHANGED <<QUIT, pc>>
       \/ /\ s_iStackCount <= 1 \/ s_vmMtx = NoThread
          /\ QUIT' = FALSE
          /\ Goto(Main, "done")
          /\ UNCHANGED asleep
    /\ s_vmMtx' = NoThread
    /\ UNCHANGED <<s_mutexlst_mtx, mutex, quit, s_iStackCount, owner, cond_l, queue>>

TerminateWait ==
    /\ pc[Main] = "t_wait" /\ ~asleep /\ s_vmMtx \in {Main, NoThread}
    /\ \/ /\ s_iStackCount > 1
          /\ asleep' = TRUE
          /\ UNCHANGED <<QUIT, pc>>
       \/ /\ s_iStackCount <= 1
          /\ QUIT' = FALSE
          /\ Goto(Main, "done")
          /\ UNCHANGED asleep
    /\ s_vmMtx' = NoThread
    /\ UNCHANGED <<s_mutexlst_mtx, mutex, quit, s_iStackCount, owner, cond_l, queue>>

-----------------------------------------------------------------------------
\* A worker goes on with what it is doing.
WorkerStep(t) ==
    \/ EndOpcode(t) \/ Leave(t) \/ Lock(t) \/ Unlock(t)
    \/ Notify(t) \/ NotifyAdd(t) \/ NotifySignal(t)
    \/ Subscribe(t) \/ SubscribeQuery(t) \/ SubscribeSleep(t) \/ SubscribeWoken(t)
    \/ SubscribeTake(t) \/ SubscribeTaken(t)
    \/ StackRelease(t)

UnlockStep(t) == UnlockAll(t) \/ UnlockOne(t)

MainStep == UnsubscribeAll \/ UnsubscribeSignal \/ TerminateWait

Next ==
    \/ \E t \in Workers : FetchOpcode(t) \/ Call(t) \/ ThreadQuit(t) \/ WorkerStep(t)
    \/ \E t \in Threads : UnlockStep(t)
    \/ TerminateThreads \/ MainStep

Spec == Init /\ [][Next]_vars

(***************************************************************************)
(* Fairness.  A thread that waits for a native mutex gets it when it is    *)
(* released again and again (SF), an opcode ends, and the opcode loop sees *)
(* a request and leaves.  What a thread calls, and whether it ends without *)
(* a request, is the program's choice.  A thread that sleeps on a          *)
(* condition is woken by a signal only.  At each place one of the steps of *)
(* a thread can be taken, so that one condition for each thread is enough. *)
(***************************************************************************)
Fairness ==
    /\ \A t \in Workers :
         SF_vars(\/ WorkerStep(t) \/ UnlockStep(t)
                 \/ QUIT /\ FetchOpcode(t)
                 \/ t \in quit /\ ThreadQuit(t))
    /\ SF_vars(MainStep \/ UnlockStep(Main))

FairSpec == Spec /\ Fairness

-----------------------------------------------------------------------------
(* Properties.                                                             *)

\* When hb_vmTerminateThreads() returns nobody is left: every other stack is
\* released, and no thread that is gone holds or owns a mutex, so that the exit
\* procedures can lock it.  The types of the state are part of it.
AloneAtEnd ==
    /\ TypeOK
    /\ pc[Main] = "done" =>
          /\ \A t \in Workers : pc[t] = "none"
          /\ s_vmMtx = NoThread /\ s_mutexlst_mtx = NoThread /\ mutex = NoThread
          /\ owner = NoThread /\ waiters = 0

(***************************************************************************)
(* What makes AloneAtEnd inductive: each native mutex is held by the       *)
(* thread whose place says so, an owner of the Harbour mutex is alive, and *)
(* the two counters are the threads at certain places.                     *)
(***************************************************************************)
PlacesKnown == pc[Main] \in MainPCs /\ \A t \in Workers : pc[t] \in WorkerPCs

\* The threads that have a stack, and the ones that wait for an event.
Alive == {t \in Workers : pc[t] # "none"}
Subscribers == {t \in Workers : pc[t] = "sub_wait"}

CountsExact == s_iStackCount = 1 + Cardinality(Alive) /\ waiters = Cardinality(Subscribers)

\* s_vmMtx is kept between two steps by hb_vmTerminateThreads() only.
VmMutexIsMains ==
    /\ s_vmMtx \in {Main, NoThread}
    /\ pc[Main] \in {"run", "done"} => s_vmMtx = NoThread

MutexHolder ==
    \A t \in Threads : mutex = t <=> pc[t] \in {"add", "added", "query", "sleep", "take", "taken"}

ListHolder ==
    \A t \in Threads : s_mutexlst_mtx = t <=> pc[t] \in {"unlock_one", "t_unlock_one", "t_signal"}

\* A thread that has passed hb_threadMutexUnlockAll() owns nothing, and one that
\* unlocks is the owner.
OwnerIsAlive ==
    /\ owner \in Workers => pc[owner] \notin {"release", "none"}
    /\ owner = Main => pc[Main] \in {"run", "t_unlock_all", "t_unlock_one"}
    /\ \A t \in Threads : pc[t] \in {"unlock", "unlock_one", "t_unlock_one"} => owner = t

EventForTaker == \A t \in Workers : pc[t] = "take" => events > 0

GoneAtEnd == pc[Main] = "done" => \A t \in Workers : pc[t] = "none"

ShutdownInv ==
    /\ TypeOK
    /\ PlacesKnown /\ CountsExact
    /\ VmMutexIsMains /\ MutexHolder /\ ListHolder
    /\ OwnerIsAlive /\ EventForTaker /\ GoneAtEnd

\* A subscriber that was between its test for a request and its sleep when the
\* subscribers were woken.
SubscriberMissed == pc[Main] = "t_wait" /\ \E t \in cond_w : pc[t] = "sub_wait"

\* The main thread has s_vmMtx and waits for the raw mutex, or for the list of
\* mutexes of a thread that ends and waits for the raw mutex; the thread that has
\* the raw mutex waits for s_vmMtx.
MutexesCrossed ==
    /\ s_vmMtx = Main
    /\ mutex # NoThread /\ pc[mutex] \in {"add", "added", "take", "taken"}
    /\ \/ pc[Main] \in {"t_unlock_one", "t_signal"}
       \/ s_mutexlst_mtx \in Workers /\ pc[Main] \in {"t_unlock_all", "t_unsubscribe"}

\* hb_vmTerminateThreads() fails to return in two ways only, whatever the threads
\* do with the mutex: a subscriber that was missed when the others were woken, or
\* the two native mutexes taken in opposite orders.  Either lasts for good; every
\* other wait of the shutdown, for a lock, a raw mutex or a stack, comes to an end.
OnlyKnownHangs ==
    QUIT ~> (pc[Main] = "done" \/ []SubscriberMissed \/ []MutexesCrossed)
=============================================================================
