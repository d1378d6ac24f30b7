------------------------------ MODULE HvmLock ------------------------------
(***************************************************************************)
(* The thread control of the Harbour virtual machine (src/src/vm/hvm.c)    *)
(* and the part of the collector that drives it (src/src/vm/garbage.c).    *)
(*                                                                         *)
(* Every HVM thread is either inside the VM, where it may touch items, or  *)
(* outside it.  s_iRunningCount counts the threads inside.  A thread that  *)
(* needs the machine for itself (the garbage collector) sets STOP, waits   *)
(* until it is the only one inside, and keeps s_vmMtx until it resumes the *)
(* others.  The main thread ends the others with QUIT and waits for        *)
(* s_iStackCount to fall to one.                                           *)
(*                                                                         *)
(* A section between HB_VM_LOCK() and HB_VM_UNLOCK() is one action, enabled*)
(* while nobody holds s_vmMtx.  hb_threadCondWait(s_vmCond) puts the thread*)
(* in sleepers and ends the action; the code after the wait is an action   *)
(* of its own, for a thread that is no longer in sleepers.                 *)
(*                                                                         *)
(* A definition X_Y is a broken variant of X: it stands for a mistake the  *)
(* properties must notice and is no part of the specification.             *)
(***************************************************************************)
EXTENDS Integers, FiniteSets, Sequences

CONSTANTS
    Main,        \* the thread that called hb_vmInit(): s_main_thread
    Workers,     \* slots for threads started with hb_threadStart()
    Foreign,     \* threads of other libraries that call back into the HVM
    MaxUnlock,   \* bound on the nesting of hb_vmUnlock()
    MaxReenter,  \* bound on the nesting of hb_vmRequestReenter()
    NoThread     \* the owner of a free s_vmMtx

Threads == {Main} \cup Workers \cup Foreign

ASSUME ThreadsAssumption ==
    /\ IsFiniteSet(Workers) /\ IsFiniteSet(Foreign)
    /\ Main \notin Workers /\ Main \notin Foreign
    /\ Workers \cap Foreign = {}
    /\ NoThread \notin Threads

ASSUME BoundsAssumption == MaxUnlock \in Nat \ {0} /\ MaxReenter \in Nat

VARIABLES
    s_vmMtx,            \* the thread that keeps s_vmMtx between two actions
    sleepers,           \* the threads asleep on s_vmCond
    hb_vmThreadRequest, \* the requests pending for every thread
    s_iRunningCount,    \* "number of running HVM threads"
    s_iStackCount,      \* "number of allocated HVM stacks"
    s_bCollecting,      \* a collection is in progress
    sweeping,           \* the threads that run the destructors of a collection
    pc,                 \* where each thread is, see PCs
    iUnlocked,          \* nesting of hb_vmUnlock(), kept on the thread's stack
    recover,            \* the unlock depths saved by hb_vmRequestReenter()
    quit                \* HB_QUIT_REQUESTED was stored on the thread's stack

vars == <<s_vmMtx, sleepers, hb_vmThreadRequest, s_iRunningCount, s_iStackCount,
          s_bCollecting, sweeping, pc, iUnlocked, recover, quit>>

STOP == "STOP"
QUIT == "QUIT"

\* Threads that execute HVM code or touch HVM items and are counted once.
\* "run" is the top of the loop of hb_vmExecute(), "op" the body of an opcode,
\* "release" the part of hb_vmStackRelease() between its two sections.
InVMPCs == {"run", "op", "create", "gc_try", "gc_force", "collect", "mark", "release"}

\* A foreign thread on its way in, after the s_iRunningCount++ of
\* hb_vmRequestReenterExt(): "x_init" runs hb_threadStateNew(), "x_attach" is
\* about to call hb_vmLock(), "x_lock_wait" waits there, "x_in" has passed it
\* and is counted twice until the s_iRunningCount-- that follows.
ExtPCs == {"x_init", "x_attach", "x_lock_wait", "x_in"}

\* The sleeps in hb_vmRequestTest(), hb_vmLock() (also as called by
\* hb_vmThreadInit()) and hb_vmRequestReenterExt(): all end when STOP does.
StopWaitPCs == {"test_wait", "lock_wait", "attach_wait", "x_lock_wait", "x_wait"}

PCs == InVMPCs \cup ExtPCs \cup StopWaitPCs
       \cup {"none", "registered", "init", "attach", "unlocked",
             "susp_wait", "term_wait", "exit_wait", "wait_wait"}

\* The threads that s_iStackCount counts: hb_vmStackAdd() is done and the
\* second section of hb_vmStackRelease() is not.
StackPCs == PCs \ {"none", "x_wait", "x_init"}

\* The threads whose stack exists and is published in pState->pStackId.
ActivePCs == StackPCs \ {"registered", "init", "release"}

TypeGlobal ==
    /\ s_vmMtx \in Threads \cup {NoThread}
    /\ sleepers \in SUBSET Threads
    /\ hb_vmThreadRequest \in SUBSET {STOP, QUIT}
    /\ s_iRunningCount \in Int
    /\ s_iStackCount \in Int
    /\ s_bCollecting \in BOOLEAN
    /\ sweeping \in SUBSET Threads

TypeLocal ==
    /\ pc \in [Threads -> PCs]
    /\ iUnlocked \in [Threads -> Nat]
    /\ recover \in [Threads -> Seq(Nat)]
    /\ quit \in [Threads -> BOOLEAN]

\* The type invariant: the state the threads share and what each keeps on its
\* own stack.
TypeOK == TypeGlobal /\ TypeLocal

\* hb_vmInit() leaves the main thread inside the VM and alone.
Init ==
    /\ s_vmMtx = NoThread
    /\ sleepers = {}
    /\ hb_vmThreadRequest = {}
    /\ s_iRunningCount = 1
    /\ s_iStackCount = 1
    /\ s_bCollecting = FALSE
    /\ sweeping = {}
    /\ pc = [t \in Threads |-> IF t = Main THEN "run" ELSE "none"]
    /\ iUnlocked = [t \in Threads |-> 0]
    /\ recover = [t \in Threads |-> <<>>]
    /\ quit = [t \in Threads |-> FALSE]

-----------------------------------------------------------------------------
(* Pieces shared by the actions.                                           *)

Goto(t, l) == pc' = [pc EXCEPT ![t] = l]

\* hb_threadCondWait( &s_vmCond, &s_vmMtx )
SleepAt(t, l) == Goto(t, l) /\ sleepers' = sleepers \cup {t}

\* hb_threadCondBroadcast( &s_vmCond )
Broadcast == sleepers' = {}

\* The thread at l has been woken and finds s_vmMtx free.
Woken(t, l) == pc[t] = l /\ t \notin sleepers /\ s_vmMtx = NoThread

\* "if( hb_vmThreadRequest & HB_THREQUEST_QUIT ) ..." of the lock functions.
TakeQuit(t) ==
    quit' = IF QUIT \in hb_vmThreadRequest THEN [quit EXCEPT ![t] = TRUE] ELSE quit

unchangedGC == UNCHANGED <<s_bCollecting, sweeping>>
unchangedStack == UNCHANGED <<iUnlocked, recover>>

-----------------------------------------------------------------------------
(* The opcode loop.                                                        *)

\* The top of the loop finds no request.  A thread that has to quit leaves
\* the loop, unless the request is parked below a reentered call.
FetchOpcode(t) ==
    /\ pc[t] = "run"
    /\ hb_vmThreadRequest = {}
    /\ quit[t] => recover[t] # <<>>
    /\ Goto(t, "op")
    /\ UNCHANGED <<s_vmMtx, sleepers, hb_vmThreadRequest, s_iRunningCount, s_iStackCount, quit>>
    /\ unchangedGC /\ unchangedStack

\* hb_vmRequestTest(), the section from its entry or from the wait on s_vmCond:
\* the opcode is executed when STOP is gone.
RequestTestLoop(t) ==
    /\ s_vmMtx = NoThread
    /\ TakeQuit(t)
    /\ IF STOP \in hb_vmThreadRequest
         THEN /\ Goto(t, "test_wait")
              /\ sleepers' = {t}             \* broadcast, then wait
              /\ s_iRunningCount' = s_iRunningCount - (IF pc[t] = "run" THEN 1 ELSE 0)
         ELSE /\ Goto(t, "op")
              /\ s_iRunningCount' = s_iRunningCount + (IF pc[t] = "run" THEN 0 ELSE 1)
              /\ UNCHANGED sleepers
    /\ UNCHANGED <<s_vmMtx, hb_vmThreadRequest, s_iStackCount>>
    /\ unchangedGC /\ unchangedStack

RequestTest(t) ==
    /\ pc[t] = "run"
    /\ hb_vmThreadRequest # {}
    /\ quit[t] => recover[t] # <<>>
    /\ RequestTestLoop(t)

RequestTestWoken(t) == Woken(t, "test_wait") /\ RequestTestLoop(t)

\* The opcode is finished; the loop starts again.
EndOpcode(t) ==
    /\ pc[t] = "op"
    /\ Goto(t, "run")
    /\ UNCHANGED <<s_vmMtx, sleepers, hb_vmThreadRequest, s_iRunningCount, s_iStackCount, quit>>
    /\ unchangedGC /\ unchangedStack

\* hb_vmRequestQuery(): reads the request without s_vmMtx.
RequestQuery(t) ==
    /\ pc[t] \in {"op", "unlocked"}
    /\ QUIT \in hb_vmThreadRequest
    /\ TakeQuit(t)
    /\ UNCHANGED <<s_vmMtx, sleepers, hb_vmThreadRequest, s_iRunningCount, s_iStackCount, pc>>
    /\ unchangedGC /\ unchangedStack

-----------------------------------------------------------------------------
(* Leaving and entering the VM.                                            *)

LeaveVM_Quiet(t, n) ==
    /\ s_vmMtx = NoThread
    /\ iUnlocked' = [iUnlocked EXCEPT ![t] = n]
    /\ s_iRunningCount' = s_iRunningCount - 1
    /\ TakeQuit(t)
    /\ Goto(t, "unlocked")
    /\ UNCHANGED <<s_vmMtx, sleepers, hb_vmThreadRequest, s_iStackCount>>
    /\ unchangedGC

\* The section of hb_vmUnlock(), for a thread whose depth becomes n > 0.
LeaveVM(t, n) ==
    /\ s_vmMtx = NoThread
    /\ iUnlocked' = [iUnlocked EXCEPT ![t] = n]
    /\ s_iRunningCount' = s_iRunningCount - 1
    /\ TakeQuit(t)
    /\ IF hb_vmThreadRequest # {} THEN Broadcast ELSE UNCHANGED sleepers
    /\ Goto(t, "unlocked")
    /\ UNCHANGED <<s_vmMtx, hb_vmThreadRequest, s_iStackCount>>
    /\ unchangedGC

VmUnlock(t) ==
    /\ pc[t] = "op"
    /\ LeaveVM(t, 1)
    /\ UNCHANGED recover

\* hb_vmUnlock() and hb_vmLock() of a thread that stays outside the VM.
VmUnlockNested(t) ==
    /\ pc[t] = "unlocked" /\ iUnlocked[t] < MaxUnlock
    /\ iUnlocked' = [iUnlocked EXCEPT ![t] = @ + 1]
    /\ UNCHANGED <<s_vmMtx, sleepers, hb_vmThreadRequest, s_iRunningCount, s_iStackCount,
                   pc, recover, quit>>
    /\ unchangedGC

VmLockNested(t) ==
    /\ pc[t] = "unlocked" /\ iUnlocked[t] > 1
    /\ iUnlocked' = [iUnlocked EXCEPT ![t] = @ - 1]
    /\ UNCHANGED <<s_vmMtx, sleepers, hb_vmThreadRequest, s_iRunningCount, s_iStackCount,
                   pc, recover, quit>>
    /\ unchangedGC

\* The section of hb_vmLock(): wait at l while STOP is set, then enter at m.
EnterVM(t, l, m) ==
    /\ s_vmMtx = NoThread
    /\ iUnlocked' = [iUnlocked EXCEPT ![t] = 0]
    /\ TakeQuit(t)
    /\ IF STOP \in hb_vmThreadRequest
         THEN SleepAt(t, l) /\ UNCHANGED s_iRunningCount
         ELSE Goto(t, m) /\ s_iRunningCount' = s_iRunningCount + 1 /\ UNCHANGED sleepers
    /\ UNCHANGED <<s_vmMtx, hb_vmThreadRequest, s_iStackCount>>
    /\ unchangedGC

VmLock(t) ==
    /\ pc[t] = "unlocked" /\ iUnlocked[t] = 1
    /\ EnterVM(t, "lock_wait", "op")
    /\ UNCHANGED recover

VmLockWoken(t) ==
    /\ Woken(t, "lock_wait")
    /\ EnterVM(t, "lock_wait", "op")
    /\ UNCHANGED recover

VmLockForce_NoMutex(t) ==
    /\ pc[t] = "unlocked" /\ iUnlocked[t] = 1
    /\ iUnlocked' = [iUnlocked EXCEPT ![t] = 0]
    /\ TakeQuit(t)
    /\ s_iRunningCount' = s_iRunningCount + 1
    /\ Goto(t, "op")
    /\ UNCHANGED <<s_vmMtx, sleepers, hb_vmThreadRequest, s_iStackCount, recover>>
    /\ unchangedGC

\* hb_vmLockForce(): enters although STOP may be set.
VmLockForce(t) ==
    /\ pc[t] = "unlocked" /\ iUnlocked[t] = 1
    /\ s_vmMtx = NoThread
    /\ iUnlocked' = [iUnlocked EXCEPT ![t] = 0]
    /\ TakeQuit(t)
    /\ s_iRunningCount' = s_iRunningCount + 1
    /\ Goto(t, "op")
    /\ UNCHANGED <<s_vmMtx, sleepers, hb_vmThreadRequest, s_iStackCount, recover>>
    /\ unchangedGC

RequestReenter_OffByOne(t) ==
    /\ Len(recover[t]) < MaxReenter
    /\ recover' = [recover EXCEPT ![t] = Append(@, iUnlocked[t] - 1)]
    /\ \/ /\ pc[t] = "unlocked"
          /\ EnterVM(t, "lock_wait", "op")
       \/ /\ pc[t] = "op"
          /\ UNCHANGED <<s_vmMtx, sleepers, hb_vmThreadRequest, s_iRunningCount,
                         s_iStackCount, pc, iUnlocked, quit>>
          /\ unchangedGC

\* hb_vmRequestReenter() and the last branch of hb_vmRequestReenterExt(), called
\* by C code for a callback: every level of hb_vmUnlock() is undone and the
\* number of levels is saved in a HB_IT_RECOVER item.
RequestReenter(t) ==
    /\ Len(recover[t]) < MaxReenter
    /\ recover' = [recover EXCEPT ![t] = Append(@, iUnlocked[t])]
    /\ \/ /\ pc[t] = "unlocked"
          /\ EnterVM(t, "lock_wait", "op")
       \/ /\ pc[t] = "op"
          /\ UNCHANGED <<s_vmMtx, sleepers, hb_vmThreadRequest, s_iRunningCount,
                         s_iStackCount, pc, iUnlocked, quit>>
          /\ unchangedGC

\* hb_vmRequestRestore() of a thread that keeps its stack.
RequestRestore(t) ==
    /\ pc[t] = "run" /\ recover[t] # <<>>
    /\ recover' = [recover EXCEPT ![t] = SubSeq(@, 1, Len(@) - 1)]
    /\ LET iCount == recover[t][Len(recover[t])] IN
       \/ /\ iCount > 0
          /\ LeaveVM(t, iCount)
       \/ /\ iCount = 0
          /\ Goto(t, "op")
          /\ UNCHANGED <<s_vmMtx, sleepers, hb_vmThreadRequest, s_iRunningCount,
                         s_iStackCount, iUnlocked, quit>>
          /\ unchangedGC

-----------------------------------------------------------------------------
(* Stopping the world.                                                     *)

\* hb_gcCollectAll( fForce ) has read s_bCollecting, without any lock, and is
\* about to call hb_vmSuspendThreads( fForce ).
GcCollectAll(t) ==
    /\ pc[t] = "op"
    /\ ~s_bCollecting
    /\ \E l \in {"gc_try", "gc_force"} : Goto(t, l)
    /\ UNCHANGED <<s_vmMtx, sleepers, hb_vmThreadRequest, s_iRunningCount, s_iStackCount, quit>>
    /\ unchangedGC /\ unchangedStack

\* hb_vmSuspendThreads(): success returns with s_vmMtx held.
SuspendThreads(t) ==
    /\ pc[t] \in {"gc_try", "gc_force"}
    /\ s_vmMtx = NoThread
    /\ \/ /\ hb_vmThreadRequest # {}
          /\ Goto(t, "op")
          /\ UNCHANGED <<s_vmMtx, sleepers, hb_vmThreadRequest, s_iRunningCount>>
       \/ /\ hb_vmThreadRequest = {}
          /\ s_iRunningCount - 1 <= 0
          /\ hb_vmThreadRequest' = {STOP}
          /\ s_vmMtx' = t
          /\ Goto(t, "collect")
          /\ UNCHANGED <<sleepers, s_iRunningCount>>
       \/ /\ hb_vmThreadRequest = {}
          /\ s_iRunningCount - 1 > 0
          /\ pc[t] = "gc_try"
          /\ Broadcast
          /\ Goto(t, "op")
          /\ UNCHANGED <<s_vmMtx, hb_vmThreadRequest, s_iRunningCount>>
       \/ /\ hb_vmThreadRequest = {}
          /\ s_iRunningCount - 1 > 0
          /\ pc[t] = "gc_force"
          /\ hb_vmThreadRequest' = {STOP}
          /\ s_iRunningCount' = s_iRunningCount - 1
          /\ SleepAt(t, "susp_wait")
          /\ UNCHANGED s_vmMtx
    /\ UNCHANGED <<s_iStackCount, quit>>
    /\ unchangedGC /\ unchangedStack

\* hb_vmSuspendThreads( HB_TRUE ) after its wait: QUIT is looked at first.
SuspendThreadsWoken(t) ==
    /\ Woken(t, "susp_wait")
    /\ \/ /\ QUIT \in hb_vmThreadRequest
          /\ s_iRunningCount' = s_iRunningCount + 1
          /\ hb_vmThreadRequest' = hb_vmThreadRequest \ {STOP}
          /\ Broadcast
          /\ Goto(t, "op")
          /\ UNCHANGED s_vmMtx
       \/ /\ QUIT \notin hb_vmThreadRequest
          /\ s_iRunningCount <= 0
          /\ s_iRunningCount' = s_iRunningCount + 1
          /\ s_vmMtx' = t
          /\ Goto(t, "collect")
          /\ UNCHANGED <<sleepers, hb_vmThreadRequest>>
       \/ /\ QUIT \notin hb_vmThreadRequest
          /\ s_iRunningCount > 0
          /\ SleepAt(t, "susp_wait")
          /\ UNCHANGED <<s_vmMtx, hb_vmThreadRequest, s_iRunningCount>>
    /\ UNCHANGED <<s_iStackCount, quit>>
    /\ unchangedGC /\ unchangedStack

ResumeThreads_Quiet ==
    /\ hb_vmThreadRequest' = hb_vmThreadRequest \ {STOP}
    /\ s_vmMtx' = NoThread
    /\ UNCHANGED sleepers

\* hb_vmResumeThreads()
ResumeThreads ==
    /\ hb_vmThreadRequest' = hb_vmThreadRequest \ {STOP}
    /\ Broadcast
    /\ s_vmMtx' = NoThread

\* hb_gcCollectAll() behind hb_vmSuspendThreads(): there is nothing to collect,
\* or another thread is still running the destructors of its collection.
GcSkip(t) ==
    /\ pc[t] = "collect"
    /\ ResumeThreads
    /\ Goto(t, "op")
    /\ UNCHANGED <<s_iRunningCount, s_iStackCount, quit>>
    /\ unchangedGC /\ unchangedStack

GcMark(t) ==
    /\ pc[t] = "collect"
    /\ ~s_bCollecting
    /\ s_bCollecting' = TRUE
    /\ Goto(t, "mark")
    /\ UNCHANGED <<s_vmMtx, sleepers, hb_vmThreadRequest, s_iRunningCount, s_iStackCount,
                   sweeping, quit>>
    /\ unchangedStack

GcSweep_Clears(t) ==
    /\ pc[t] = "mark"
    /\ ResumeThreads
    /\ sweeping' = sweeping \cup {t}
    /\ s_bCollecting' = FALSE
    /\ Goto(t, "op")
    /\ UNCHANGED <<s_iRunningCount, s_iStackCount, quit>>
    /\ unchangedStack

\* Marking is over, the dead blocks are on s_pDeletedBlock; the threads are
\* resumed and the destructors run among them.
GcSweep(t) ==
    /\ pc[t] = "mark"
    /\ ResumeThreads
    /\ sweeping' = sweeping \cup {t}
    /\ Goto(t, "op")
    /\ UNCHANGED <<s_iRunningCount, s_iStackCount, s_bCollecting, quit>>
    /\ unchangedStack

GcFinish(t) ==
    /\ pc[t] \in {"op", "run"}
    /\ t \in sweeping
    /\ sweeping' = sweeping \ {t}
    /\ s_bCollecting' = FALSE
    /\ Goto(t, "op")
    /\ UNCHANGED <<s_vmMtx, sleepers, hb_vmThreadRequest, s_iRunningCount, s_iStackCount, quit>>
    /\ unchangedStack

-----------------------------------------------------------------------------
(* Threads come and go.                                                    *)

\* HB_THREADSTART, up to hb_vmThreadRegister(): the new thread has its place on
\* the list of stacks before it exists.
ThreadRegister(p, t) ==
    /\ pc[p] = "op" /\ pc[t] = "none" /\ t \in Workers
    /\ s_vmMtx = NoThread
    /\ s_iStackCount' = s_iStackCount + 1
    /\ pc' = [pc EXCEPT ![p] = "create", ![t] = "registered"]
    /\ UNCHANGED <<s_vmMtx, sleepers, hb_vmThreadRequest, s_iRunningCount, quit>>
    /\ unchangedGC /\ unchangedStack

\* hb_threadCreate() succeeds.
ThreadCreate(p, t) ==
    /\ pc[p] = "create" /\ pc[t] = "registered"
    /\ pc' = [pc EXCEPT ![p] = "op", ![t] = "init"]
    /\ UNCHANGED <<s_vmMtx, sleepers, hb_vmThreadRequest, s_iRunningCount, s_iStackCount, quit>>
    /\ unchangedGC /\ unchangedStack

ThreadRelease_KeepsCount(p, t) ==
    /\ pc[p] = "create" /\ pc[t] = "registered"
    /\ s_vmMtx = NoThread
    /\ Broadcast
    /\ pc' = [pc EXCEPT ![p] = "op", ![t] = "none"]
    /\ UNCHANGED <<s_vmMtx, hb_vmThreadRequest, s_iRunningCount, s_iStackCount, quit>>
    /\ unchangedGC /\ unchangedStack

\* hb_threadCreate() fails: hb_vmThreadRelease() takes the place back.
ThreadRelease(p, t) ==
    /\ pc[p] = "create" /\ pc[t] = "registered"
    /\ s_vmMtx = NoThread
    /\ s_iStackCount' = s_iStackCount - 1
    /\ Broadcast
    /\ pc' = [pc EXCEPT ![p] = "op", ![t] = "none"]
    /\ UNCHANGED <<s_vmMtx, hb_vmThreadRequest, s_iRunningCount, quit>>
    /\ unchangedGC /\ unchangedStack

\* hb_vmStackInit() of a started thread, which hb_vmLock() follows: the new
\* stack starts unlocked once.
StackInit(t) ==
    /\ pc[t] = "init"
    /\ s_vmMtx = NoThread
    /\ iUnlocked' = [iUnlocked EXCEPT ![t] = 1]
    /\ Goto(t, "attach")
    /\ UNCHANGED <<s_vmMtx, sleepers, hb_vmThreadRequest, s_iRunningCount, s_iStackCount,
                   recover, quit>>
    /\ unchangedGC

\* The hb_vmLock() of hb_vmThreadInit(): the thread function starts.  If QUIT
\* is taken here the thread unwinds; its first opcode is never a call.
ThreadInit(t) ==
    /\ pc[t] = "attach" \/ Woken(t, "attach_wait")
    /\ EnterVM(t, "attach_wait", "run")
    /\ UNCHANGED recover

\* hb_vmThreadQuit() up to the first section of hb_vmStackRelease(): reached
\* from the end of the thread function, or from hb_vmRequestRestore() in a
\* foreign thread (HB_VMSTACK_REQUESTED).  hb_vmStackDel() hides the stack.
ThreadQuit(t) ==
    /\ pc[t] = "run" /\ t # Main /\ recover[t] = <<>> /\ t \notin sweeping
    /\ s_vmMtx = NoThread
    /\ quit' = [quit EXCEPT ![t] = FALSE]
    /\ Goto(t, "release")
    /\ UNCHANGED <<s_vmMtx, sleepers, hb_vmThreadRequest, s_iRunningCount, s_iStackCount>>
    /\ unchangedGC /\ unchangedStack

StackRelease_KeepsCount(t) ==
    /\ pc[t] = "release"
    /\ s_vmMtx = NoThread
    /\ s_iStackCount' = s_iStackCount - 1
    /\ Broadcast
    /\ Goto(t, "none")
    /\ UNCHANGED <<s_vmMtx, hb_vmThreadRequest, s_iRunningCount, quit>>
    /\ unchangedGC /\ unchangedStack

StackRelease_Quiet(t) ==
    /\ pc[t] = "release"
    /\ s_vmMtx = NoThread
    /\ s_iRunningCount' = s_iRunningCount - 1
    /\ s_iStackCount' = s_iStackCount - 1
    /\ Goto(t, "none")
    /\ UNCHANGED <<s_vmMtx, sleepers, hb_vmThreadRequest, quit>>
    /\ unchangedGC /\ unchangedStack

\* The second section of hb_vmStackRelease(): the stack is freed by now.
StackRelease(t) ==
    /\ pc[t] = "release"
    /\ s_vmMtx = NoThread
    /\ s_iRunningCount' = s_iRunningCount - 1
    /\ s_iStackCount' = s_iStackCount - 1
    /\ Broadcast
    /\ Goto(t, "none")
    /\ UNCHANGED <<s_vmMtx, hb_vmThreadRequest, quit>>
    /\ unchangedGC /\ unchangedStack

ThreadQuitRequest_Unguarded(p, t) ==
    /\ pc[p] = "op"
    /\ s_vmMtx = NoThread
    /\ quit' = [quit EXCEPT ![t] = TRUE]
    /\ UNCHANGED <<s_vmMtx, sleepers, hb_vmThreadRequest, s_iRunningCount, s_iStackCount, pc>>
    /\ unchangedGC /\ unchangedStack

\* HB_THREADQUITREQUEST: the request is stored on the stack of any thread, the
\* main thread and the caller included.
ThreadQuitRequest(p, t) ==
    /\ pc[p] = "op"
    /\ s_vmMtx = NoThread
    /\ pc[t] \in ActivePCs
    /\ quit' = [quit EXCEPT ![t] = TRUE]
    /\ UNCHANGED <<s_vmMtx, sleepers, hb_vmThreadRequest, s_iRunningCount, s_iStackCount, pc>>
    /\ unchangedGC /\ unchangedStack

-----------------------------------------------------------------------------
(* A foreign thread calls hb_vmRequestReenterExt() without a stack.        *)

ReenterExtLoop(t) ==
    /\ s_vmMtx = NoThread
    /\ IF STOP \in hb_vmThreadRequest
         THEN SleepAt(t, "x_wait") /\ UNCHANGED s_iRunningCount
         ELSE /\ Goto(t, "x_init")
              /\ s_iRunningCount' = s_iRunningCount + 1
              /\ UNCHANGED sleepers
    /\ UNCHANGED <<s_vmMtx, hb_vmThreadRequest, s_iStackCount, quit>>
    /\ unchangedGC /\ unchangedStack

RequestReenterExt(t) == t \in Foreign /\ pc[t] = "none" /\ ReenterExtLoop(t)

RequestReenterExtWoken(t) == Woken(t, "x_wait") /\ ReenterExtLoop(t)

\* hb_vmThreadInit( NULL ): hb_threadStateNew(), then hb_vmStackInit().
ExtStackInit(t) ==
    /\ pc[t] = "x_init"
    /\ s_vmMtx = NoThread
    /\ s_iStackCount' = s_iStackCount + 1
    /\ iUnlocked' = [iUnlocked EXCEPT ![t] = 1]
    /\ Goto(t, "x_attach")
    /\ UNCHANGED <<s_vmMtx, sleepers, hb_vmThreadRequest, s_iRunningCount, recover, quit>>
    /\ unchangedGC

\* ... and its hb_vmLock().
ExtLock(t) ==
    /\ pc[t] = "x_attach" \/ Woken(t, "x_lock_wait")
    /\ EnterVM(t, "x_lock_wait", "x_in")
    /\ UNCHANGED recover

\* The section behind hb_vmThreadInit() that takes the first count back.
ExtEnter(t) ==
    /\ pc[t] = "x_in"
    /\ s_vmMtx = NoThread
    /\ s_iRunningCount' = s_iRunningCount - 1
    /\ Broadcast
    /\ Goto(t, "op")
    /\ UNCHANGED <<s_vmMtx, hb_vmThreadRequest, s_iStackCount, quit>>
    /\ unchangedGC /\ unchangedStack

-----------------------------------------------------------------------------
(* The main thread ends, or waits for, the others.                         *)

TerminateLoop_DropsStop(l, running) ==
    /\ Goto(Main, IF s_iStackCount > 1 THEN l ELSE "op")
    /\ s_iRunningCount' = running + (IF s_iStackCount > 1 THEN 0 ELSE 1)
    /\ hb_vmThreadRequest' = IF s_iStackCount > 1 THEN {QUIT} ELSE {}

\* "while( s_iStackCount > 1 ) hb_threadCondWait( ... )" and what follows it,
\* with l the place of the wait and running the value of s_iRunningCount while
\* the main thread is away.
TerminateLoop(l, running) ==
    IF s_iStackCount > 1
      THEN /\ Goto(Main, l)
           /\ s_iRunningCount' = running
           /\ hb_vmThreadRequest' = hb_vmThreadRequest \cup {QUIT}
      ELSE /\ Goto(Main, "op")
           /\ s_iRunningCount' = running + 1
           /\ hb_vmThreadRequest' = {}

\* hb_vmTerminateThreads() as HB_THREADTERMINATEALL calls it, without the mutexes
\* it unlocks (see HvmShutdown).
TerminateThreads ==
    /\ pc[Main] = "op"
    /\ s_vmMtx = NoThread
    /\ TerminateLoop("term_wait", s_iRunningCount - 1)
    /\ sleepers' = IF s_iStackCount > 1 THEN {Main} ELSE {}
    /\ UNCHANGED <<s_vmMtx, s_iStackCount, quit>>
    /\ unchangedGC /\ unchangedStack

TerminateThreadsWoken ==
    /\ Woken(Main, "term_wait")
    /\ TerminateLoop("term_wait", s_iRunningCount)
    /\ sleepers' = IF s_iStackCount > 1 THEN sleepers \cup {Main} ELSE sleepers
    /\ UNCHANGED <<s_vmMtx, s_iStackCount, quit>>
    /\ unchangedGC /\ unchangedStack

\* hb_vmDoExitFunctions() behind the wait: "hb_stackSetActionRequest( 0 )", so
\* that the EXIT procedures run although the main thread was asked to quit.
DoExitFunctions ==
    quit' = [quit EXCEPT ![Main] = @ /\ s_iStackCount > 1]

\* The main procedure has ended, by itself or because the main thread was asked
\* to quit: main() calls hb_vmQuit(), which ends the other threads.  The EXIT
\* procedures are arbitrary code of the main thread; what hb_vmQuit() does
\* behind them is not modelled.
VmQuit ==
    /\ pc[Main] = "run" /\ recover[Main] = <<>> /\ Main \notin sweeping
    /\ s_vmMtx = NoThread
    /\ TerminateLoop("exit_wait", s_iRunningCount - 1)
    /\ sleepers' = IF s_iStackCount > 1 THEN {Main} ELSE {}
    /\ DoExitFunctions
    /\ UNCHANGED <<s_vmMtx, s_iStackCount>>
    /\ unchangedGC /\ unchangedStack

VmQuitWoken ==
    /\ Woken(Main, "exit_wait")
    /\ TerminateLoop("exit_wait", s_iRunningCount)
    /\ sleepers' = IF s_iStackCount > 1 THEN sleepers \cup {Main} ELSE sleepers
    /\ DoExitFunctions
    /\ UNCHANGED <<s_vmMtx, s_iStackCount>>
    /\ unchangedGC /\ unchangedStack

WaitLoop(running) ==
    IF s_iStackCount > 1
      THEN /\ Goto(Main, "wait_wait")
           /\ s_iRunningCount' = running
      ELSE /\ Goto(Main, "op")
           /\ s_iRunningCount' = running + 1

\* hb_vmWaitForThreads()
WaitForThreads ==
    /\ pc[Main] = "op"
    /\ s_vmMtx = NoThread
    /\ WaitLoop(s_iRunningCount - 1)
    /\ sleepers' = (IF hb_vmThreadRequest # {} THEN {} ELSE sleepers)
                   \cup (IF s_iStackCount > 1 THEN {Main} ELSE {})
    /\ UNCHANGED <<s_vmMtx, hb_vmThreadRequest, s_iStackCount, quit>>
    /\ unchangedGC /\ unchangedStack

WaitForThreadsWoken ==
    /\ Woken(Main, "wait_wait")
    /\ WaitLoop(s_iRunningCount)
    /\ sleepers' = IF s_iStackCount > 1 THEN sleepers \cup {Main} ELSE sleepers
    /\ UNCHANGED <<s_vmMtx, hb_vmThreadRequest, s_iStackCount, quit>>
    /\ unchangedGC /\ unchangedStack

\* pthread_cond_wait() may return without a signal.
SpuriousWakeup(t) ==
    /\ t \in sleepers
    /\ sleepers' = sleepers \ {t}
    /\ UNCHANGED <<s_vmMtx, hb_vmThreadRequest, s_iRunningCount, s_iStackCount, pc, quit>>
    /\ unchangedGC /\ unchangedStack

-----------------------------------------------------------------------------
ThreadNext(t) ==
    \/ FetchOpcode(t) \/ RequestTest(t) \/ RequestTestWoken(t) \/ EndOpcode(t)
    \/ RequestQuery(t)
    \/ VmUnlock(t) \/ VmUnlockNested(t) \/ VmLockNested(t)
    \/ VmLock(t) \/ VmLockWoken(t) \/ VmLockForce(t)
    \/ RequestReenter(t) \/ RequestRestore(t)
    \/ GcCollectAll(t) \/ SuspendThreads(t) \/ SuspendThreadsWoken(t)
    \/ GcSkip(t) \/ GcMark(t) \/ GcSweep(t) \/ GcFinish(t)
    \/ StackInit(t) \/ ThreadInit(t) \/ ThreadQuit(t) \/ StackRelease(t)
    \/ RequestReenterExt(t) \/ RequestReenterExtWoken(t)
    \/ ExtStackInit(t) \/ ExtLock(t) \/ ExtEnter(t)
    \/ SpuriousWakeup(t)

PairNext(p, t) ==
    \/ ThreadRegister(p, t) \/ ThreadCreate(p, t) \/ ThreadRelease(p, t)
    \/ ThreadQuitRequest(p, t)

MainNext ==
    \/ TerminateThreads \/ TerminateThreadsWoken
    \/ VmQuit \/ VmQuitWoken
    \/ WaitForThreads \/ WaitForThreadsWoken

Next ==
    \/ \E t \in Threads : ThreadNext(t)
    \/ \E p \in Threads, t \in Threads : PairNext(p, t)
    \/ MainNext

Spec == Init /\ [][Next]_vars

(***************************************************************************)
(* Fairness.  A thread that can go on does: the operating system schedules *)
(* it, and it gets s_vmMtx when nobody keeps it.  A C function called by an*)
(* opcode makes finitely many trips out of the VM and returns (EndOpcode), *)
(* a system call made outside the VM ends (VmLock), and a thread with a    *)
(* pending quit request unwinds its code and the callbacks it is in        *)
(* (ThreadQuit, VmQuit, RequestRestore): the opcode loop tests the request *)
(* after every opcode.  Nothing is assumed of a program that is not asked  *)
(* to stop, and SpuriousWakeup is never needed.                            *)
(***************************************************************************)
ThreadFairness(t) ==
    /\ WF_vars(FetchOpcode(t) \/ RequestTest(t) \/ RequestTestWoken(t))
    /\ SF_vars(EndOpcode(t))
    /\ WF_vars(VmLockNested(t) \/ VmLock(t) \/ VmLockWoken(t))
    /\ SF_vars(quit[t] /\ RequestRestore(t))
    /\ WF_vars(SuspendThreads(t) \/ SuspendThreadsWoken(t))
    /\ WF_vars(GcSkip(t) \/ GcSweep(t))
    /\ WF_vars(GcFinish(t))
    /\ WF_vars(StackInit(t) \/ ThreadInit(t) \/ StackRelease(t) \/ (quit[t] /\ ThreadQuit(t)))
    /\ WF_vars(RequestReenterExtWoken(t) \/ ExtStackInit(t) \/ ExtLock(t) \/ ExtEnter(t))

Fairness ==
    /\ \A t \in Threads : ThreadFairness(t)
    /\ \A p \in Threads : WF_vars(\E t \in Threads : ThreadCreate(p, t))
    /\ WF_vars(TerminateThreadsWoken)
    /\ WF_vars((quit[Main] /\ VmQuit) \/ VmQuitWoken)

FairSpec == Spec /\ Fairness

-----------------------------------------------------------------------------
(* Properties.                                                             *)

\* While a thread holds the machine for itself, between the success of
\* hb_vmSuspendThreads() and hb_vmResumeThreads(), no other thread is inside
\* the VM or building its thread state: the collector may walk every stack.
StopTheWorld ==
    \A t \in Threads : pc[t] \in {"collect", "mark"} =>
        /\ s_vmMtx = t
        /\ \A u \in Threads \ {t} : pc[u] \notin InVMPCs \cup {"x_init", "x_in"}

Count(Q) == Cardinality({t \in Threads : pc[t] \in Q})

\* s_iRunningCount agrees with the threads: each one inside the VM is counted,
\* once, a foreign thread also while it enters, and twice just before it is in.
RunningCountExact == s_iRunningCount = Count(InVMPCs \cup ExtPCs) + Count({"x_in"})

\* s_iStackCount counts the threads that have, or are promised, an HVM stack:
\* the wait of hb_vmTerminateThreads() ends neither early nor late.
StackCountExact == s_iStackCount = Count(StackPCs)

\* The strengthening that makes StopTheWorld inductive: s_vmMtx is kept by the
\* thread that has stopped the others, and that thread is the only one counted.
ExclusiveMutex ==
    \A t \in Threads : pc[t] \in {"collect", "mark"} <=> s_vmMtx = t

ExclusiveCount == s_vmMtx # NoThread => s_iRunningCount <= 1

StopInv ==
    TypeOK /\ RunningCountExact /\ ExclusiveMutex /\ ExclusiveCount

\* STOP is set exactly while one thread suspends the others or collects:
\* nobody, not even the main thread ending the others, withdraws it for it.
Suspenders == {t \in Threads : pc[t] \in {"susp_wait", "collect", "mark"}}

StopHasOneOwner ==
    /\ \A t, u \in Suspenders : t = u
    /\ STOP \in hb_vmThreadRequest <=> Suspenders # {}

\* No sleep on s_vmCond outlives its reason: whoever ends the reason wakes the
\* sleepers.  A stopped thread sleeps only while STOP is set, a suspender only
\* while others run and QUIT is not set, the main thread only while stacks are
\* left.
NoLostWakeup ==
    \A t \in sleepers :
        /\ pc[t] \in StopWaitPCs => STOP \in hb_vmThreadRequest
        /\ pc[t] = "susp_wait" => s_iRunningCount > 0 /\ QUIT \notin hb_vmThreadRequest
        /\ pc[t] \in {"term_wait", "exit_wait", "wait_wait"} => s_iStackCount > 1

\* Two collections never overlap although s_bCollecting is tested without a
\* lock and destructors run with the other threads resumed: s_pDeletedBlock
\* belongs to one thread.
OneCollector ==
    LET collectors == {t \in Threads : pc[t] = "mark" \/ t \in sweeping} IN
    /\ \A t, u \in collectors : t = u
    /\ s_bCollecting <=> collectors # {}

\* The main thread waits in hb_vmTerminateThreads(), called by the program or on
\* the way out.
TermWaitPCs == {"term_wait", "exit_wait"}

\* A quit request is on a stack that exists: hb_vmThreadQuitRequest() never
\* follows pStackId into a stack that is not there yet or is being freed, and
\* the request does not outlive its thread.  And hb_vmTerminateThreads() asks
\* "all threads except current one": its request is withdrawn before the main
\* thread could take it for itself, so that only an HB_THREADQUITREQUEST ends
\* the main procedure.
QuitOnlyOnLiveStack ==
    /\ \A t \in Threads : quit[t] => pc[t] \in ActivePCs
    /\ QUIT \in hb_vmThreadRequest => pc[Main] \in TermWaitPCs

\* The strengthening that makes the invariants above inductive together: the
\* main thread always has a stack, and QUIT is set exactly while it waits in
\* hb_vmTerminateThreads().
MainPCs == {"run", "op", "create", "gc_try", "gc_force", "collect", "mark", "unlocked",
            "test_wait", "lock_wait", "susp_wait", "wait_wait"} \cup TermWaitPCs

MainHasStack == pc[Main] \in MainPCs

QuitIsMains == QUIT \in hb_vmThreadRequest <=> pc[Main] \in TermWaitPCs

RequestInv ==
    /\ StopInv /\ StackCountExact /\ MainHasStack /\ QuitIsMains
    /\ StopHasOneOwner /\ OneCollector /\ QuitOnlyOnLiveStack /\ NoLostWakeup

\* A forced hb_vmSuspendThreads() comes to an end: it stops the others, or it
\* gives way to QUIT.
ForcedSuspendEnds ==
    \A t \in Threads : pc[t] = "susp_wait" ~> pc[t] \in {"collect", "op"}

\* hb_vmTerminateThreads() returns once every thread it asked to quit is gone.
TerminateReturns == pc[Main] \in TermWaitPCs ~> pc[Main] = "op"
=============================================================================
