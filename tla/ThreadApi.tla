----------------------------- MODULE ThreadApi -----------------------------
(***************************************************************************)
(* The functions a program uses to deal with its threads, of               *)
(* src/src/vm/thread.c: hb_threadWait(), hb_threadJoin(),                  *)
(* hb_threadDetach(), hb_threadQuitRequest(), hb_threadTerminateAll(),     *)
(* hb_threadOnce() and hb_threadOnceInit().                                *)
(*                                                                         *)
(* HvmLock shows how a thread stops the others.  Here that is reduced to   *)
(* the thread that has set STOP: hb_vmLock() is a step that waits until    *)
(* nobody has, and a thread at the top of an opcode ("run", or "o_eval" in *)
(* the action of hb_threadOnce()) stops there by itself.                   *)
(* HB_CRITICAL_LOCK() waits inside the VM.  A native section that calls    *)
(* nothing of the VM is one step.                                          *)
(*                                                                         *)
(* A definition X_Y is a broken variant of X: it stands for a mistake the  *)
(* properties must notice and is no part of the specification.             *)
(***************************************************************************)
EXTENDS Integers, FiniteSets, Sequences

CONSTANTS
    Main, Workers,  \* the main thread and the ones of hb_threadStart()
    Foreign,        \* threads of other libraries inside the HVM
    Controls,       \* the variables <onceControl>
    NoThread,
    Programs        \* what is explored: see IsProgram

Threads == {Main} \cup Workers \cup Foreign

\* The calls of hb_threadWait() are sequences of threads with fAll and whether
\* there is a time limit.
IsCall(a) == DOMAIN a = {"pThreads", "fAll", "timed"} /\ Len(a.pThreads) > 0

\* A program: how many functions its threads call, which ones, the arguments of
\* hb_threadWait(), and what lies beside the type of each <onceControl>.
IsProgram(p) ==
    /\ DOMAIN p.budget \subseteq Threads /\ Main \in DOMAIN p.budget
    /\ \A t \in DOMAIN p.budget : p.budget[t] \in Nat
    /\ \A a \in p.calls : IsCall(a)
    /\ p.stale \in [Controls -> BOOLEAN]

ASSUME ApiAssumption ==
    /\ IsFiniteSet(Threads) /\ NoThread \notin Threads
    /\ Main \notin Workers \cup Foreign /\ Workers \cap Foreign = {}
    /\ \A p \in Programs : IsProgram(p)

VARIABLES
    program,
    stop,           \* the thread that has set STOP, or NoThread
    QUIT,           \* HB_THREQUEST_QUIT is set
    quit,           \* threads with HB_QUIT_REQUESTED on their stack
    pc,
    budget,         \* functions a thread may still call
    arg,            \* what a thread called its function with
    fFinished,      \* the field of every thread's HB_THREADSTATE
    s_thread_mtx,   \* its owner
    s_waiting_for_threads,
    cond,           \* the threads asleep on s_thread_cond
    fExit,          \* threads whose wait ran out of time
    th_h,           \* the threads whose field th_h is not 0
    handles,        \* the threads that are neither joined nor detached, for the system
    pResult,        \* the threads whose result is stored
    misused,        \* threads joined or detached through a handle that was gone
    shared,         \* threads that two calls joined or detached at the same time
    s_pOnceMutex,   \* the mutex of hb_threadOnce() exists
    owner, level,   \* its owner and how often it is locked
    frames,         \* the controls of the hb_threadOnce() calls a thread is in
    control,        \* the item of every <onceControl>
    action,         \* "no", "running", "complete" or "cut", for every <onceControl>
    first,          \* the calls that were the first one for <onceControl>
    early,          \* why calls returned although the action was not complete
    s_once_mtx,     \* its owner
    variable        \* the item hb_threadOnceInit() is called for

waitVars  == <<s_waiting_for_threads, cond, fExit>>
joinVars  == <<th_h, handles, pResult, misused, shared>>
onceVars  == <<s_pOnceMutex, owner, level, frames, control, action, first, early>>
initVars  == <<s_once_mtx, variable>>
hvmVars   == <<program, stop, QUIT, quit, fFinished>>
vars == <<hvmVars, pc, budget, arg, s_thread_mtx, waitVars, joinVars, onceVars, initVars>>

\* Where a thread that works for itself inside the VM can be: it has to go on
\* before a forced suspension succeeds.
InVMPCs == {"w_mtx", "d_call", "d_clear", "o_create", "o_store", "i_mtx", "i_store"}
StopPCs == {"run", "o_eval"}
OutPCs  == {"w_sleep", "w_lock", "j_call", "j_join", "j_clear", "j_lock", "o_lock",
            "o_got", "leave", "gc", "signal", "none", "term", "done"}

\* An HB_ITEM: its type, and the value beside it, which stays what it was when
\* the item was last NIL.
Item(V) == [type : {"NIL", "SET"}, value : V]

\* The type invariant.
TypeOK ==
    /\ program \in Programs
    /\ {stop, s_thread_mtx, owner, s_once_mtx} \subseteq Threads \cup {NoThread}
    /\ {QUIT, s_pOnceMutex} \subseteq BOOLEAN
    /\ {quit, fFinished, cond, fExit} \subseteq SUBSET Threads
    /\ {th_h, handles, pResult, misused, shared} \subseteq SUBSET Threads
    /\ pc \in [Threads -> InVMPCs \cup StopPCs \cup OutPCs]
    /\ \A t \in DOMAIN budget : budget[t] \in 0 .. program.budget[t]
    /\ {s_waiting_for_threads, level} \subseteq Nat
    /\ \A t \in Threads : frames[t] \in Seq(Controls)
    /\ control \in [Controls -> Item(BOOLEAN)]
    /\ action \in [Controls -> {"no", "running", "complete", "cut"}]
    /\ first \in [Controls -> Nat]
    /\ early \subseteq {"torn", "cut", "other"}
    /\ variable \in Item(Threads \cup {NoThread})

\* The threads have been started.  The variables hold NIL.
Init ==
    /\ program \in Programs
    /\ stop = NoThread /\ QUIT = FALSE /\ quit = {}
    /\ pc = [t \in Threads |-> IF t \in DOMAIN program.budget THEN "run" ELSE "none"]
    /\ budget = program.budget
    /\ arg = [t \in Threads |-> NoThread]
    /\ fFinished = Threads \ DOMAIN program.budget
    /\ s_thread_mtx = NoThread /\ s_waiting_for_threads = 0 /\ cond = {} /\ fExit = {}
    /\ th_h = Workers \cap DOMAIN program.budget /\ handles = th_h
    /\ pResult = {} /\ misused = {} /\ shared = {}
    /\ s_pOnceMutex = FALSE /\ owner = NoThread /\ level = 0
    /\ frames = [t \in Threads |-> <<>>]
    /\ control = [c \in Controls |-> [type |-> "NIL", value |-> program.stale[c]]]
    /\ action = [c \in Controls |-> "no"]
    /\ first = [c \in Controls |-> 0]
    /\ early = {}
    /\ s_once_mtx = NoThread
    /\ variable = [type |-> "NIL", value |-> NoThread]

-----------------------------------------------------------------------------
(* Pieces shared by the actions.                                           *)

Goto(t, l) == pc' = [pc EXCEPT ![t] = l]

\* The thread executes an opcode that calls one of the functions.
CallAt(t, f, l) ==
    /\ pc[t] = l /\ t \notin quit /\ ~QUIT /\ stop = NoThread
    /\ f \in program.ops /\ budget[t] > 0
    /\ budget' = [budget EXCEPT ![t] = @ - 1]

Call(t, f) == CallAt(t, f, "run")

\* hb_vmLock(): the thread enters the VM unless STOP is set, and takes a quit
\* request.
VmLock(t) ==
    /\ stop = NoThread
    /\ quit' = IF QUIT THEN quit \cup {t} ELSE quit

unchangedHvm == UNCHANGED <<program, stop, QUIT, fFinished>>

\* The threads hb_vmSuspendThreads() has to wait for.
Inside_NoUnlock == {t \in Threads : pc[t] \in InVMPCs \cup {"w_sleep"}}

Inside == {t \in Threads : pc[t] \in InVMPCs}

-----------------------------------------------------------------------------
(* Forced suspension, quit requests and the end of a thread.               *)

\* hb_vmSuspendThreads( HB_TRUE ) of a collection
Suspend(t) ==
    /\ Call(t, "gc")
    /\ stop' = t
    /\ Goto(t, "gc")
    /\ UNCHANGED <<program, QUIT, quit, fFinished, arg, s_thread_mtx, waitVars, joinVars,
                   onceVars, initVars>>

\* The thread is alone, or a quit request has come: the collection is over.
Suspended(t) ==
    /\ pc[t] = "gc"
    /\ Inside = {} \/ QUIT
    /\ stop' = NoThread
    /\ Goto(t, "run")
    /\ UNCHANGED <<program, QUIT, quit, fFinished, budget, arg, s_thread_mtx, waitVars,
                   joinVars, onceVars, initVars>>

\* hb_threadQuitRequest(), for any thread that has not ended: the main thread and
\* the caller, too.
QuitRequest(t) ==
    /\ Call(t, "quit")
    /\ \E u \in Threads \ fFinished : quit' = quit \cup {u}
    /\ UNCHANGED <<program, stop, QUIT, fFinished, pc, arg, s_thread_mtx, waitVars,
                   joinVars, onceVars, initVars>>

\* hb_vmTerminateThreads(), called by the program or because the main thread was
\* asked to quit and ends; nobody is woken on s_thread_cond.
TerminateThreads ==
    /\ pc[Main] = "run"
    /\ "term" \in program.ops \/ Main \in quit
    /\ QUIT' = TRUE
    /\ Goto(Main, "term")
    /\ UNCHANGED <<program, stop, quit, fFinished, budget, arg, s_thread_mtx, waitVars,
                   joinVars, onceVars, initVars>>

Terminated ==
    /\ pc[Main] = "term"
    /\ Threads \ fFinished = {Main}
    /\ QUIT' = FALSE
    /\ Goto(Main, "done")
    /\ UNCHANGED <<program, stop, quit, fFinished, budget, arg, s_thread_mtx, waitVars,
                   joinVars, onceVars, initVars>>

\* hb_vmThreadQuit(): the thread returns from its function or is asked to quit.
\* It stores its result and hb_vmStackDel() its end.  A thread of another
\* library does not go on in hb_threadStartFunc().
ThreadQuit(t) ==
    /\ t # Main /\ pc[t] = "run"
    /\ pResult' = pResult \cup {t}
    /\ fFinished' = fFinished \cup {t}
    /\ Goto(t, IF t \in Foreign THEN "none" ELSE "signal")
    /\ UNCHANGED <<program, stop, QUIT, quit, budget, arg, s_thread_mtx, waitVars, th_h,
                   handles, misused, shared, onceVars, initVars>>

\* hb_threadStartFunc() after hb_vmThreadQuit()
SignalWaiting_First(t) ==
    /\ pc[t] = "signal" /\ s_thread_mtx = NoThread
    /\ IF s_waiting_for_threads > 0 /\ cond # {}
         THEN \E u \in cond : cond' = cond \ {u}
         ELSE UNCHANGED cond
    /\ s_waiting_for_threads' = 0
    /\ Goto(t, "none")
    /\ UNCHANGED <<hvmVars, budget, arg, s_thread_mtx, fExit, joinVars, onceVars, initVars>>

SignalWaiting(t) ==
    /\ pc[t] = "signal" /\ s_thread_mtx = NoThread
    /\ cond' = IF s_waiting_for_threads > 0 THEN {} ELSE cond
    /\ s_waiting_for_threads' = 0
    /\ Goto(t, "none")
    /\ UNCHANGED <<hvmVars, budget, arg, s_thread_mtx, fExit, joinVars, onceVars, initVars>>

-----------------------------------------------------------------------------
(* hb_threadWait()                                                         *)

\* The threads of the call that have ended, and whether they are enough.
Finished(a) == {i \in DOMAIN a.pThreads : a.pThreads[i] \in fFinished}
Enough_All(a) == Finished(a) = DOMAIN a.pThreads

Enough(a) == Cardinality(Finished(a)) >= IF a.fAll THEN Len(a.pThreads) ELSE 1

\* The body of the loop with s_thread_mtx locked: the wait is over, or the
\* thread is counted, leaves the VM and sleeps, which unlocks s_thread_mtx.
WaitLoop(t, over) ==
    \/ /\ over \/ Enough(arg[t])
       /\ Goto(t, "run")
       /\ UNCHANGED <<s_waiting_for_threads, cond>>
    \/ /\ ~over /\ ~Enough(arg[t])
       /\ s_waiting_for_threads' = s_waiting_for_threads + 1
       /\ cond' = cond \cup {t}
       /\ Goto(t, "w_sleep")

Wait(t) ==
    /\ Call(t, "wait")
    /\ \E a \in program.calls : arg' = [arg EXCEPT ![t] = a]
    /\ fExit' = fExit \ {t}
    /\ Goto(t, "w_mtx")
    /\ UNCHANGED <<hvmVars, s_thread_mtx, s_waiting_for_threads, cond, joinVars, onceVars, initVars>>

\* HB_CRITICAL_LOCK( s_thread_mtx ), inside the VM, and the first turn.
WaitEnter(t) ==
    /\ pc[t] = "w_mtx" /\ s_thread_mtx = NoThread
    /\ WaitLoop(t, FALSE)
    /\ UNCHANGED <<hvmVars, budget, arg, s_thread_mtx, fExit, joinVars, onceVars, initVars>>

\* The time is over.  s_waiting_for_threads still counts the thread.
WaitTimeout(t) ==
    /\ pc[t] = "w_sleep" /\ t \in cond /\ arg[t].timed
    /\ cond' = cond \ {t}
    /\ fExit' = fExit \cup {t}
    /\ UNCHANGED <<hvmVars, pc, budget, arg, s_thread_mtx, s_waiting_for_threads, joinVars,
                   onceVars, initVars>>

\* pthread_cond_wait() may also return without a reason; the count, which only
\* the end of a thread resets, bounds how often.
MaxCounted == 2

Spurious(t) ==
    /\ pc[t] = "w_sleep" /\ t \in cond /\ s_waiting_for_threads < MaxCounted
    /\ cond' = cond \ {t}
    /\ UNCHANGED <<hvmVars, pc, budget, arg, s_thread_mtx, s_waiting_for_threads, fExit,
                   joinVars, onceVars, initVars>>

\* pthread_cond_wait() returns with s_thread_mtx locked; hb_vmLock() is next.
WaitWoken(t) ==
    /\ pc[t] = "w_sleep" /\ t \notin cond /\ s_thread_mtx = NoThread
    /\ s_thread_mtx' = t
    /\ Goto(t, "w_lock")
    /\ UNCHANGED <<hvmVars, budget, arg, waitVars, joinVars, onceVars, initVars>>

\* hb_vmLock(), hb_vmRequestQuery() and the next turn.
WaitAgain(t) ==
    /\ pc[t] = "w_lock"
    /\ VmLock(t)
    /\ s_thread_mtx' = NoThread
    /\ WaitLoop(t, t \in fExit \/ t \in quit')
    /\ unchangedHvm
    /\ UNCHANGED <<budget, arg, fExit, joinVars, onceVars, initVars>>

-----------------------------------------------------------------------------
(* hb_threadJoin() and hb_threadDetach()                                   *)

\* A thread is joining or detaching u: it has found th_h and has not yet cleared it.
DealPCs == {"j_call", "j_join", "j_clear", "d_call", "d_clear"}
Deals(t, u) == pc[t] \in DealPCs /\ arg[t] = u

\* The test of pThread->th_h: a handle that is there leads to l, without one the
\* function returns .F. at once.
TestHandle(t, u, l) ==
    /\ arg' = [arg EXCEPT ![t] = u]
    /\ Goto(t, IF u \in th_h THEN l ELSE "run")
    /\ shared' = IF u \in th_h /\ \E v \in Threads : Deals(v, u) THEN shared \cup {u} ELSE shared
    /\ UNCHANGED <<th_h, handles, pResult, misused>>

\* The test and hb_vmUnlock(); th_h is read again for the call that follows.
Join(t) ==
    /\ Call(t, "join")
    /\ \E u \in Workers : TestHandle(t, u, "j_call")
    /\ UNCHANGED <<hvmVars, s_thread_mtx, waitVars, onceVars, initVars>>

\* pthread_join() refuses to wait for the caller, for a thread that another one
\* waits for and for a thread that waits for the caller.
Joining(t, u) == pc[t] = "j_join" /\ arg[t] = u
Refused(t, u) == u = t \/ Joining(u, t) \/ \E v \in Threads : Joining(v, u)

\* hb_threadJoin().  The handle may have been joined or detached, and th_h been
\* cleared, since the test: pthread_join() is then undefined.  It is recorded, and
\* the call fails or claims success; that it may also end the process, or wait for
\* a thread that has got the same handle, adds no state of these threads.
JoinCall(t) ==
    LET u == arg[t] IN
    /\ pc[t] = "j_call"
    /\ IF u \in handles
         THEN Goto(t, IF Refused(t, u) THEN "leave" ELSE "j_join") /\ UNCHANGED misused
         ELSE (Goto(t, "leave") \/ Goto(t, "j_clear")) /\ misused' = misused \cup {u}
    /\ UNCHANGED <<hvmVars, budget, arg, s_thread_mtx, waitVars, th_h, handles, pResult, shared,
                   onceVars, initVars>>

\* The thread has ended.
Joined(t) ==
    /\ pc[t] = "j_join" /\ pc[arg[t]] = "none"
    /\ handles' = handles \ {arg[t]}
    /\ Goto(t, "j_clear")
    /\ UNCHANGED <<hvmVars, budget, arg, s_thread_mtx, waitVars, th_h, pResult, misused, shared,
                   onceVars, initVars>>

JoinClear_Keeps(t) ==
    /\ pc[t] = "j_clear"
    /\ Goto(t, "j_lock")
    /\ UNCHANGED <<hvmVars, budget, arg, s_thread_mtx, waitVars, joinVars, onceVars, initVars>>

\* "pThread->th_h = 0", outside the VM
JoinClear(t) ==
    /\ pc[t] = "j_clear"
    /\ th_h' = th_h \ {arg[t]}
    /\ Goto(t, "j_lock")
    /\ UNCHANGED <<hvmVars, budget, arg, s_thread_mtx, waitVars, handles, pResult, misused, shared,
                   onceVars, initVars>>

\* hb_vmLock(), and the result is moved to the caller's variable.
JoinResult(t) ==
    /\ pc[t] = "j_lock"
    /\ VmLock(t)
    /\ pResult' = pResult \ {arg[t]}
    /\ Goto(t, "run")
    /\ unchangedHvm
    /\ UNCHANGED <<budget, arg, s_thread_mtx, waitVars, th_h, handles, misused, shared, onceVars,
                   initVars>>

\* hb_threadDetach() stays inside the VM, among the other threads there.
Detach(t) ==
    /\ Call(t, "join")
    /\ \E u \in Workers : TestHandle(t, u, "d_call")
    /\ UNCHANGED <<hvmVars, s_thread_mtx, waitVars, onceVars, initVars>>

\* pthread_detach() of a thread that is being joined does nothing, and succeeds.
\* Of a handle that is gone it is undefined, too.
DetachCall(t) ==
    LET u == arg[t] IN
    /\ pc[t] = "d_call"
    /\ IF u \in handles
         THEN /\ handles' = IF \E v \in Threads : Joining(v, u) THEN handles ELSE handles \ {u}
              /\ Goto(t, "d_clear")
              /\ UNCHANGED misused
         ELSE /\ Goto(t, "run") \/ Goto(t, "d_clear")
              /\ misused' = misused \cup {u}
              /\ UNCHANGED handles
    /\ UNCHANGED <<hvmVars, budget, arg, s_thread_mtx, waitVars, th_h, pResult, shared,
                   onceVars, initVars>>

DetachClear(t) ==
    /\ pc[t] = "d_clear"
    /\ th_h' = th_h \ {arg[t]}
    /\ Goto(t, "run")
    /\ UNCHANGED <<hvmVars, budget, arg, s_thread_mtx, waitVars, handles, pResult, misused, shared,
                   onceVars, initVars>>

-----------------------------------------------------------------------------
(* hb_threadOnce()                                                         *)

\* Where a call of hb_threadOnce() returns to when the frames are fs.
Caller(fs) == IF fs = <<>> THEN "run" ELSE "o_eval"

Current(t) == Head(frames[t])

\* "HB_IS_NIL( pItem ) || ! hb_itemGetL( pItem )", without a lock
MayBeFirst(c) == control[c].type = "NIL" \/ ~control[c].value

\* A thread has written the type of the item and not yet the value.
Torn(c) == \E u \in Threads : pc[u] = "o_store" /\ Current(u) = c

\* A call for c returns .F. to thread t, which is not inside its action.
ReturnsFalse(t, c) ==
    early' = IF action[c] = "complete" \/ \E i \in DOMAIN frames[t] : frames[t][i] = c
               THEN early
               ELSE early \cup {CASE action[c] = "cut" -> "cut"
                                  [] action[c] # "cut" /\ Torn(c) -> "torn"
                                  [] OTHER -> "other"}

\* The first store of hb_storl( HB_FALSE, 1 ): hb_itemPutL() writes the type.
\* Without <bAction> the call stores .T. and has finished.
FindsNil(c, hasAction) ==
    /\ control[c].type = "NIL"
    /\ first' = [first EXCEPT ![c] = @ + 1]
    /\ control' = [control EXCEPT ![c] = IF hasAction THEN [@ EXCEPT !.type = "SET"]
                                           ELSE [type |-> "SET", value |-> TRUE]]
    /\ action' = [action EXCEPT ![c] = IF hasAction THEN "running" ELSE "complete"]

\* The call and its test; a thread that owns the mutex locks it once more
\* without leaving the VM.
OnceTestFails(t, c) ==
    /\ ~MayBeFirst(c) \/ (owner = t /\ control[c].type # "NIL")
    /\ ReturnsFalse(t, c)
    /\ UNCHANGED <<pc, s_pOnceMutex, owner, level, frames, control, action, first>>

OnceMustLock(t, c) ==
    /\ MayBeFirst(c) /\ owner # t
    /\ frames' = [frames EXCEPT ![t] = <<c>> \o @]
    /\ Goto(t, IF s_pOnceMutex THEN "o_lock" ELSE "o_create")
    /\ UNCHANGED <<s_pOnceMutex, owner, level, control, action, first, early>>

OnceNested(t, c) ==
    /\ owner = t
    /\ \/ /\ FindsNil(c, TRUE)
          /\ level' = level + 1
          /\ frames' = [frames EXCEPT ![t] = <<c>> \o @]
          /\ Goto(t, "o_store")
       \/ FindsNil(c, FALSE) /\ UNCHANGED <<pc, level, frames>>
    /\ UNCHANGED <<s_pOnceMutex, owner, early>>

Once(t) ==
    /\ \E l \in StopPCs : CallAt(t, "once", l)
    /\ \E c \in Controls : OnceTestFails(t, c) \/ OnceMustLock(t, c) \/ OnceNested(t, c)
    /\ UNCHANGED <<hvmVars, arg, s_thread_mtx, waitVars, joinVars, initVars>>

\* The mutex is created under s_once_mtx.
OnceCreate(t) ==
    /\ pc[t] = "o_create" /\ s_once_mtx = NoThread
    /\ s_pOnceMutex' = TRUE
    /\ Goto(t, "o_lock")
    /\ UNCHANGED <<hvmVars, budget, arg, s_thread_mtx, waitVars, joinVars, owner, level, frames,
                   control, action, first, early, initVars>>

\* hb_threadMutexLock() outside the VM
OnceLock(t) ==
    /\ pc[t] = "o_lock" /\ owner = NoThread
    /\ owner' = t /\ level' = 1
    /\ Goto(t, "o_got")
    /\ UNCHANGED <<hvmVars, budget, arg, s_thread_mtx, waitVars, joinVars, s_pOnceMutex, frames,
                   control, action, first, early, initVars>>

\* hb_threadMutexUnlock() and the return from the innermost call
OnceUnlock(t) ==
    /\ level' = level - 1
    /\ owner' = IF level = 1 THEN NoThread ELSE owner
    /\ frames' = [frames EXCEPT ![t] = Tail(@)]

\* hb_vmLock() at the end of hb_threadMutexLock(), and the second test.
OnceCheck(t) ==
    /\ pc[t] = "o_got"
    /\ VmLock(t)
    /\ LET c == Current(t) IN
          \/ /\ FindsNil(c, TRUE) /\ Goto(t, "o_store")
             /\ UNCHANGED <<owner, level, frames, early>>
          \/ FindsNil(c, FALSE) /\ OnceUnlock(t) /\ Goto(t, "leave") /\ UNCHANGED early
          \/ /\ control[c].type # "NIL"
             /\ OnceUnlock(t) /\ Goto(t, "leave")
             /\ early' = IF action[c] = "cut" THEN early \cup {"cut"}
                         ELSE IF action[c] # "complete" THEN early \cup {"other"} ELSE early
             /\ UNCHANGED <<control, action, first>>
    /\ unchangedHvm
    /\ UNCHANGED <<budget, arg, s_thread_mtx, waitVars, joinVars, s_pOnceMutex, initVars>>

\* The second store of hb_itemPutL(); the action begins.
OnceStore_True(t) ==
    /\ pc[t] = "o_store"
    /\ control' = [control EXCEPT ![Current(t)].value = TRUE]
    /\ Goto(t, "o_eval")
    /\ UNCHANGED <<hvmVars, budget, arg, s_thread_mtx, waitVars, joinVars, s_pOnceMutex, owner,
                   level, frames, action, first, early, initVars>>

OnceStore(t) ==
    /\ pc[t] = "o_store"
    /\ control' = [control EXCEPT ![Current(t)].value = FALSE]
    /\ Goto(t, "o_eval")
    /\ UNCHANGED <<hvmVars, budget, arg, s_thread_mtx, waitVars, joinVars, s_pOnceMutex, owner,
                   level, frames, action, first, early, initVars>>

\* The action ends, or is left because the thread is asked to quit; either way
\* hb_storl( HB_TRUE, 1 ) and hb_threadMutexUnlock() follow.
OnceDone(t) ==
    LET asked == t \in quit \/ QUIT IN
    /\ pc[t] = "o_eval" /\ stop = NoThread
    /\ control' = [control EXCEPT ![Current(t)].value = TRUE]
    /\ action' = [action EXCEPT ![Current(t)] = IF asked THEN "cut" ELSE "complete"]
    /\ quit' = IF asked THEN quit \cup {t} ELSE quit
    /\ OnceUnlock(t)
    /\ Goto(t, "leave")
    /\ unchangedHvm
    /\ UNCHANGED <<budget, arg, s_thread_mtx, waitVars, joinVars, s_pOnceMutex, first, early,
                   initVars>>

\* The hb_vmLock() before a function returns.
Leave(t) ==
    /\ pc[t] = "leave"
    /\ VmLock(t)
    /\ Goto(t, Caller(frames[t]))
    /\ unchangedHvm
    /\ UNCHANGED <<budget, arg, s_thread_mtx, waitVars, joinVars, onceVars, initVars>>

-----------------------------------------------------------------------------
(* hb_threadOnceInit()                                                     *)

OnceInit(t) ==
    /\ Call(t, "init")
    /\ Goto(t, IF variable.type = "NIL" THEN "i_mtx" ELSE "run")
    /\ UNCHANGED <<hvmVars, arg, s_thread_mtx, waitVars, joinVars, onceVars, initVars>>

\* HB_CRITICAL_LOCK( s_once_mtx ), the second test and the first store of
\* hb_itemSafeMove().
OnceInitLock_NoTest(t) ==
    /\ pc[t] = "i_mtx" /\ s_once_mtx = NoThread
    /\ s_once_mtx' = t /\ variable' = [variable EXCEPT !.value = t] /\ Goto(t, "i_store")
    /\ UNCHANGED <<hvmVars, budget, arg, s_thread_mtx, waitVars, joinVars, onceVars>>

OnceInitLock(t) ==
    /\ pc[t] = "i_mtx" /\ s_once_mtx = NoThread
    /\ \/ /\ variable.type = "NIL"
          /\ s_once_mtx' = t /\ variable' = [variable EXCEPT !.value = t] /\ Goto(t, "i_store")
       \/ variable.type # "NIL" /\ Goto(t, "run") /\ UNCHANGED initVars
    /\ UNCHANGED <<hvmVars, budget, arg, s_thread_mtx, waitVars, joinVars, onceVars>>

OnceInitStore(t) ==
    /\ pc[t] = "i_store"
    /\ variable' = [variable EXCEPT !.type = "SET"]
    /\ s_once_mtx' = NoThread
    /\ Goto(t, "run")
    /\ UNCHANGED <<hvmVars, budget, arg, s_thread_mtx, waitVars, joinVars, onceVars>>

-----------------------------------------------------------------------------
\* The steps of a function that has been called.
Step(t) ==
    \/ Suspended(t) \/ SignalWaiting(t)
    \/ WaitEnter(t) \/ WaitWoken(t) \/ WaitAgain(t)
    \/ JoinCall(t) \/ Joined(t) \/ JoinClear(t) \/ JoinResult(t)
    \/ DetachCall(t) \/ DetachClear(t)
    \/ OnceCreate(t) \/ OnceLock(t) \/ OnceCheck(t) \/ OnceStore(t) \/ OnceDone(t)
    \/ Leave(t) \/ OnceInitLock(t) \/ OnceInitStore(t)

Next ==
    \/ \E t \in Threads :
          \/ Suspend(t) \/ QuitRequest(t) \/ Wait(t) \/ Join(t) \/ Detach(t)
          \/ Once(t) \/ OnceInit(t)
          \/ ThreadQuit(t) \/ WaitTimeout(t) \/ Spurious(t) \/ Step(t)
    \/ TerminateThreads \/ Terminated

Spec == Init /\ [][Next]_vars

\* A thread in a function goes on when it can, a time limit ends, a thread that
\* is asked to quit ends.  Nothing makes a thread call a function or end by
\* itself.
Fairness ==
    /\ \A t \in Threads :
          /\ WF_vars(Step(t))
          /\ WF_vars(WaitTimeout(t))
          /\ WF_vars((t \in quit \/ QUIT) /\ ThreadQuit(t))
    /\ WF_vars((Main \in quit /\ TerminateThreads) \/ Terminated)

FairSpec == Spec /\ Fairness

-----------------------------------------------------------------------------
(* Properties.                                                             *)

\* The known ways to wait forever.  A thread of another library ends without
\* hb_threadStartFunc(), which alone signals s_thread_cond.
EndedUnsignalled(t) ==
    pc[t] = "w_sleep" /\ \E i \in Finished(arg[t]) : arg[t].pThreads[i] \in Foreign

\* A woken thread sleeps in hb_vmLock() with s_thread_mtx locked while another
\* one waits for s_thread_mtx inside the VM: neither it nor the thread that has
\* set STOP goes on (thread.c:1201).
WaitHoldsLock ==
    /\ stop # NoThread
    /\ \E t, u \in Threads : pc[t] = "w_lock" /\ s_thread_mtx = t /\ pc[u] = "w_mtx"

\* Threads that sleep without a time limit until one of themselves, or the main
\* thread, ends: hb_vmTerminateThreads() does not wake them (thread.c:1196), nor
\* the ones that join each other in a ring.
WaitsForEver(S) ==
    /\ S # {}
    /\ \A t \in S :
          \/ pc[t] = "j_join" /\ arg[t] \in S
          \/ /\ pc[t] = "w_sleep" /\ t \in cond /\ ~arg[t].timed
             /\ LET late == {i \in DOMAIN arg[t].pThreads :
                                arg[t].pThreads[i] \in S \cup {Main}}
                IN IF arg[t].fAll THEN late # {} ELSE late = DOMAIN arg[t].pThreads

\* The end of a thread wakes everyone who waits for it: a thread sleeps in
\* hb_threadWait() after the threads it waits for have ended only while one of
\* those is still on its way to the signal, or it waits for a thread of another
\* library.  The tests of fFinished and the store of it use different mutexes.
NoLostWakeup ==
    \A t \in cond : Enough(arg[t]) =>
        \/ \E u \in Threads : pc[u] = "signal"
        \/ EndedUnsignalled(t)

\* A collection that forces the other threads to stop gets the machine, except
\* for the deadlock with hb_threadWait() named above.
SuspensionEnds == stop # NoThread ~> (stop = NoThread \/ WaitHoldsLock)

\* "send QUIT request to all threads except current one and wait for their
\* termination": hb_vmTerminateThreads() returns unless threads wait for each
\* other in hb_threadJoin() and hb_threadWait(), or there for the main thread.
TerminateReturns ==
    pc[Main] = "term" ~> \/ pc[Main] = "done"
                         \/ \E t \in Threads : EndedUnsignalled(t)
                         \/ \E S \in SUBSET (Workers \cup Foreign) : WaitsForEver(S)

\* Whoever has joined a thread finds its result: of several joins of one thread
\* one succeeds, and not before the result is stored.  The exception is a thread
\* joined or detached through a handle that was gone: th_h is tested and cleared
\* without a lock, and used outside the VM (thread.c:1248-1253).  That takes two
\* calls that deal with the thread at the same time: calls that follow one another
\* never use a handle that is gone.  The types of the state are part of it.
JoinFindsResult ==
    /\ TypeOK
    /\ \A t \in Threads : pc[t] \in {"j_clear", "j_lock"} => arg[t] \in pResult \cup misused
    /\ misused \subseteq shared

\* "Execute <bAction> only once": at most one call for a control is the first.
FirstCallOnce == \A c \in Controls : first[c] <= 1

\* A call of hb_threadOnce() from outside the action returns .F. only when the
\* action is complete.  Two exceptions are known: the item is read between the
\* two stores of hb_itemPutL() (itemapi.c:926), and a thread that is asked to
\* quit leaves its action but marks it as done (thread.c:1419).
OthersAreStopped == "other" \notin early

\* "Execute <bAction> only once", and nobody passes before it is done.
OnceIsKept == FirstCallOnce /\ OthersAreStopped

\* hb_threadOnceInit() assigns once, and a thread that reads the variable
\* without a lock finds NIL or the value that stays.
OnceInitIsFinal == [][variable.type # "NIL" => variable' = variable]_vars

\* What makes the invariants above inductive.  The records about the threads are
\* there for every thread.
Started == DOMAIN program.budget

EveryThread == DOMAIN budget = Started /\ DOMAIN arg = Threads /\ DOMAIN frames = Threads

\* A sleeper on s_thread_cond has been counted.
SleepersCounted == (\A t \in cond : pc[t] = "w_sleep") /\ (cond # {} => s_waiting_for_threads > 0)

\* th_h tells whether the handle is good, except between the call that ends the
\* handle and the store; who has found it is not alone when it goes.  A handle has
\* one joiner, and the result is there until the joiner fetches it.
HandlesKept ==
    /\ th_h \cup handles \subseteq Workers \cap Started
    /\ \A u \in th_h \ handles : \E t \in Threads : pc[t] \in {"j_clear", "d_clear"} /\ arg[t] = u
    /\ \A u \in handles : pc[u] \in {"signal", "none"} => u \in pResult

CallersKnow ==
    \A t \in Threads :
      /\ pc[t] \in DealPCs \cup {"j_lock"} => arg[t] \in Workers \cap Started
      /\ pc[t] \in {"j_call", "d_call"} => arg[t] \in handles \cup shared
      /\ pc[t] = "j_join" => arg[t] \in handles
      /\ pc[t] \in {"j_clear", "j_lock"} => arg[t] \notin handles

OverlapsRecorded ==
    \A t, v \in Threads : t # v /\ arg[t] = arg[v] =>
      /\ pc[t] \in DealPCs /\ pc[v] \in DealPCs => arg[t] \in shared
      /\ ~(pc[t] = "j_join" /\ pc[v] = "j_join")
      /\ {pc[t], pc[v]} \subseteq {"j_clear", "j_lock"} => arg[t] \in misused

\* The owner of the mutex of hb_threadOnce() has locked it once for every call
\* it is in, each for a control of its own whose action it runs; nobody else is
\* further than the lock.
OwnerHasFrames ==
    \A t \in Threads :
      IF owner = t
        THEN /\ pc[t] \in {"o_got", "o_store", "o_eval", "leave"}
             /\ level = Len(frames[t]) /\ level > 0
             /\ \A i, j \in DOMAIN frames[t] : frames[t][i] = frames[t][j] => i = j
             /\ IF pc[t] = "o_got" THEN level = 1
                  ELSE \A i \in DOMAIN frames[t] : action[frames[t][i]] = "running"
        ELSE /\ pc[t] \notin {"o_got", "o_store", "o_eval"}
             /\ IF pc[t] \in {"o_create", "o_lock"} THEN Len(frames[t]) = 1
                  ELSE frames[t] = <<>>

\* A control tells how far its action is, except between the stores of its item.
ControlTells ==
    \A c \in Controls :
      /\ control[c].type = "NIL" <=> action[c] = "no"
      /\ first[c] = IF control[c].type = "NIL" THEN 0 ELSE 1
      /\ action[c] = "running" =>
            /\ owner # NoThread /\ pc[owner] # "o_got"
            /\ \E i \in DOMAIN frames[owner] : frames[owner][i] = c
            /\ control[c].value => pc[owner] = "o_store" /\ Current(owner) = c

\* Only one thread is between the stores of hb_threadOnceInit().
OneInitializer ==
    \A t \in Threads : pc[t] = "i_store" => s_once_mtx = t /\ variable.type = "NIL"

ApiInv ==
    /\ JoinFindsResult /\ EveryThread
    /\ HandlesKept /\ CallersKnow /\ OverlapsRecorded
    /\ SleepersCounted /\ NoLostWakeup
    /\ OwnerHasFrames /\ ControlTells /\ OthersAreStopped /\ OneInitializer
=============================================================================
