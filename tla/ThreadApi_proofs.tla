-------------------------- MODULE ThreadApi_proofs --------------------------
(***************************************************************************)
(* Proofs about ThreadApi, for any finite sets of threads and controls and *)
(* any programs.  The steps fall into five groups, each of which leaves    *)
(* most of the state alone; every invariant is shown for the group that    *)
(* works on its variables and, once, for all the others.                   *)
(***************************************************************************)
EXTENDS ThreadApi, SequenceTheorems, TLAPS

PCs == InVMPCs \cup StopPCs \cup OutPCs

\* Forced suspension and quit requests.
HvmStep(t) == Suspend(t) \/ Suspended(t) \/ QuitRequest(t)
MainStep == TerminateThreads \/ Terminated

WaitStep(t) ==
    \/ Wait(t) \/ WaitEnter(t) \/ WaitTimeout(t) \/ Spurious(t) \/ WaitWoken(t)
    \/ WaitAgain(t)

JoinStep(t) ==
    \/ Join(t) \/ JoinCall(t) \/ Joined(t) \/ JoinClear(t) \/ JoinResult(t)
    \/ Detach(t) \/ DetachCall(t) \/ DetachClear(t)

EndStep(t) == ThreadQuit(t) \/ SignalWaiting(t)

OnceStep(t) ==
    \/ Once(t) \/ OnceCreate(t) \/ OnceLock(t) \/ OnceCheck(t) \/ OnceStore(t)
    \/ OnceDone(t) \/ Leave(t)

InitStep(t) == OnceInit(t) \/ OnceInitLock(t) \/ OnceInitStore(t)

\* Every step is in one of the groups.
LEMMA Groups ==
    ASSUME [Next]_vars
    PROVE  \/ UNCHANGED vars \/ MainStep
           \/ \E t \in Threads : \/ HvmStep(t) \/ WaitStep(t) \/ JoinStep(t) \/ EndStep(t)
                                 \/ OnceStep(t) \/ InitStep(t)
  BY DEF Next, Step, HvmStep, MainStep, WaitStep, JoinStep, EndStep, OnceStep, InitStep

\* The labels that the actions use.
LEMMA Labels ==
    /\ "w_mtx" \in PCs /\ "o_create" \in PCs /\ "o_store" \in PCs /\ "i_mtx" \in PCs
    /\ "i_store" \in PCs /\ "run" \in PCs /\ "o_eval" \in PCs /\ "w_sleep" \in PCs
    /\ "w_lock" \in PCs /\ "j_call" \in PCs /\ "j_join" \in PCs /\ "j_clear" \in PCs
    /\ "j_lock" \in PCs /\ "d_call" \in PCs /\ "d_clear" \in PCs
    /\ "o_lock" \in PCs /\ "o_got" \in PCs /\ "leave" \in PCs /\ "gc" \in PCs
    /\ "signal" \in PCs /\ "none" \in PCs /\ "term" \in PCs /\ "done" \in PCs
  BY DEF PCs, InVMPCs, StopPCs, OutPCs

\* The main thread is a thread.
LEMMA MainIsThread == Main \in Threads /\ Workers \subseteq Threads /\ NoThread \notin Threads
  BY ApiAssumption DEF Threads

-----------------------------------------------------------------------------
(* Types.                                                                  *)

\* The types of the state, one fact per variable, and the records for every thread.
StateOK ==
    /\ program \in Programs
    /\ stop \in Threads \cup {NoThread} /\ s_thread_mtx \in Threads \cup {NoThread}
    /\ owner \in Threads \cup {NoThread} /\ s_once_mtx \in Threads \cup {NoThread}
    /\ QUIT \in BOOLEAN /\ s_pOnceMutex \in BOOLEAN
    /\ quit \subseteq Threads /\ fFinished \subseteq Threads /\ cond \subseteq Threads
    /\ fExit \subseteq Threads /\ th_h \subseteq Threads /\ handles \subseteq Threads
    /\ pResult \subseteq Threads /\ misused \subseteq Threads /\ shared \subseteq Threads
    /\ pc \in [Threads -> PCs]
    /\ s_waiting_for_threads \in Nat /\ level \in Nat
    /\ DOMAIN arg = Threads
    /\ DOMAIN frames = Threads /\ \A t \in Threads : frames[t] \in Seq(Controls)
    /\ control \in [Controls -> Item(BOOLEAN)]
    /\ action \in [Controls -> {"no", "running", "complete", "cut"}]
    /\ first \in [Controls -> Nat]
    /\ early \subseteq {"torn", "cut", "other"}
    /\ variable \in Item(Threads \cup {NoThread})

\* An opcode of a program costs one of its functions.
BudgetOK == DOMAIN budget = Started /\ \A t \in DOMAIN budget : budget[t] \in 0 .. program.budget[t]

\* The type invariant is what the two say together.
LEMMA TypesSplit == TypeOK /\ EveryThread <=> StateOK /\ BudgetOK
  BY DEF TypeOK, EveryThread, StateOK, BudgetOK, PCs

\* Calling a function keeps the rest of the budget in its bounds.
LEMMA BudgetKept ==
    ASSUME program \in Programs, BudgetOK, UNCHANGED program,
           \/ UNCHANGED budget
           \/ \E t \in Threads : budget[t] > 0 /\ budget' = [budget EXCEPT ![t] = @ - 1]
    PROVE  BudgetOK'
<1>1. \A t \in Started : program.budget[t] \in Nat
  BY ApiAssumption DEF IsProgram, Started
<1>2. Started' = Started
  BY DEF Started
<1>3. CASE UNCHANGED budget
  BY <1>2, <1>3 DEF BudgetOK
<1>4. ASSUME NEW t \in Threads, budget[t] > 0, budget' = [budget EXCEPT ![t] = @ - 1]
      PROVE  BudgetOK'
  <2>1. DOMAIN budget' = Started
    BY <1>4 DEF BudgetOK
  <2>2. ASSUME NEW u \in Started PROVE budget'[u] \in 0 .. program.budget[u]
    <3>1. budget[u] \in 0 .. program.budget[u] /\ program.budget[u] \in Nat
      BY <1>1 DEF BudgetOK
    <3> QED BY <1>4, <3>1 DEF BudgetOK
  <2> QED BY <1>2, <2>1, <2>2 DEF BudgetOK
<1> QED
  BY <1>3, <1>4

\* No step does anything else to the program and its budget.
LEMMA BudgetStep == StateOK /\ BudgetOK /\ [Next]_vars => BudgetOK'
<1> SUFFICES ASSUME StateOK, BudgetOK, [Next]_vars PROVE BudgetOK'
  OBVIOUS
<1> DEFINE Spent == /\ UNCHANGED program
                    /\ \/ UNCHANGED budget
                       \/ \E t \in Threads :
                            budget[t] > 0 /\ budget' = [budget EXCEPT ![t] = @ - 1]
<1>1. CASE UNCHANGED vars
  <2>1. Spent
    BY <1>1 DEF vars, hvmVars
  <2> QED BY <2>1, BudgetKept DEF StateOK
<1>2. CASE MainStep
  <2>1. Spent
    BY <1>2 DEF MainStep, TerminateThreads, Terminated
  <2> QED BY <2>1, BudgetKept DEF StateOK
<1>3. ASSUME NEW t \in Threads, HvmStep(t) \/ EndStep(t) \/ InitStep(t) PROVE Spent
  BY <1>3 DEF HvmStep, EndStep, InitStep, Suspend, Suspended, QuitRequest, ThreadQuit,
              SignalWaiting, OnceInit, OnceInitLock, OnceInitStore, Call, CallAt, hvmVars
<1>4. ASSUME NEW t \in Threads, WaitStep(t) \/ JoinStep(t) PROVE Spent
  BY <1>4 DEF WaitStep, JoinStep, Wait, WaitEnter, WaitTimeout, Spurious, WaitWoken, WaitAgain,
              Join, JoinCall, Joined, JoinClear, JoinResult, Detach, DetachCall, DetachClear,
              Call, CallAt, hvmVars, unchangedHvm
<1>5. ASSUME NEW t \in Threads, OnceStep(t) PROVE Spent
  BY <1>5 DEF OnceStep, Once, OnceCreate, OnceLock, OnceCheck, OnceStore, OnceDone, Leave,
              CallAt, hvmVars, unchangedHvm
<1>6. Spent => BudgetOK'
  BY BudgetKept DEF StateOK
<1> QED
  BY <1>1, <1>2, <1>3, <1>4, <1>5, <1>6, Groups

\* Entering a call of hb_threadOnce() puts its control in front.
LEMMA PushProps ==
    ASSUME NEW c \in Controls, NEW s \in Seq(Controls)
    PROVE  /\ <<c>> \o s \in Seq(Controls) /\ Len(<<c>> \o s) = Len(s) + 1
           /\ Len(s) \in Nat
           /\ Head(<<c>> \o s) = c /\ (<<c>> \o s)[1] = c
           /\ \A i \in 1 .. Len(s) : (<<c>> \o s)[i + 1] = s[i]
<1> DEFINE one == <<c>>
<1>1. one \in Seq(Controls) /\ Len(one) = 1 /\ one[1] = c
  OBVIOUS
<1> HIDE DEF one
<1> DEFINE r == one \o s
<1>2. /\ r \in Seq(Controls) /\ Len(r) = Len(one) + Len(s)
      /\ \A i \in 1 .. Len(one) + Len(s) :
           r[i] = IF i <= Len(one) THEN one[i] ELSE s[i - Len(one)]
  BY <1>1, ConcatProperties
<1>3. Len(s) \in Nat
  BY LenProperties
<1> HIDE DEF r
<1>4. /\ Len(r) = Len(s) + 1 /\ r[1] = c /\ r # <<>>
      /\ \A i \in 1 .. Len(s) : r[i + 1] = s[i]
  BY <1>1, <1>2, <1>3, EmptySeq
<1>5. Head(r) = r[1]
  BY <1>2, <1>4, HeadTailProperties
<1> QED
  BY <1>2, <1>3, <1>4, <1>5 DEF r, one

\* Leaving a call drops its control.
LEMMA PopProps ==
    ASSUME NEW s \in Seq(Controls), Len(s) > 0
    PROVE  /\ s # <<>> /\ Len(s) \in Nat
           /\ Head(s) = s[1] /\ Head(s) \in Controls
           /\ Tail(s) \in Seq(Controls) /\ Len(Tail(s)) = Len(s) - 1
           /\ \A i \in 1 .. Len(s) - 1 : Tail(s)[i] = s[i + 1]
<1>1. s # <<>> /\ Len(s) \in Nat
  BY EmptySeq, LenProperties
<1> QED
  BY <1>1, HeadTailProperties

\* Outside hb_threadOnce() every step keeps the types of the state.
LEMMA OtherTypes ==
    ASSUME StateOK, CallersKnow, NEW t \in Threads,
           HvmStep(t) \/ WaitStep(t) \/ JoinStep(t) \/ EndStep(t) \/ InitStep(t)
    PROVE  StateOK'
<1> USE Labels, MainIsThread DEF hvmVars, waitVars, joinVars, onceVars, initVars
<1>0. /\ pc \in [Threads -> PCs] /\ cond \subseteq Threads /\ s_waiting_for_threads \in Nat
      /\ s_once_mtx \in Threads \cup {NoThread} /\ variable \in Item(Threads \cup {NoThread})
  BY DEF StateOK
<1>1. CASE HvmStep(t)
  <2>1. CASE Suspend(t)
    BY <2>1 DEF StateOK, Suspend, Call, CallAt, Goto
  <2>2. CASE Suspended(t)
    BY <2>2 DEF StateOK, Suspended, Goto
  <2>3. CASE QuitRequest(t)
    BY <2>3 DEF StateOK, QuitRequest, Call, CallAt
  <2> QED BY <1>1, <2>1, <2>2, <2>3 DEF HvmStep
<1>2. CASE WaitStep(t)
  <2>1. CASE Wait(t)
    BY <2>1 DEF StateOK, Wait, Call, CallAt, Goto
  <2>2. CASE WaitEnter(t)
    <3>1. pc' \in [Threads -> PCs] /\ cond' \subseteq Threads /\ s_waiting_for_threads' \in Nat
      BY <1>0, <2>2 DEF WaitEnter, Goto, WaitLoop
    <3> QED BY <2>2, <3>1 DEF StateOK, WaitEnter
  <2>3. CASE WaitTimeout(t)
    BY <2>3 DEF StateOK, WaitTimeout
  <2>4. CASE Spurious(t)
    BY <2>4 DEF StateOK, Spurious
  <2>5. CASE WaitWoken(t)
    BY <2>5 DEF StateOK, WaitWoken, Goto
  <2>6. CASE WaitAgain(t)
    <3>1. pc' \in [Threads -> PCs] /\ cond' \subseteq Threads /\ s_waiting_for_threads' \in Nat
      BY <1>0, <2>6 DEF WaitAgain, Goto, WaitLoop
    <3>2. quit' \subseteq Threads /\ s_thread_mtx' = NoThread
      BY <2>6 DEF StateOK, WaitAgain, VmLock
    <3> QED BY <2>6, <3>1, <3>2 DEF StateOK, WaitAgain, unchangedHvm
  <2> QED BY <1>2, <2>1, <2>2, <2>3, <2>4, <2>5, <2>6 DEF WaitStep
<1>3. CASE JoinStep(t)
  <2>0. pc[t] \in DealPCs => arg[t] \in Threads
    BY DEF CallersKnow
  <2>1. CASE Join(t) \/ Detach(t)
    <3>1. PICK u \in Workers : TestHandle(t, u, "j_call") \/ TestHandle(t, u, "d_call")
      BY <2>1 DEF Join, Detach
    <3>2. /\ pc' \in [Threads -> PCs] /\ DOMAIN arg' = Threads /\ shared' \subseteq Threads
          /\ UNCHANGED <<th_h, handles, pResult, misused>>
      <4>1. Goto(t, IF u \in th_h THEN "j_call" ELSE "run")
              \/ Goto(t, IF u \in th_h THEN "d_call" ELSE "run")
        BY <3>1 DEF TestHandle
      <4>2. pc' \in [Threads -> PCs]
        BY <1>0, <4>1 DEF Goto
      <4> QED BY <3>1, <4>2 DEF StateOK, TestHandle
    <3> QED BY <2>1, <3>2 DEF StateOK, Join, Detach, Call, CallAt
  <2>2. CASE JoinCall(t)
    <3>1. Goto(t, "leave") \/ Goto(t, "j_join") \/ Goto(t, "j_clear")
      BY <2>2 DEF JoinCall
    <3>2. pc' \in [Threads -> PCs]
      BY <1>0, <3>1 DEF Goto
    <3>3. misused' \subseteq Threads
      BY <2>0, <2>2 DEF StateOK, JoinCall, DealPCs
    <3> QED BY <2>2, <3>2, <3>3 DEF StateOK, JoinCall
  <2>3. CASE Joined(t)
    BY <2>3 DEF StateOK, Joined, Goto
  <2>4. CASE JoinClear(t)
    BY <2>4 DEF StateOK, JoinClear, Goto
  <2>5. CASE JoinResult(t)
    BY <2>5 DEF StateOK, JoinResult, Goto, VmLock, unchangedHvm
  <2>6. CASE DetachCall(t)
    <3>1. Goto(t, "run") \/ Goto(t, "d_clear")
      BY <2>6 DEF DetachCall
    <3>2. pc' \in [Threads -> PCs]
      BY <1>0, <3>1 DEF Goto
    <3>3. misused' \subseteq Threads /\ handles' \subseteq Threads
      BY <2>0, <2>6 DEF StateOK, DetachCall, DealPCs
    <3> QED BY <2>6, <3>2, <3>3 DEF StateOK, DetachCall
  <2>7. CASE DetachClear(t)
    BY <2>7 DEF StateOK, DetachClear, Goto
  <2> QED BY <1>3, <2>1, <2>2, <2>3, <2>4, <2>5, <2>6, <2>7 DEF JoinStep
<1>4. CASE EndStep(t)
  <2>1. CASE ThreadQuit(t)
    BY <2>1 DEF StateOK, ThreadQuit, Goto
  <2>2. CASE SignalWaiting(t)
    BY <2>2 DEF StateOK, SignalWaiting, Goto
  <2> QED BY <1>4, <2>1, <2>2 DEF EndStep
<1>5. CASE InitStep(t)
  <2>1. CASE OnceInit(t)
    BY <2>1 DEF StateOK, OnceInit, Call, CallAt, Goto
  <2>2. CASE OnceInitLock(t)
    <3>1. /\ pc' \in [Threads -> PCs] /\ s_once_mtx' \in Threads \cup {NoThread}
          /\ variable' \in Item(Threads \cup {NoThread})
      BY <1>0, <2>2 DEF OnceInitLock, Goto, Item
    <3> QED BY <2>2, <3>1 DEF StateOK, OnceInitLock
  <2>3. CASE OnceInitStore(t)
    BY <2>3 DEF StateOK, OnceInitStore, Goto, Item
  <2> QED BY <1>5, <2>1, <2>2, <2>3 DEF InitStep
<1> QED
  BY <1>1, <1>2, <1>3, <1>4, <1>5

\* A call of hb_threadOnce() that finds NIL marks the control.
LEMMA FindsNilTypes ==
    ASSUME StateOK, NEW c \in Controls, NEW b \in BOOLEAN, FindsNil(c, b)
    PROVE  /\ control' \in [Controls -> Item(BOOLEAN)]
           /\ action' \in [Controls -> {"no", "running", "complete", "cut"}]
           /\ first' \in [Controls -> Nat]
<1> DEFINE old == control[c]
           new == IF b THEN [old EXCEPT !.type = "SET"] ELSE [type |-> "SET", value |-> TRUE]
<1>1. old \in Item(BOOLEAN)
  BY DEF StateOK
<1>2. new \in Item(BOOLEAN)
  BY <1>1 DEF Item
<1>3. control' = [control EXCEPT ![c] = new]
  BY DEF FindsNil
<1> HIDE DEF new
<1>4. /\ control \in [Controls -> Item(BOOLEAN)] /\ first \in [Controls -> Nat]
      /\ action \in [Controls -> {"no", "running", "complete", "cut"}]
  BY DEF StateOK
<1>5. control' \in [Controls -> Item(BOOLEAN)]
  BY <1>2, <1>3, <1>4
<1>6. action' \in [Controls -> {"no", "running", "complete", "cut"}] /\ first' \in [Controls -> Nat]
  BY <1>4 DEF FindsNil
<1> QED
  BY <1>5, <1>6

\* The owner of the mutex is in a call of hb_threadOnce().
LEMMA OwnerProps ==
    ASSUME StateOK, OwnerHasFrames, NEW t \in Threads, owner = t
    PROVE  /\ frames[t] \in Seq(Controls) /\ Len(frames[t]) > 0
           /\ level = Len(frames[t]) /\ level - 1 \in Nat
           /\ Current(t) \in Controls /\ Current(t) = frames[t][1]
           /\ DOMAIN frames[t] = 1 .. level
<1>1. /\ frames[t] \in Seq(Controls) /\ Len(frames[t]) > 0 /\ level = Len(frames[t])
      /\ level \in Nat
  BY DEF StateOK, OwnerHasFrames
<1>2. Current(t) \in Controls /\ Current(t) = frames[t][1]
  BY <1>1, PopProps DEF Current
<1>3. DOMAIN frames[t] = 1 .. level
  BY <1>1, LenProperties
<1> QED
  BY <1>1, <1>2, <1>3

\* A thread at these labels is the owner.
LEMMA OwnerPCs ==
    ASSUME OwnerHasFrames, NEW t \in Threads, pc[t] \in {"o_got", "o_store", "o_eval"}
    PROVE  owner = t
  BY DEF OwnerHasFrames

\* Leaving a call unlocks the mutex once.
LEMMA UnlockTypes ==
    ASSUME StateOK, OwnerHasFrames, NEW t \in Threads, owner = t, OnceUnlock(t)
    PROVE  /\ level' = level - 1 /\ level' \in Nat
           /\ owner' = IF level = 1 THEN NoThread ELSE t
           /\ owner' \in Threads \cup {NoThread}
           /\ frames' = [frames EXCEPT ![t] = Tail(frames[t])]
           /\ DOMAIN frames' = Threads /\ \A u \in Threads : frames'[u] \in Seq(Controls)
           /\ frames'[t] = Tail(frames[t])
<1>1. frames[t] \in Seq(Controls) /\ Len(frames[t]) > 0 /\ level - 1 \in Nat
  BY OwnerProps
<1>2. Tail(frames[t]) \in Seq(Controls)
  BY <1>1, PopProps
<1> QED
  BY <1>1, <1>2 DEF OnceUnlock, StateOK

\* hb_threadOnce() keeps the types of the state.
LEMMA OnceTypes ==
    ASSUME StateOK, OwnerHasFrames, NEW t \in Threads, OnceStep(t) PROVE StateOK'
<1> USE Labels DEF hvmVars, waitVars, joinVars, onceVars, initVars
<1> DEFINE Framed(f) == DOMAIN f = Threads /\ \A u \in Threads : f[u] \in Seq(Controls)
<1>0. /\ pc \in [Threads -> PCs] /\ level \in Nat /\ owner \in Threads \cup {NoThread}
      /\ Framed(frames)
      /\ control \in [Controls -> Item(BOOLEAN)] /\ first \in [Controls -> Nat]
      /\ action \in [Controls -> {"no", "running", "complete", "cut"}]
      /\ early \subseteq {"torn", "cut", "other"} /\ quit \subseteq Threads
  BY DEF StateOK
<1>1. CASE Once(t)
  <2>1. PICK c \in Controls : OnceTestFails(t, c) \/ OnceMustLock(t, c) \/ OnceNested(t, c)
    BY <1>0, <1>1 DEF Once
  <2> DEFINE pushed == [frames EXCEPT ![t] = <<c>> \o @]
  <2>2. Framed(pushed)
    BY <1>0, PushProps
  <2>3. CASE OnceTestFails(t, c)
    <3>1. early' \subseteq {"torn", "cut", "other"}
      BY <1>0, <2>3 DEF OnceTestFails, ReturnsFalse
    <3> QED BY <1>1, <2>3, <3>1 DEF StateOK, Once, OnceTestFails
  <2>4. CASE OnceMustLock(t, c)
    <3>1. pc' \in [Threads -> PCs] /\ Framed(frames')
      BY <1>0, <2>2, <2>4 DEF OnceMustLock, Goto
    <3> QED BY <1>1, <2>4, <3>1 DEF StateOK, Once, OnceMustLock
  <2>5. CASE OnceNested(t, c)
    <3>1. /\ control' \in [Controls -> Item(BOOLEAN)]
          /\ action' \in [Controls -> {"no", "running", "complete", "cut"}]
          /\ first' \in [Controls -> Nat]
      BY <1>0, <2>5, FindsNilTypes DEF OnceNested
    <3>2. pc' \in [Threads -> PCs]
      BY <1>0, <2>5 DEF OnceNested, Goto
    <3>3. Framed(frames') /\ level' \in Nat
      <4>1. \/ level' = level + 1 /\ frames' = pushed
            \/ level' = level /\ frames' = frames
        BY <2>5 DEF OnceNested
      <4> HIDE DEF pushed
      <4> QED BY <1>0, <2>2, <4>1
    <3> QED BY <1>1, <2>5, <3>1, <3>2, <3>3 DEF StateOK, Once, OnceNested
  <2> QED BY <2>1, <2>3, <2>4, <2>5
<1>2. CASE OnceCreate(t)
  BY <1>2 DEF StateOK, OnceCreate, Goto
<1>3. CASE OnceLock(t)
  BY <1>3 DEF StateOK, OnceLock, Goto
<1>4. CASE OnceCheck(t)
  <2>1. owner = t /\ Current(t) \in Controls
    BY <1>0, <1>4, OwnerPCs, OwnerProps DEF OnceCheck
  <2>2. quit' \subseteq Threads
    BY <1>0, <1>4 DEF OnceCheck, VmLock
  <2>3. /\ control' \in [Controls -> Item(BOOLEAN)]
        /\ action' \in [Controls -> {"no", "running", "complete", "cut"}]
        /\ first' \in [Controls -> Nat]
    BY <1>0, <1>4, <2>1, FindsNilTypes DEF OnceCheck
  <2>4. level' \in Nat /\ owner' \in Threads \cup {NoThread} /\ Framed(frames')
    <3>1. UNCHANGED <<owner, level, frames>> \/ OnceUnlock(t)
      BY <1>4 DEF OnceCheck
    <3> QED BY <1>0, <2>1, <3>1, UnlockTypes
  <2>6. pc' \in [Threads -> PCs]
    BY <1>0, <1>4 DEF OnceCheck, Goto
  <2>5. early' \subseteq {"torn", "cut", "other"}
    BY <1>0, <1>4 DEF OnceCheck
  <2> QED BY <1>4, <2>2, <2>3, <2>4, <2>5, <2>6 DEF StateOK, OnceCheck, unchangedHvm
<1>5. CASE OnceStore(t)
  <2>1. Current(t) \in Controls
    BY <1>0, <1>5, OwnerPCs, OwnerProps DEF OnceStore
  <2>2. control' \in [Controls -> Item(BOOLEAN)]
    BY <1>0, <1>5, <2>1, ZenonT(60) DEF OnceStore, Item
  <2> QED BY <1>5, <2>2 DEF StateOK, OnceStore, Goto
<1>6. CASE OnceDone(t)
  <2>1. owner = t /\ Current(t) \in Controls
    BY <1>0, <1>6, OwnerPCs, OwnerProps DEF OnceDone
  <2>2. control' \in [Controls -> Item(BOOLEAN)]
    BY <1>0, <1>6, <2>1, ZenonT(60) DEF OnceDone, Item
  <2>3. action' \in [Controls -> {"no", "running", "complete", "cut"}] /\ quit' \subseteq Threads
    BY <1>0, <1>6, <2>1 DEF OnceDone
  <2>4. level' \in Nat /\ owner' \in Threads \cup {NoThread} /\ Framed(frames')
    BY <1>0, <1>6, <2>1, UnlockTypes DEF OnceDone
  <2> QED BY <1>6, <2>2, <2>3, <2>4 DEF StateOK, OnceDone, Goto, unchangedHvm
<1>7. CASE Leave(t)
  <2>1. pc' \in [Threads -> PCs] /\ quit' \subseteq Threads
    BY <1>0, <1>7 DEF Leave, Goto, Caller, VmLock
  <2> QED BY <1>7, <2>1 DEF StateOK, Leave, unchangedHvm
<1> QED
  BY <1>1, <1>2, <1>3, <1>4, <1>5, <1>6, <1>7 DEF OnceStep

\* Every step keeps the types of the state.
LEMMA StateStep == StateOK /\ OwnerHasFrames /\ CallersKnow /\ [Next]_vars => StateOK'
<1> SUFFICES ASSUME StateOK, OwnerHasFrames, CallersKnow, [Next]_vars PROVE StateOK'
  OBVIOUS
<1>1. CASE UNCHANGED vars
  BY <1>1 DEF StateOK, vars, hvmVars, waitVars, joinVars, onceVars, initVars
<1>2. CASE MainStep
  <2>0. pc \in [Threads -> PCs]
    BY DEF StateOK
  <2>1. pc' \in [Threads -> PCs] /\ QUIT' \in BOOLEAN
    BY <1>2, <2>0, Labels DEF MainStep, TerminateThreads, Terminated, Goto
  <2>2. UNCHANGED <<program, stop, quit, fFinished, arg, s_thread_mtx, waitVars, joinVars,
                    onceVars, initVars>>
    BY <1>2 DEF MainStep, TerminateThreads, Terminated
  <2> QED BY <2>1, <2>2 DEF StateOK, waitVars, joinVars, onceVars, initVars
<1> QED
  BY <1>1, <1>2, Groups, OtherTypes, OnceTypes

-----------------------------------------------------------------------------
(* What a group leaves alone.                                              *)

\* Only threads at a label of From move, to a label of To; who does not move
\* keeps its arguments.
Moves(From, To) ==
    \A u \in Threads : \/ pc'[u] = pc[u] /\ arg'[u] = arg[u]
                       \/ pc[u] \in From /\ pc'[u] \in To

OncePCs == {"o_create", "o_lock", "o_got", "o_store", "o_eval", "leave"}

\* Each group moves between labels of its own and works on variables of its own.
LEMMA HvmMoves ==
    ASSUME StateOK, NEW t \in Threads, HvmStep(t)
    PROVE  /\ Moves({"run", "gc"}, {"run", "gc"})
           /\ UNCHANGED <<program, fFinished, waitVars, joinVars, onceVars, initVars>>
<1>1. pc \in [Threads -> PCs]
  BY DEF StateOK
<1> QED
  BY <1>1 DEF HvmStep, Suspend, Suspended, QuitRequest, Call, CallAt, Goto, Moves

\* The main thread ends the program.
LEMMA MainMoves ==
    ASSUME StateOK, MainStep
    PROVE  /\ Moves({"run", "term"}, {"term", "done"})
           /\ UNCHANGED <<program, fFinished, waitVars, joinVars, onceVars, initVars>>
<1>1. pc \in [Threads -> PCs]
  BY DEF StateOK
<1> QED
  BY <1>1 DEF MainStep, TerminateThreads, Terminated, Goto, Moves

\* hb_threadWait()
LEMMA WaitMoves ==
    ASSUME StateOK, NEW t \in Threads, WaitStep(t)
    PROVE  /\ Moves({"run", "w_mtx", "w_sleep", "w_lock"}, {"run", "w_mtx", "w_sleep", "w_lock"})
           /\ UNCHANGED <<program, fFinished, joinVars, onceVars, initVars>>
<1>1. pc \in [Threads -> PCs] /\ DOMAIN arg = Threads
  BY DEF StateOK
<1>2. CASE Wait(t) \/ WaitTimeout(t) \/ Spurious(t) \/ WaitWoken(t)
  BY <1>1, <1>2 DEF Wait, WaitTimeout, Spurious, WaitWoken, Call, CallAt, Goto, Moves, hvmVars
<1>3. CASE WaitEnter(t) \/ WaitAgain(t)
  <2>1. UNCHANGED <<program, fFinished, joinVars, onceVars, initVars, arg>>
    BY <1>3 DEF WaitEnter, WaitAgain, hvmVars, unchangedHvm
  <2>2. pc[t] \in {"w_mtx", "w_lock"} /\ (Goto(t, "run") \/ Goto(t, "w_sleep"))
    BY <1>3 DEF WaitEnter, WaitAgain, WaitLoop
  <2> QED BY <1>1, <2>1, <2>2 DEF Goto, Moves
<1> QED
  BY <1>2, <1>3 DEF WaitStep

\* hb_threadJoin() and hb_threadDetach()
LEMMA JoinMoves ==
    ASSUME StateOK, NEW t \in Threads, JoinStep(t)
    PROVE  /\ Moves(DealPCs \cup {"run", "j_lock"}, DealPCs \cup {"run", "j_lock", "leave"})
           /\ UNCHANGED <<program, fFinished, waitVars, onceVars, initVars>>
<1> USE DEF hvmVars, Moves, DealPCs
<1>1. pc \in [Threads -> PCs] /\ DOMAIN arg = Threads
  BY DEF StateOK
<1>2. CASE Join(t) \/ Detach(t)
  BY <1>1, <1>2 DEF Join, Detach, TestHandle, Call, CallAt, Goto
<1>3. CASE JoinCall(t) \/ Joined(t) \/ JoinClear(t) \/ JoinResult(t)
  BY <1>1, <1>3 DEF JoinCall, Joined, JoinClear, JoinResult, Goto, unchangedHvm
<1>4. CASE DetachCall(t) \/ DetachClear(t)
  BY <1>1, <1>4 DEF DetachCall, DetachClear, Goto
<1> QED
  BY <1>2, <1>3, <1>4 DEF JoinStep

\* The end of a thread.
LEMMA EndMoves ==
    ASSUME StateOK, NEW t \in Threads, EndStep(t)
    PROVE  /\ Moves({"run", "signal"}, {"signal", "none"})
           /\ UNCHANGED <<program, onceVars, initVars>>
<1>1. pc \in [Threads -> PCs]
  BY DEF StateOK
<1> QED
  BY <1>1 DEF EndStep, ThreadQuit, SignalWaiting, Goto, Moves, hvmVars

\* hb_threadOnce()
LEMMA OnceMoves ==
    ASSUME StateOK, NEW t \in Threads, OnceStep(t)
    PROVE  /\ Moves(OncePCs \cup {"run"}, OncePCs \cup {"run"})
           /\ UNCHANGED <<program, fFinished, waitVars, joinVars, initVars, arg>>
<1>1. pc \in [Threads -> PCs]
  BY DEF StateOK
<1>2. CASE Once(t)
  <2>1. pc[t] \in StopPCs /\ UNCHANGED <<program, fFinished, waitVars, joinVars, initVars, arg>>
    BY <1>2 DEF Once, CallAt, hvmVars
  <2>2. \/ pc' = pc \/ Goto(t, "o_lock") \/ Goto(t, "o_create") \/ Goto(t, "o_store")
    BY <1>2 DEF Once, OnceTestFails, OnceMustLock, OnceNested
  <2> QED BY <1>1, <2>1, <2>2 DEF Goto, Moves, OncePCs, StopPCs
<1>3. CASE OnceCheck(t)
  <2>1. pc[t] = "o_got" /\ UNCHANGED <<program, fFinished, waitVars, joinVars, initVars, arg>>
    BY <1>3 DEF OnceCheck, unchangedHvm
  <2>2. Goto(t, "o_store") \/ Goto(t, "leave")
    BY <1>3 DEF OnceCheck
  <2> QED BY <1>1, <2>1, <2>2 DEF Goto, Moves, OncePCs
<1>4. CASE OnceCreate(t) \/ OnceLock(t) \/ OnceStore(t) \/ OnceDone(t)
  BY <1>1, <1>4 DEF OnceCreate, OnceLock, OnceStore, OnceDone, Goto, Moves, OncePCs, hvmVars,
                    unchangedHvm
<1>5. CASE Leave(t)
  BY <1>1, <1>5 DEF Leave, Caller, Goto, Moves, OncePCs, unchangedHvm
<1> QED
  BY <1>2, <1>3, <1>4, <1>5 DEF OnceStep

\* hb_threadOnceInit()
LEMMA InitMoves ==
    ASSUME StateOK, NEW t \in Threads, InitStep(t)
    PROVE  /\ Moves({"run", "i_mtx", "i_store"}, {"run", "i_mtx", "i_store"})
           /\ UNCHANGED <<program, fFinished, waitVars, joinVars, onceVars>>
<1>1. pc \in [Threads -> PCs]
  BY DEF StateOK
<1> QED
  BY <1>1 DEF InitStep, OnceInit, OnceInitLock, OnceInitStore, Call, CallAt, Goto, Moves, hvmVars

-----------------------------------------------------------------------------
(* hb_threadOnceInit()                                                     *)

\* Only one thread is between the two stores, and before them nobody has stored.
LEMMA InitializerStep ==
    ASSUME StateOK, OneInitializer, [Next]_vars
    PROVE  OneInitializer' /\ (variable.type # "NIL" => variable' = variable)
<1>1. pc \in [Threads -> PCs] /\ NoThread \notin Threads
  BY MainIsThread DEF StateOK
<1>2. ASSUME UNCHANGED <<s_once_mtx, variable>>,
             \A u \in Threads : pc'[u] = pc[u] \/ pc'[u] # "i_store"
      PROVE  OneInitializer' /\ variable' = variable
  BY <1>2 DEF OneInitializer
<1>3. CASE UNCHANGED vars
  BY <1>2, <1>3 DEF vars, initVars
<1>4. CASE MainStep
  BY <1>2, <1>4, MainMoves DEF Moves, initVars
<1>5. ASSUME NEW t \in Threads, HvmStep(t) \/ EndStep(t) \/ OnceStep(t)
      PROVE  OneInitializer' /\ variable' = variable
  BY <1>2, <1>5, HvmMoves, EndMoves, OnceMoves DEF Moves, initVars, OncePCs
<1>6. ASSUME NEW t \in Threads, WaitStep(t) \/ JoinStep(t)
      PROVE  OneInitializer' /\ variable' = variable
  BY <1>2, <1>6, WaitMoves, JoinMoves DEF Moves, initVars, DealPCs
<1>7. ASSUME NEW t \in Threads, InitStep(t)
      PROVE  OneInitializer' /\ (variable.type # "NIL" => variable' = variable)
  <2>1. CASE OnceInit(t)
    BY <1>1, <1>2, <2>1 DEF OnceInit, Goto, initVars
  <2>2. CASE OnceInitLock(t)
    <3>1. variable \in Item(Threads \cup {NoThread})
      BY DEF StateOK
    <3>2. \A u \in Threads : pc[u] # "i_store"
      BY <1>1, <2>2 DEF OnceInitLock, OneInitializer
    <3>3. [variable EXCEPT !.value = t].type = variable.type
      BY <3>1 DEF Item
    <3> QED BY <1>1, <2>2, <3>2, <3>3 DEF OnceInitLock, OneInitializer, Goto, initVars
  <2>3. CASE OnceInitStore(t)
    BY <1>1, <2>3 DEF OnceInitStore, OneInitializer, Goto
  <2> QED BY <1>7, <2>1, <2>2, <2>3 DEF InitStep
<1> QED
  BY <1>3, <1>4, <1>5, <1>6, <1>7, Groups

-----------------------------------------------------------------------------
(* hb_threadWait()                                                         *)

\* A thread that sleeps although its wait is over will be woken.
WillWake(t) ==
    Enough(arg[t]) => (\E u \in Threads : pc[u] = "signal") \/ EndedUnsignalled(t)

\* It stays so while nobody ends and no signal is given.
LEMMA WillWakeKept ==
    ASSUME NEW t, WillWake(t), fFinished' = fFinished, arg'[t] = arg[t], pc'[t] = pc[t],
           \A u \in Threads : pc[u] = "signal" => pc'[u] = "signal"
    PROVE  WillWake(t)'
<1>1. Finished(arg[t])' = Finished(arg[t])
  BY DEF Finished
<1>2. Enough(arg[t])' <=> Enough(arg[t])
  BY <1>1 DEF Enough
<1> QED
  BY <1>1, <1>2 DEF WillWake, EndedUnsignalled

\* Every step keeps the sleepers counted and the end of a thread audible.
LEMMA SleepersStep ==
    ASSUME StateOK, SleepersCounted, NoLostWakeup, [Next]_vars
    PROVE  SleepersCounted' /\ NoLostWakeup'
<1> DEFINE Goal == SleepersCounted' /\ NoLostWakeup'
<1>1. /\ pc \in [Threads -> PCs] /\ DOMAIN arg = Threads /\ cond \subseteq Threads
      /\ s_waiting_for_threads \in Nat
  BY DEF StateOK
<1>2. /\ \A u \in cond : pc[u] = "w_sleep" /\ WillWake(u)
      /\ cond # {} => s_waiting_for_threads > 0
  BY DEF SleepersCounted, NoLostWakeup, WillWake
<1>3. ASSUME \A u \in cond' : pc'[u] = "w_sleep" /\ WillWake(u)',
             cond' # {} => s_waiting_for_threads' > 0
      PROVE  Goal
  BY <1>3 DEF SleepersCounted, NoLostWakeup, WillWake
<1> HIDE DEF Goal
<1>4. ASSUME cond' \subseteq cond, UNCHANGED <<s_waiting_for_threads, fFinished>>,
             \A u \in Threads : pc[u] \in {"w_sleep", "signal"} =>
               \/ u \notin cond' /\ pc[u] = "w_sleep"
               \/ pc'[u] = pc[u] /\ arg'[u] = arg[u]
      PROVE  Goal
  <2>1. \A u \in Threads : pc[u] = "signal" => pc'[u] = "signal"
    BY <1>4
  <2>2. ASSUME NEW u \in cond' PROVE pc'[u] = "w_sleep" /\ WillWake(u)'
    <3>1. u \in Threads /\ pc[u] = "w_sleep" /\ WillWake(u) /\ pc'[u] = pc[u] /\ arg'[u] = arg[u]
      BY <1>1, <1>2, <1>4
    <3> QED BY <1>4, <2>1, <3>1, WillWakeKept
  <2>3. cond' # {} => s_waiting_for_threads' > 0
    BY <1>2, <1>4
  <2> QED BY <1>3, <2>2, <2>3
<1>5. ASSUME UNCHANGED <<waitVars, fFinished>>,
             \A u \in Threads : pc[u] \in {"w_sleep", "signal"} => pc'[u] = pc[u] /\ arg'[u] = arg[u]
      PROVE  Goal
  BY <1>4, <1>5 DEF waitVars
<1>6. CASE UNCHANGED vars
  <2>1. Goal
    BY <1>5, <1>6 DEF vars, hvmVars
  <2> QED BY <2>1 DEF Goal
<1>7. CASE MainStep
  <2>1. Goal
    BY <1>5, <1>7, MainMoves DEF Moves
  <2> QED BY <2>1 DEF Goal
<1>8. ASSUME NEW t \in Threads, HvmStep(t) \/ JoinStep(t) PROVE Goal
  BY <1>5, <1>8, HvmMoves, JoinMoves DEF Moves, DealPCs
<1>9. ASSUME NEW t \in Threads, OnceStep(t) \/ InitStep(t) PROVE Goal
  BY <1>5, <1>9, OnceMoves, InitMoves DEF Moves, OncePCs
<1>10. ASSUME NEW t \in Threads, WaitStep(t) PROVE Goal
  <2>1. CASE Wait(t)
    BY <1>1, <1>4, <2>1 DEF Wait, Call, CallAt, Goto, hvmVars
  <2>2. CASE WaitTimeout(t) \/ Spurious(t)
    BY <1>4, <2>2 DEF WaitTimeout, Spurious, hvmVars
  <2>3. CASE WaitWoken(t)
    <3>1. UNCHANGED <<waitVars, fFinished, arg>> /\ t \notin cond /\ pc[t] = "w_sleep"
      BY <2>3 DEF WaitWoken, hvmVars
    <3>2. \A u \in Threads \ {t} : pc'[u] = pc[u]
      BY <1>1, <2>3 DEF WaitWoken, Goto
    <3> QED BY <1>4, <3>1, <3>2 DEF waitVars
  <2>4. CASE WaitEnter(t) \/ WaitAgain(t)
    <3>1. pc[t] \in {"w_mtx", "w_lock"} /\ UNCHANGED <<fFinished, arg>>
      BY <2>4 DEF WaitEnter, WaitAgain, hvmVars, unchangedHvm
    <3>2. \A u \in Threads \ {t} : pc'[u] = pc[u]
      BY <1>1, <2>4 DEF WaitEnter, WaitAgain, WaitLoop, Goto
    <3>3. CASE UNCHANGED <<s_waiting_for_threads, cond>>
      BY <1>4, <3>1, <3>2, <3>3
    <3>4. CASE /\ ~Enough(arg[t]) /\ s_waiting_for_threads' = s_waiting_for_threads + 1
               /\ cond' = cond \cup {t} /\ Goto(t, "w_sleep")
      <4>1. ~Enough(arg[t])'
        BY <3>1, <3>4 DEF Enough, Finished
      <4>2. pc'[t] = "w_sleep" /\ WillWake(t)'
        BY <1>1, <3>4, <4>1 DEF Goto, WillWake
      <4>3. \A u \in Threads : pc[u] = "signal" => pc'[u] = "signal"
        BY <3>1, <3>2
      <4>4. ASSUME NEW u \in cond, u # t PROVE pc'[u] = "w_sleep" /\ WillWake(u)'
        <5>1. pc'[u] = pc[u] /\ arg'[u] = arg[u] /\ WillWake(u) /\ pc[u] = "w_sleep"
          BY <1>1, <1>2, <3>1, <3>2, <4>4
        <5> QED BY <3>1, <4>3, <5>1, WillWakeKept
      <4>5. s_waiting_for_threads' > 0
        BY <1>1, <3>4
      <4> QED BY <1>3, <3>4, <4>2, <4>4, <4>5
    <3> QED BY <2>4, <3>3, <3>4 DEF WaitEnter, WaitAgain, WaitLoop
  <2> QED BY <1>10, <2>1, <2>2, <2>3, <2>4 DEF WaitStep
<1>11. ASSUME NEW t \in Threads, EndStep(t) PROVE Goal
  <2>1. CASE ThreadQuit(t)
    <3>1. /\ UNCHANGED <<arg, cond, s_waiting_for_threads>> /\ pc[t] = "run"
          /\ fFinished' = fFinished \cup {t}
      BY <2>1 DEF ThreadQuit, waitVars
    <3>2. (\A u \in Threads \ {t} : pc'[u] = pc[u]) /\ (t \notin Foreign => pc'[t] = "signal")
      BY <1>1, <2>1 DEF ThreadQuit, Goto
    <3>3. ASSUME NEW u \in cond PROVE pc'[u] = "w_sleep" /\ WillWake(u)'
      <4>1. u # t /\ u \in Threads /\ pc'[u] = "w_sleep" /\ arg'[u] = arg[u] /\ WillWake(u)
        BY <1>1, <1>2, <3>1, <3>2
      <4>2. Finished(arg[u]) \subseteq Finished(arg[u])'
        BY <3>1 DEF Finished
      <4>3. EndedUnsignalled(u) => EndedUnsignalled(u)'
        BY <4>1, <4>2 DEF EndedUnsignalled
      <4>4. \A w \in Threads : pc[w] = "signal" => pc'[w] = "signal"
        BY <3>1, <3>2
      <4>5. CASE Enough(arg[u])
        BY <4>1, <4>3, <4>4, <4>5 DEF WillWake
      <4>6. CASE t \notin Foreign
        BY <3>2, <4>1, <4>6 DEF WillWake
      <4>7. CASE ~Enough(arg[u]) /\ t \in Foreign /\ Enough(arg[u])'
        <5>1. Finished(arg[u])' # Finished(arg[u])
          BY <4>1, <4>7 DEF Enough
        <5>2. PICK i \in Finished(arg[u])' : i \notin Finished(arg[u])
          BY <4>2, <5>1
        <5>3. arg[u].pThreads[i] = t
          BY <3>1, <5>2 DEF Finished
        <5> QED BY <3>1, <4>1, <4>7, <5>2, <5>3 DEF WillWake, EndedUnsignalled
      <4> QED BY <4>1, <4>5, <4>6, <4>7 DEF WillWake
    <3> QED BY <1>2, <1>3, <3>1, <3>3
  <2>2. CASE SignalWaiting(t)
    <3>1. cond' = {}
      BY <1>1, <1>2, <2>2 DEF SignalWaiting
    <3> QED BY <1>3, <3>1
  <2> QED BY <1>11, <2>1, <2>2 DEF EndStep
<1> QED
  BY <1>6, <1>7, <1>8, <1>9, <1>10, <1>11, Groups DEF Goal

-----------------------------------------------------------------------------
(* hb_threadJoin()                                                         *)

JoinPCs == DealPCs \cup {"j_lock", "signal", "none"}

ResultFound ==
    /\ \A t \in Threads : pc[t] \in {"j_clear", "j_lock"} => arg[t] \in pResult \cup misused
    /\ misused \subseteq shared

JoinInv == HandlesKept /\ CallersKnow /\ OverlapsRecorded /\ ResultFound

\* The handles and results after a step of one thread that has not ended: an old
\* handle in th_h is about to be cleared by another thread, or by this one.
LEMMA HandlesStep ==
    ASSUME HandlesKept, NEW t \in Threads, UNCHANGED program,
           \A v \in Threads \ {t} : pc'[v] = pc[v] /\ arg'[v] = arg[v],
           pc'[t] \notin {"signal", "none"},
           th_h' \subseteq th_h, handles' \subseteq handles, pResult \cap handles' \subseteq pResult',
           pc[t] \in {"j_clear", "d_clear"} => arg[t] \notin th_h',
           handles' # handles =>
              /\ handles' = handles \ {arg'[t]}
              /\ pc'[t] \in {"j_clear", "d_clear"}
    PROVE  HandlesKept'
<1>1. (th_h \cup handles)' \subseteq (Workers \cap Started)'
  BY DEF HandlesKept, Started
<1>2. ASSUME NEW u \in th_h', u \notin handles'
      PROVE  \E v \in Threads : pc'[v] \in {"j_clear", "d_clear"} /\ arg'[v] = u
  <2>1. CASE u \in handles
    BY <1>2, <2>1
  <2>2. CASE u \notin handles
    <3>1. PICK v \in Threads : pc[v] \in {"j_clear", "d_clear"} /\ arg[v] = u
      BY <1>2, <2>2 DEF HandlesKept
    <3>2. v # t
      BY <1>2, <3>1
    <3> QED BY <3>1, <3>2
  <2> QED BY <2>1, <2>2
<1>3. ASSUME NEW u \in handles', pc'[u] \in {"signal", "none"} PROVE u \in pResult'
  <2>1. u \in Threads /\ u # t /\ u \in handles
    BY <1>1, <1>3, MainIsThread
  <2> QED BY <1>3, <2>1 DEF HandlesKept
<1> QED
  BY <1>1, <1>2, <1>3 DEF HandlesKept

\* The test of th_h: who else deals with the thread is recorded.
LEMMA TestStep ==
    ASSUME StateOK, JoinInv, NEW t \in Threads, pc[t] = "run", NEW u \in Workers,
           NEW l \in {"j_call", "d_call"}, TestHandle(t, u, l), UNCHANGED program
    PROVE  JoinInv'
<1> USE DEF DealPCs
<1>1. pc \in [Threads -> PCs] /\ DOMAIN arg = Threads
  BY DEF StateOK
<1>2. HandlesKept /\ CallersKnow /\ OverlapsRecorded /\ ResultFound /\ Started' = Started
  BY DEF JoinInv, Started
<1>3. /\ \A v \in Threads \ {t} : pc'[v] = pc[v] /\ arg'[v] = arg[v]
      /\ arg'[t] = u /\ UNCHANGED <<th_h, handles, pResult, misused>>
      /\ shared \subseteq shared'
  BY <1>1 DEF TestHandle, Goto
<1>4. CASE u \notin th_h
  <2>1. pc'[t] = "run" /\ pc' = pc /\ shared' = shared
    BY <1>1, <1>4 DEF TestHandle, Goto
  <2>2. HandlesKept'
    BY <1>2, <1>3, <2>1 DEF HandlesKept
  <2>3. CallersKnow' /\ ResultFound'
    BY <1>2, <1>3, <2>1 DEF CallersKnow, ResultFound
  <2>4. OverlapsRecorded'
    BY <1>2, <1>3, <2>1 DEF OverlapsRecorded
  <2> QED BY <2>2, <2>3, <2>4 DEF JoinInv
<1>5. CASE u \in th_h
  <2>1. pc'[t] = l /\ u \in Workers \cap Started
    BY <1>1, <1>2, <1>5 DEF TestHandle, Goto, HandlesKept
  <2>2. \A v \in Threads : Deals(v, u) => u \in shared'
    BY <1>5 DEF TestHandle
  <2>3. u \in handles \cup shared'
    BY <1>2, <1>5, <2>2 DEF HandlesKept, Deals
  <2>4. HandlesKept'
    BY <1>2, <1>3, <2>1, HandlesStep
  <2>5. CallersKnow' /\ ResultFound'
    BY <1>2, <1>3, <2>1, <2>3 DEF CallersKnow, ResultFound
  <2>6. OverlapsRecorded'
    <3>1. ASSUME NEW v \in Threads \ {t}, arg[v] = u, pc[v] \in DealPCs PROVE u \in shared'
      BY <2>2, <3>1 DEF Deals
    <3> QED BY <1>2, <1>3, <2>1, <3>1 DEF OverlapsRecorded
  <2> QED BY <2>4, <2>5, <2>6 DEF JoinInv
<1> QED
  BY <1>4, <1>5

\* A step of one thread with its handle: what remains to be shown of it.
LEMMA DealStep ==
    ASSUME StateOK, JoinInv, NEW t \in Threads, UNCHANGED <<program, arg, shared>>,
           pc[t] \in DealPCs \cup {"j_lock"},
           \A v \in Threads \ {t} : pc'[v] = pc[v],
           pc'[t] \in {"run", "leave", "j_join", "j_clear", "j_lock", "d_clear"},
           pc'[t] \in {"j_join", "j_clear", "d_clear"} => pc[t] \in DealPCs,
           th_h' \subseteq th_h, handles' \subseteq handles, misused \subseteq misused',
           HandlesKept', ResultFound',
           pc'[t] = "j_join" => arg[t] \in handles' /\ \A v \in Threads : ~Joining(v, arg[t]),
           pc'[t] \in {"j_clear", "j_lock"} => arg[t] \notin handles',
           \A u \in handles \ handles' :
              u = arg[t] /\ pc[t] \in DealPCs /\ \A v \in Threads \ {t} : ~Joining(v, u),
           pc'[t] \in {"j_clear", "j_lock"} /\ pc[t] \notin {"j_clear", "j_lock"} =>
              \A v \in Threads \ {t} :
                 arg[v] = arg[t] /\ pc[v] \in {"j_clear", "j_lock"} => arg[t] \in misused'
    PROVE  JoinInv'
<1> USE DEF DealPCs
<1>1. /\ CallersKnow /\ OverlapsRecorded /\ Started' = Started /\ arg' = arg /\ shared' = shared
  BY DEF JoinInv, Started
<1>2. CallersKnow'
  <2> SUFFICES ASSUME NEW v \in Threads
               PROVE  /\ pc'[v] \in DealPCs \cup {"j_lock"} => arg[v] \in Workers \cap Started
                      /\ pc'[v] \in {"j_call", "d_call"} => arg[v] \in handles' \cup shared
                      /\ pc'[v] = "j_join" => arg[v] \in handles'
                      /\ pc'[v] \in {"j_clear", "j_lock"} => arg[v] \notin handles'
    BY <1>1 DEF CallersKnow
  <2>1. CASE v = t
    BY <1>1, <2>1 DEF CallersKnow
  <2>2. CASE v # t
    <3>1. CASE arg[v] \in handles \ handles'
      <4>1. arg[v] = arg[t] /\ pc[t] \in DealPCs /\ ~Joining(v, arg[v])
        BY <2>2, <3>1
      <4>2. pc[v] \in DealPCs => arg[v] \in shared
        BY <1>1, <2>2, <4>1 DEF OverlapsRecorded
      <4> QED BY <1>1, <2>2, <3>1, <4>1, <4>2 DEF CallersKnow, Joining
    <3>2. CASE arg[v] \notin handles \ handles'
      BY <1>1, <2>2, <3>2 DEF CallersKnow
    <3> QED BY <3>1, <3>2
  <2> QED BY <2>1, <2>2
<1>3. OverlapsRecorded'
  <2>1. ASSUME NEW v \in Threads \ {t}, arg[v] = arg[t]
        PROVE  /\ pc'[t] \in DealPCs /\ pc[v] \in DealPCs => arg[t] \in shared
               /\ ~(pc'[t] = "j_join" /\ pc[v] = "j_join")
               /\ {pc'[t], pc[v]} \subseteq {"j_clear", "j_lock"} => arg[t] \in misused'
    <3>1. /\ pc[t] \in DealPCs /\ pc[v] \in DealPCs => arg[t] \in shared
          /\ {pc[t], pc[v]} \subseteq {"j_clear", "j_lock"} => arg[t] \in misused
      BY <1>1, <2>1 DEF OverlapsRecorded
    <3> QED BY <2>1, <3>1 DEF Joining
  <2>2. ASSUME NEW v \in Threads \ {t}, NEW w \in Threads \ {t}, v # w, arg[v] = arg[w]
        PROVE  /\ pc[v] \in DealPCs /\ pc[w] \in DealPCs => arg[v] \in shared
               /\ ~(pc[v] = "j_join" /\ pc[w] = "j_join")
               /\ {pc[v], pc[w]} \subseteq {"j_clear", "j_lock"} => arg[v] \in misused'
    BY <1>1, <2>2 DEF OverlapsRecorded
  <2> QED BY <1>1, <2>1, <2>2 DEF OverlapsRecorded
<1> QED
  BY <1>2, <1>3 DEF JoinInv

\* hb_threadJoin() and hb_threadDetach()
LEMMA HandleStep == ASSUME StateOK, JoinInv, NEW t \in Threads, JoinStep(t) PROVE JoinInv'
<1> DEFINE u == arg[t]
<1> USE DEF DealPCs
<1>1. pc \in [Threads -> PCs] /\ DOMAIN arg = Threads
  BY DEF StateOK
<1>2. /\ HandlesKept /\ CallersKnow /\ OverlapsRecorded /\ ResultFound
  BY DEF JoinInv
<1>3. Started' = Started /\ program' = program
  BY JoinMoves DEF Started
<1>4. CASE Join(t) \/ Detach(t)
  <2>1. PICK w \in Workers : TestHandle(t, w, "j_call") \/ TestHandle(t, w, "d_call")
    BY <1>4 DEF Join, Detach
  <2>2. pc[t] = "run"
    BY <1>4 DEF Join, Detach, Call, CallAt
  <2> QED BY <1>3, <2>1, <2>2, TestStep
<1>5. CASE JoinCall(t)
  <2>1. /\ pc[t] = "j_call" /\ UNCHANGED <<arg, th_h, handles, pResult, shared>>
        /\ misused \subseteq misused' /\ misused' \subseteq misused \cup {u}
        /\ u \notin handles => u \in misused' /\ u \in shared
    BY <1>2, <1>5 DEF JoinCall, CallersKnow
  <2>2. \A v \in Threads \ {t} : pc'[v] = pc[v]
    BY <1>1, <1>5 DEF JoinCall, Goto
  <2>3. \/ u \in handles /\ pc'[t] = "leave" /\ misused' = misused
        \/ u \in handles /\ pc'[t] = "j_join" /\ ~Refused(t, u) /\ misused' = misused
        \/ u \notin handles /\ pc'[t] \in {"leave", "j_clear"}
    BY <1>1, <1>5 DEF JoinCall, Goto
  <2>4. HandlesKept'
    BY <1>2, <1>3, <2>1, <2>2, <2>3, HandlesStep
  <2>5. ResultFound'
    BY <1>2, <2>1, <2>2, <2>3 DEF ResultFound
  <2> QED BY <1>3, <2>1, <2>2, <2>3, <2>4, <2>5, DealStep DEF Refused
<1>6. CASE Joined(t)
  <2>1. /\ pc[t] = "j_join" /\ pc[u] = "none" /\ UNCHANGED <<arg, th_h, pResult, misused, shared>>
        /\ handles' = handles \ {u} /\ u \in handles /\ u \in pResult
    BY <1>2, <1>6 DEF Joined, CallersKnow, HandlesKept
  <2>2. pc'[t] = "j_clear" /\ \A v \in Threads \ {t} : pc'[v] = pc[v]
    BY <1>1, <1>6 DEF Joined, Goto
  <2>3. HandlesKept'
    BY <1>2, <1>3, <2>1, <2>2, HandlesStep
  <2>4. ResultFound'
    BY <1>2, <2>1, <2>2 DEF ResultFound
  <2>5. \A v \in Threads \ {t} :
          ~Joining(v, u) /\ (pc[v] \in {"j_clear", "j_lock"} => arg[v] # u)
    BY <1>2, <2>1 DEF OverlapsRecorded, CallersKnow, Joining
  <2> QED BY <1>3, <2>1, <2>2, <2>3, <2>4, <2>5, DealStep
<1>7. CASE JoinClear(t) \/ DetachClear(t)
  <2>1. /\ pc[t] \in {"j_clear", "d_clear"} /\ th_h' = th_h \ {u}
        /\ UNCHANGED <<arg, handles, pResult, misused, shared>>
    BY <1>7 DEF JoinClear, DetachClear
  <2>2. /\ pc'[t] = IF pc[t] = "j_clear" THEN "j_lock" ELSE "run"
        /\ \A v \in Threads \ {t} : pc'[v] = pc[v]
    BY <1>1, <1>7 DEF JoinClear, DetachClear, Goto
  <2>3. HandlesKept'
    BY <1>2, <1>3, <2>1, <2>2, HandlesStep
  <2>4. ResultFound'
    BY <1>2, <2>1, <2>2 DEF ResultFound
  <2>5. pc[t] = "j_clear" => u \notin handles
    BY <1>2 DEF CallersKnow
  <2> QED BY <1>3, <2>1, <2>2, <2>3, <2>4, <2>5, DealStep
<1>8. CASE JoinResult(t)
  <2>1. /\ pc[t] = "j_lock" /\ UNCHANGED <<arg, th_h, handles, misused, shared>>
        /\ pResult' = pResult \ {u} /\ u \notin handles
    BY <1>2, <1>8 DEF JoinResult, CallersKnow
  <2>2. pc'[t] = "run" /\ \A v \in Threads \ {t} : pc'[v] = pc[v]
    BY <1>1, <1>8 DEF JoinResult, Goto
  <2>3. HandlesKept'
    BY <1>2, <1>3, <2>1, <2>2, HandlesStep
  <2>4. ResultFound'
    <3>1. \A v \in Threads \ {t} : arg[v] = u /\ pc[v] \in {"j_clear", "j_lock"} => u \in misused
      BY <1>2, <2>1 DEF OverlapsRecorded
    <3> QED BY <1>2, <2>1, <2>2, <3>1 DEF ResultFound
  <2> QED BY <1>3, <2>1, <2>2, <2>3, <2>4, DealStep
<1>9. CASE DetachCall(t)
  <2>1. /\ pc[t] = "d_call" /\ UNCHANGED <<arg, th_h, pResult, shared>>
        /\ misused \subseteq misused' /\ misused' \subseteq misused \cup {u}
        /\ u \notin handles => handles' = handles /\ u \in shared
        /\ u \in handles => misused' = misused
        /\ \/ handles' = handles
           \/ handles' = handles \ {u} /\ \A v \in Threads : ~Joining(v, u)
    BY <1>2, <1>9 DEF DetachCall, CallersKnow
  <2>2. \A v \in Threads \ {t} : pc'[v] = pc[v]
    BY <1>1, <1>9 DEF DetachCall, Goto
  <2>3. pc'[t] \in {"run", "d_clear"} /\ (u \in handles => pc'[t] = "d_clear")
    BY <1>1, <1>9 DEF DetachCall, Goto
  <2>4. HandlesKept'
    BY <1>2, <1>3, <2>1, <2>2, <2>3, HandlesStep
  <2>5. ResultFound'
    BY <1>2, <2>1, <2>2, <2>3 DEF ResultFound
  <2> QED BY <1>3, <2>1, <2>2, <2>3, <2>4, <2>5, DealStep
<1> QED
  BY <1>4, <1>5, <1>6, <1>7, <1>8, <1>9 DEF JoinStep

\* Every step keeps what is known about the handles.
LEMMA JoinerStep == ASSUME StateOK, JoinInv, [Next]_vars PROVE JoinInv'
<1>1. /\ pc \in [Threads -> PCs] /\ Workers \subseteq Threads
  BY MainIsThread DEF StateOK
<1>2. ASSUME UNCHANGED <<program, joinVars>>,
             \A u \in Threads : \/ pc'[u] = pc[u] /\ arg'[u] = arg[u]
                                \/ pc[u] \notin JoinPCs /\ pc'[u] \notin JoinPCs
      PROVE  JoinInv'
  <2>1. Started' = Started /\ UNCHANGED <<th_h, handles, pResult, misused, shared>>
    BY <1>2 DEF Started, joinVars
  <2>2. \A u \in Threads : \/ pc'[u] = pc[u] /\ arg'[u] = arg[u]
                           \/ pc[u] \notin JoinPCs /\ pc'[u] \notin JoinPCs
    BY <1>2
  <2>3. HandlesKept'
    BY <1>1, <2>1, <2>2 DEF JoinInv, HandlesKept, JoinPCs, DealPCs
  <2>4. CallersKnow' /\ ResultFound'
    BY <2>1, <2>2 DEF JoinInv, CallersKnow, ResultFound, JoinPCs, DealPCs
  <2>5. OverlapsRecorded'
    BY <2>1, <2>2 DEF JoinInv, OverlapsRecorded, JoinPCs, DealPCs
  <2> QED BY <2>3, <2>4, <2>5 DEF JoinInv
<1>3. CASE UNCHANGED vars
  BY <1>2, <1>3 DEF vars, hvmVars
<1>4. CASE MainStep
  BY <1>2, <1>4, MainMoves DEF Moves, JoinPCs, DealPCs
<1>5. ASSUME NEW t \in Threads, HvmStep(t) \/ WaitStep(t) PROVE JoinInv'
  BY <1>2, <1>5, HvmMoves, WaitMoves DEF Moves, JoinPCs, DealPCs
<1>6. ASSUME NEW t \in Threads, OnceStep(t) \/ InitStep(t) PROVE JoinInv'
  BY <1>2, <1>6, OnceMoves, InitMoves DEF Moves, OncePCs, JoinPCs, DealPCs
<1>7. ASSUME NEW t \in Threads, EndStep(t) PROVE JoinInv'
  <2>1. UNCHANGED <<program, arg, th_h, handles, misused, shared>> /\ Started' = Started
    BY <1>7 DEF EndStep, ThreadQuit, SignalWaiting, hvmVars, joinVars, Started
  <2>2. /\ \A u \in Threads \ {t} : pc'[u] = pc[u]
        /\ pc[t] \in {"run", "signal"} /\ pc'[t] \in {"signal", "none"}
    BY <1>1, <1>7 DEF EndStep, ThreadQuit, SignalWaiting, Goto
  <2>3. \/ pResult' = pResult \cup {t}
        \/ pResult' = pResult /\ pc[t] = "signal"
    BY <1>7 DEF EndStep, ThreadQuit, SignalWaiting, joinVars
  <2>4. HandlesKept'
    BY <1>1, <2>1, <2>2, <2>3 DEF JoinInv, HandlesKept
  <2>5. CallersKnow' /\ ResultFound'
    BY <2>1, <2>2, <2>3 DEF JoinInv, CallersKnow, ResultFound, DealPCs
  <2>6. OverlapsRecorded'
    BY <2>1, <2>2 DEF JoinInv, OverlapsRecorded, DealPCs
  <2> QED BY <2>4, <2>5, <2>6 DEF JoinInv
<1>8. ASSUME NEW t \in Threads, JoinStep(t) PROVE JoinInv'
  BY <1>8, HandleStep
<1> QED
  BY <1>3, <1>4, <1>5, <1>6, <1>7, <1>8, Groups

-----------------------------------------------------------------------------
(* hb_threadOnce()                                                         *)

\* OwnerHasFrames and ControlTells for one thread and one control.
FramesOK(t) ==
    IF owner = t
      THEN /\ pc[t] \in {"o_got", "o_store", "o_eval", "leave"}
           /\ level = Len(frames[t]) /\ level > 0
           /\ \A i, j \in DOMAIN frames[t] : frames[t][i] = frames[t][j] => i = j
           /\ IF pc[t] = "o_got" THEN level = 1
                ELSE \A i \in DOMAIN frames[t] : action[frames[t][i]] = "running"
      ELSE /\ pc[t] \notin {"o_got", "o_store", "o_eval"}
           /\ IF pc[t] \in {"o_create", "o_lock"} THEN Len(frames[t]) = 1 ELSE frames[t] = <<>>

RunBy(u, c) ==
    /\ u # NoThread /\ pc[u] # "o_got"
    /\ \E i \in DOMAIN frames[u] : frames[u][i] = c
    /\ control[c].value => pc[u] = "o_store" /\ Current(u) = c

Tells(c) ==
    /\ control[c].type = "NIL" <=> action[c] = "no"
    /\ first[c] = IF control[c].type = "NIL" THEN 0 ELSE 1
    /\ action[c] = "running" => RunBy(owner, c)

OnceInv == OwnerHasFrames /\ ControlTells /\ OthersAreStopped

\* The invariant, one thread and one control at a time.
LEMMA OnceInvSplit ==
    OnceInv <=> /\ \A t \in Threads : FramesOK(t)
                /\ \A c \in Controls : Tells(c)
                /\ "other" \notin early
  BY DEF OnceInv, OwnerHasFrames, ControlTells, OthersAreStopped, FramesOK, Tells, RunBy

\* The same of the next state.
LEMMA OnceInvNext ==
    ASSUME \A t \in Threads : FramesOK(t)', \A c \in Controls : Tells(c)', "other" \notin early'
    PROVE  OnceInv'
<1>1. OwnerHasFrames'
  BY DEF OwnerHasFrames, FramesOK
<1>2. ControlTells'
  BY DEF ControlTells, Tells, RunBy, Current
<1> QED
  BY <1>1, <1>2 DEF OnceInv, OthersAreStopped

\* The calls of other functions do not concern it.
LEMMA OnceApart ==
    ASSUME StateOK, OnceInv, UNCHANGED onceVars,
           \A u \in Threads : \/ pc'[u] = pc[u]
                              \/ pc[u] \notin OncePCs /\ pc'[u] \notin OncePCs \ {"leave"}
    PROVE  OnceInv'
<1>1. UNCHANGED <<owner, level, frames, control, action, first, early>>
  BY DEF onceVars
<1>2. owner \in Threads \cup {NoThread} /\ \A t \in Threads : FramesOK(t)
  BY OnceInvSplit DEF StateOK
<1>3. \A t \in Threads : FramesOK(t)'
  BY <1>1, <1>2 DEF FramesOK, OncePCs
<1>4. owner # NoThread => pc'[owner] = pc[owner]
  BY <1>2 DEF FramesOK, OncePCs
<1>5. \A c \in Controls : Tells(c)'
  <2> TAKE c \in Controls
  <2>1. Tells(c)
    BY OnceInvSplit
  <2>2. RunBy(owner, c) => RunBy(owner, c)'
    BY <1>1, <1>4 DEF RunBy, Current
  <2> QED BY <1>1, <2>1, <2>2 DEF Tells
<1>6. "other" \notin early'
  BY <1>1, OnceInvSplit
<1> QED
  BY <1>3, <1>5, <1>6, OnceInvNext

\* A first call marks its control and no other.
LEMMA FindsNilProps ==
    ASSUME StateOK, NEW c \in Controls, NEW b \in BOOLEAN, Tells(c), FindsNil(c, b)
    PROVE  /\ action[c] = "no" /\ control'[c].type = "SET" /\ first'[c] = 1
           /\ action'[c] = IF b THEN "running" ELSE "complete"
           /\ \A d \in Controls \ {c} :
                control'[d] = control[d] /\ action'[d] = action[d] /\ first'[d] = first[d]
<1>1. /\ control \in [Controls -> Item(BOOLEAN)] /\ first \in [Controls -> Nat]
      /\ action \in [Controls -> {"no", "running", "complete", "cut"}]
  BY DEF StateOK
<1> DEFINE new == IF b THEN [control[c] EXCEPT !.type = "SET"] ELSE [type |-> "SET", value |-> TRUE]
<1>2. control[c] \in Item(BOOLEAN)
  BY <1>1
<1>3. new.type = "SET"
  BY <1>2 DEF Item
<1>4. control' = [control EXCEPT ![c] = new]
  BY DEF FindsNil
<1> HIDE DEF new
<1>5. control'[c].type = "SET" /\ \A d \in Controls \ {c} : control'[d] = control[d]
  BY <1>1, <1>3, <1>4
<1>6. /\ action'[c] = IF b THEN "running" ELSE "complete"
      /\ \A d \in Controls \ {c} : action'[d] = action[d]
  BY <1>1 DEF FindsNil
<1>7. first[c] = 0 /\ action[c] = "no" /\ first' = [first EXCEPT ![c] = first[c] + 1]
  BY DEF FindsNil, Tells
<1>8. first'[c] = 1 /\ \A d \in Controls \ {c} : first'[d] = first[d]
  BY <1>1, <1>7
<1> QED
  BY <1>5, <1>6, <1>7, <1>8

\* While the mutex is free, or its owner has just got it, no action runs.
LEMMA NothingRuns ==
    ASSUME OnceInv, owner = NoThread \/ pc[owner] = "o_got"
    PROVE  \A c \in Controls : action[c] # "running"
  BY OnceInvSplit DEF Tells, RunBy

\* A call whose test fails returns .F. rightly, or in a known exception.
LEMMA TestFailsStep ==
    ASSUME StateOK, OnceInv, NEW t \in Threads, NEW c \in Controls, OnceTestFails(t, c)
    PROVE  OnceInv'
<1>1. UNCHANGED <<pc, owner, level, frames, control, action, first>>
  BY DEF OnceTestFails
<1>2. "other" \notin early /\ Tells(c) /\ owner \in Threads \cup {NoThread}
  BY OnceInvSplit DEF StateOK
<1>3. control[c].type # "NIL" /\ (owner = t \/ control[c].value)
  BY DEF OnceTestFails, MayBeFirst
<1>4. action[c] \in {"no", "running", "complete", "cut"}
  BY DEF StateOK
<1>5. CASE action[c] = "running"
  <2>1. RunBy(owner, c)
    BY <1>2, <1>5 DEF Tells
  <2>2. CASE owner = t
    <3>1. early' = early
      BY <2>1, <2>2 DEF RunBy, OnceTestFails, ReturnsFalse
    <3> QED BY <1>1, <1>2, <3>1 DEF OnceInv, OwnerHasFrames, ControlTells, OthersAreStopped, Current
  <2>3. CASE control[c].value
    <3>1. Torn(c)
      BY <1>2, <2>1, <2>3 DEF RunBy, Torn
    <3>2. early' \in {early, early \cup {"torn"}}
      BY <1>5, <3>1 DEF OnceTestFails, ReturnsFalse
    <3>3. "other" \notin early'
      BY <1>2, <3>2
    <3> QED BY <1>1, <3>3 DEF OnceInv, OwnerHasFrames, ControlTells, OthersAreStopped, Current
  <2> QED BY <1>3, <2>2, <2>3
<1>6. CASE action[c] # "running"
  <2>1. action[c] \in {"complete", "cut"}
    BY <1>2, <1>3, <1>4, <1>6 DEF Tells
  <2>2. early' \in {early, early \cup {"cut"}}
    BY <2>1 DEF OnceTestFails, ReturnsFalse
  <2>3. "other" \notin early'
    BY <1>2, <2>2
  <2> QED BY <1>1, <2>3 DEF OnceInv, OwnerHasFrames, ControlTells, OthersAreStopped, Current
<1> QED
  BY <1>5, <1>6

\* What a step of t must show, when nobody else moves and no other frames change.
LEMMA OnceStepOf ==
    ASSUME StateOK, OnceInv, NEW t \in Threads,
           \A u \in Threads \ {t} : pc'[u] = pc[u] /\ frames'[u] = frames[u],
           (owner \in {t, NoThread} /\ owner' \in {t, NoThread}) \/ UNCHANGED <<owner, level, action>>,
           FramesOK(t)', \A c \in Controls : Tells(c)', "other" \notin early'
    PROVE  OnceInv'
<1>1. \A u \in Threads \ {t} : FramesOK(u)
  BY OnceInvSplit
<1>2. \A u \in Threads \ {t} : FramesOK(u)'
  <2>1. CASE owner \in {t, NoThread} /\ owner' \in {t, NoThread}
    BY <1>1, <2>1, MainIsThread DEF FramesOK
  <2>2. CASE UNCHANGED <<owner, level, action>>
    BY <1>1, <2>2 DEF FramesOK
  <2> QED BY <2>1, <2>2
<1> QED
  BY <1>2, OnceInvNext

\* A call that has to lock the mutex first.
LEMMA MustLockStep ==
    ASSUME StateOK, OnceInv, NEW t \in Threads, NEW c \in Controls, pc[t] \in StopPCs,
           OnceMustLock(t, c)
    PROVE  OnceInv'
<1>1. /\ UNCHANGED <<owner, level, control, action, first, early>> /\ owner # t
      /\ frames' = [frames EXCEPT ![t] = <<c>> \o @]
  BY DEF OnceMustLock
<1>2. /\ FramesOK(t) /\ "other" \notin early /\ \A d \in Controls : Tells(d)
  BY OnceInvSplit
<1>3. pc[t] = "run" /\ frames[t] = <<>>
  BY <1>1, <1>2 DEF FramesOK, StopPCs
<1>4. /\ pc'[t] \in {"o_lock", "o_create"}
      /\ \A u \in Threads \ {t} : pc'[u] = pc[u] /\ frames'[u] = frames[u]
  BY <1>1 DEF OnceMustLock, Goto, StateOK
<1>5. Len(frames'[t]) = 1
  <2>1. <<>> \in Seq(Controls) /\ Len(<<>>) = 0
    BY EmptySeq
  <2>2. Len(<<c>> \o <<>>) = Len(<<>>) + 1
    BY <2>1, PushProps
  <2>3. frames'[t] = <<c>> \o <<>>
    BY <1>1, <1>3 DEF StateOK
  <2> QED BY <2>1, <2>2, <2>3
<1>6. FramesOK(t)'
  BY <1>1, <1>4, <1>5 DEF FramesOK
<1>7. \A d \in Controls : Tells(d)'
  <2> TAKE d \in Controls
  <2>1. owner \in Threads \cup {NoThread}
    BY DEF StateOK
  <2>2. RunBy(owner, d) => RunBy(owner, d)'
    BY <1>1, <1>4, <2>1 DEF RunBy, Current
  <2> QED BY <1>1, <1>2, <2>2 DEF Tells
<1> QED
  BY <1>1, <1>2, <1>4, <1>6, <1>7, OnceStepOf

\* The owner of the mutex, in an action or with the mutex just locked, is the
\* first to call for a control and begins its action.
LEMMA BeginStep ==
    ASSUME StateOK, OnceInv, NEW t \in Threads, NEW c \in Controls, owner = t,
           FindsNil(c, TRUE), Goto(t, "o_store"), UNCHANGED <<owner, early>>,
           \/ /\ pc[t] = "o_eval" /\ level' = level + 1
              /\ frames' = [frames EXCEPT ![t] = <<c>> \o @]
           \/ pc[t] = "o_got" /\ UNCHANGED <<level, frames>> /\ Current(t) = c
    PROVE  OnceInv'
<1> DEFINE s == frames[t]
           r == frames'[t]
<1>1. /\ pc \in [Threads -> PCs] /\ DOMAIN frames = Threads /\ s \in Seq(Controls)
      /\ NoThread \notin Threads /\ level \in Nat
  BY MainIsThread DEF StateOK
<1>2. /\ FramesOK(t) /\ "other" \notin early /\ \A d \in Controls : Tells(d)
  BY OnceInvSplit
<1>3. /\ level = Len(s) /\ level > 0 /\ DOMAIN s = 1 .. level /\ Head(s) = s[1]
      /\ \A i, j \in DOMAIN s : s[i] = s[j] => i = j
      /\ IF pc[t] = "o_got" THEN level = 1 ELSE \A i \in DOMAIN s : action[s[i]] = "running"
  BY <1>2, OwnerProps DEF FramesOK, OnceInv, Current
<1>4. /\ action[c] = "no" /\ control'[c].type = "SET" /\ first'[c] = 1 /\ action'[c] = "running"
      /\ \A d \in Controls \ {c} :
           control'[d] = control[d] /\ action'[d] = action[d] /\ first'[d] = first[d]
  BY <1>2, FindsNilProps
<1>5. /\ pc'[t] = "o_store"
      /\ \A u \in Threads \ {t} : pc'[u] = pc[u] /\ frames'[u] = frames[u]
  BY <1>1 DEF Goto
<1>6. /\ level' = Len(r) /\ level' > 0 /\ Head(r) = c /\ DOMAIN r = 1 .. level'
      /\ r[1] = c /\ level' \in Nat
      /\ \A i \in 1 .. level' : i # 1 => r[i] \in Controls \ {c} /\ action[r[i]] = "running"
      /\ \A i, j \in 1 .. level' : r[i] = r[j] => i = j
      /\ pc[t] = "o_eval" => \A i \in 1 .. level : r[i + 1] = s[i] /\ i + 1 \in 1 .. level'
  <2>1. CASE /\ pc[t] = "o_eval" /\ level' = level + 1
             /\ frames' = [frames EXCEPT ![t] = <<c>> \o @]
    <3>1. r = <<c>> \o s
      BY <1>1, <2>1
    <3>2. /\ r \in Seq(Controls) /\ Len(r) = Len(s) + 1 /\ Len(s) \in Nat
          /\ Head(r) = c /\ r[1] = c /\ \A i \in 1 .. Len(s) : r[i + 1] = s[i]
      <4> HIDE DEF r, s
      <4> QED BY <1>1, <3>1, PushProps
    <3> HIDE DEF r, s
    <3>3. DOMAIN r = 1 .. level' /\ level' = Len(r) /\ level' > 0 /\ level' \in Nat
      BY <1>3, <2>1, <3>2, LenProperties
    <3>4. \A i \in 1 .. level' : i # 1 => /\ i - 1 \in 1 .. level /\ r[i] = s[i - 1]
                                          /\ action[r[i]] = "running"
      <4> TAKE i \in 1 .. level'
      <4> HAVE i # 1
      <4>1. i - 1 \in 1 .. Len(s) /\ (i - 1) + 1 = i
        BY <3>2, <3>3
      <4>2. r[i] = s[i - 1]
        BY <3>2, <4>1
      <4> QED BY <1>3, <2>1, <4>1, <4>2
    <3>5. \A i \in 1 .. level' : i # 1 => r[i] \in Controls
      <4>1. \A k \in 1 .. level : s[k] \in Controls
        BY <1>1, <1>3, ElementOfSeq
      <4> QED BY <3>4, <4>1
    <3>6. \A i \in 1 .. level' : i # 1 => r[i] # c
      BY <1>4, <3>4
    <3>7. \A i, j \in 1 .. level' : r[i] = r[j] => i = j
      <4> TAKE i, j \in 1 .. level'
      <4> HAVE r[i] = r[j]
      <4>1. CASE i = 1 \/ j = 1
        BY <3>2, <3>6, <4>1
      <4>2. CASE i # 1 /\ j # 1
        <5>1. s[i - 1] = s[j - 1] /\ i - 1 \in 1 .. level /\ j - 1 \in 1 .. level
          BY <3>4, <4>2
        <5>2. i - 1 = j - 1
          BY <1>3, <5>1
        <5> QED BY <3>3, <5>2
      <4> QED BY <4>1, <4>2
    <3>8. \A i \in 1 .. level : r[i + 1] = s[i] /\ i + 1 \in 1 .. level'
      BY <1>1, <1>3, <2>1, <3>2
    <3> QED BY <3>2, <3>3, <3>4, <3>5, <3>6, <3>7, <3>8
  <2>2. CASE pc[t] = "o_got" /\ UNCHANGED <<level, frames>> /\ Current(t) = c
    <3>1. r = s /\ level = 1 /\ level' = 1 /\ s[1] = c
      BY <1>3, <2>2 DEF Current
    <3>2. 1 .. 1 = {1}
      OBVIOUS
    <3> HIDE DEF r, s
    <3> QED BY <1>3, <2>2, <3>1, <3>2
  <2> QED BY <2>1, <2>2
<1>7. FramesOK(t)'
  <2>1. \A i \in 1 .. level' : action'[r[i]] = "running"
    BY <1>4, <1>6
  <2> QED BY <1>5, <1>6, <2>1 DEF FramesOK
<1>8. ASSUME NEW d \in Controls PROVE Tells(d)'
  <2>1. CASE d = c
    <3>1. RunBy(owner, c)'
      <4>1. 1 \in DOMAIN r /\ r[1] = c /\ Head(r) = c
        BY <1>6
      <4>2. owner' = t /\ t # NoThread
        BY <1>1
      <4> QED BY <1>5, <4>1, <4>2 DEF RunBy, Current
    <3> QED BY <1>4, <2>1, <3>1 DEF Tells
  <2>2. CASE d # c
    <3>1. Tells(d) /\ control'[d] = control[d] /\ action'[d] = action[d] /\ first'[d] = first[d]
      BY <1>2, <1>4, <2>2
    <3>2. ASSUME action[d] = "running" PROVE RunBy(owner, d)'
      <4>1. RunBy(t, d)
        BY <3>1, <3>2 DEF Tells
      <4>2. pc[t] = "o_eval" /\ ~control[d].value
        BY <4>1 DEF RunBy
      <4>3. PICK i \in 1 .. level : s[i] = d
        BY <1>3, <4>1 DEF RunBy
      <4>4. r[i + 1] = d /\ i + 1 \in DOMAIN r
        BY <1>6, <4>2, <4>3
      <4> QED BY <1>1, <1>5, <3>1, <4>2, <4>4 DEF RunBy
    <3> QED BY <3>1, <3>2 DEF Tells
  <2> QED BY <2>1, <2>2
<1> QED
  BY <1>2, <1>5, <1>7, <1>8, OnceStepOf

\* A thread creates the mutex, or locks it.
LEMMA LockStep ==
    ASSUME StateOK, OnceInv, NEW t \in Threads, OnceCreate(t) \/ OnceLock(t) PROVE OnceInv'
<1>1. pc \in [Threads -> PCs] /\ NoThread \notin Threads /\ frames[t] \in Seq(Controls)
  BY MainIsThread DEF StateOK
<1>2. /\ FramesOK(t) /\ "other" \notin early /\ \A d \in Controls : Tells(d)
  BY OnceInvSplit
<1>3. UNCHANGED <<frames, control, action, first, early>>
  BY DEF OnceCreate, OnceLock
<1>4. \A u \in Threads \ {t} : pc'[u] = pc[u]
  BY <1>1 DEF OnceCreate, OnceLock, Goto
<1>5. Len(frames[t]) = 1 /\ owner # t
  BY <1>2 DEF OnceCreate, OnceLock, FramesOK
<1>6. CASE OnceCreate(t)
  <2>1. UNCHANGED <<owner, level>> /\ pc'[t] = "o_lock" /\ pc[t] = "o_create"
    BY <1>1, <1>6 DEF OnceCreate, Goto
  <2>2. FramesOK(t)'
    BY <1>3, <1>5, <2>1 DEF FramesOK
  <2>3. owner \in Threads \cup {NoThread}
    BY DEF StateOK
  <2>4. ASSUME NEW d \in Controls PROVE Tells(d)'
    <3>1. RunBy(owner, d) => RunBy(owner, d)'
      BY <1>3, <1>4, <1>5, <2>1, <2>3 DEF RunBy, Current
    <3> QED BY <1>2, <1>3, <2>1, <3>1 DEF Tells
  <2> QED BY <1>2, <1>3, <1>4, <2>1, <2>2, <2>4, OnceStepOf
<1>7. CASE OnceLock(t)
  <2>1. owner = NoThread /\ owner' = t /\ level' = 1 /\ pc'[t] = "o_got"
    BY <1>1, <1>7 DEF OnceLock, Goto
  <2>2. DOMAIN frames[t] = {1}
    <3>1. DOMAIN frames[t] = 1 .. 1
      BY <1>1, <1>5, LenProperties
    <3> QED BY <3>1
  <2>3. FramesOK(t)'
    BY <1>3, <1>5, <2>1, <2>2 DEF FramesOK
  <2>4. \A d \in Controls : action[d] # "running"
    BY <2>1, NothingRuns
  <2>5. ASSUME NEW d \in Controls PROVE Tells(d)'
    BY <1>2, <1>3, <2>4 DEF Tells
  <2> QED BY <1>2, <1>3, <1>4, <2>1, <2>3, <2>5, OnceStepOf
<1> QED
  BY <1>6, <1>7

\* A call ends: the mutex is unlocked once.  Its control c is marked as done, or
\* the call had nothing to do and no action runs.
LEMMA EndCallStep ==
    ASSUME StateOK, OnceInv, NEW t \in Threads, owner = t, OnceUnlock(t), Goto(t, "leave"),
           \A c \in Controls : Tells(c)' \/ action'[c] = "running",
           "other" \notin early',
           \/ /\ pc[t] = "o_got" /\ \A c \in Controls : action'[c] # "running"
           \/ /\ pc[t] = "o_eval"
              /\ \A c \in Controls \ {Current(t)} :
                   control'[c] = control[c] /\ action'[c] = action[c] /\ first'[c] = first[c]
              /\ action'[Current(t)] # "running"
    PROVE  OnceInv'
<1> DEFINE s == frames[t]
           r == frames'[t]
<1>1. /\ pc \in [Threads -> PCs] /\ DOMAIN frames = Threads /\ s \in Seq(Controls)
      /\ NoThread \notin Threads /\ level \in Nat
  BY MainIsThread DEF StateOK
<1>2. /\ FramesOK(t) /\ \A d \in Controls : Tells(d)
  BY OnceInvSplit
<1>3. /\ level = Len(s) /\ level > 0 /\ DOMAIN s = 1 .. level /\ Current(t) = s[1]
      /\ \A i, j \in DOMAIN s : s[i] = s[j] => i = j
      /\ IF pc[t] = "o_got" THEN level = 1 ELSE \A i \in DOMAIN s : action[s[i]] = "running"
  BY <1>2, OwnerProps DEF FramesOK, OnceInv
<1>4. /\ level' = level - 1 /\ owner' = IF level = 1 THEN NoThread ELSE t
      /\ \A u \in Threads \ {t} : frames'[u] = frames[u]
      /\ r = Tail(s)
  BY UnlockTypes DEF OnceInv
<1>5. pc'[t] = "leave" /\ \A u \in Threads \ {t} : pc'[u] = pc[u]
  BY <1>1 DEF Goto
<1>6. /\ r \in Seq(Controls) /\ Len(r) = level - 1 /\ DOMAIN r = 1 .. level - 1
      /\ \A i \in 1 .. level - 1 : r[i] = s[i + 1] /\ i + 1 \in 1 .. level
  <2>1. s \in Seq(Controls) /\ Len(s) > 0
    BY <1>1, <1>3
  <2> HIDE DEF s, r
  <2>2. /\ Tail(s) \in Seq(Controls) /\ Len(Tail(s)) = Len(s) - 1
        /\ \A i \in 1 .. Len(s) - 1 : Tail(s)[i] = s[i + 1]
    BY <2>1, PopProps
  <2>3. r \in Seq(Controls) /\ Len(r) = level - 1
    BY <1>3, <1>4, <2>2
  <2>4. DOMAIN r = 1 .. level - 1
    BY <2>3, LenProperties
  <2>5. \A i \in 1 .. level - 1 : r[i] = s[i + 1] /\ i + 1 \in 1 .. level
    BY <1>1, <1>3, <1>4, <2>2
  <2> QED BY <2>3, <2>4, <2>5
<1>7. CASE level = 1
  <2>1. \A c \in Controls : action'[c] # "running"
    <3>1. ASSUME NEW c \in Controls, c # Current(t), pc[t] = "o_eval" PROVE action[c] # "running"
      <4>1. action[c] = "running" => \E i \in DOMAIN s : s[i] = c
        BY <1>2 DEF Tells, RunBy
      <4>2. DOMAIN s = {1}
        BY <1>3, <1>7
      <4> QED BY <1>3, <3>1, <4>1, <4>2
    <3> QED BY <3>1
  <2>2. r = <<>>
    BY <1>6, <1>7, EmptySeq
  <2>3. FramesOK(t)'
    BY <1>1, <1>4, <1>5, <1>7, <2>2 DEF FramesOK
  <2>4. \A c \in Controls : Tells(c)'
    BY <2>1
  <2> QED BY <1>4, <1>5, <1>7, <2>3, <2>4, OnceStepOf
<1>8. CASE level # 1
  <2>1. pc[t] = "o_eval" /\ owner' = t /\ level' = Len(r) /\ level' > 0
    BY <1>1, <1>3, <1>4, <1>6, <1>8
  <2>2. \A i \in DOMAIN r : action'[r[i]] = "running"
    <3> TAKE i \in DOMAIN r
    <3>1. r[i] = s[i + 1] /\ i + 1 \in DOMAIN s /\ i + 1 # 1
      BY <1>1, <1>3, <1>6
    <3>2. 1 \in DOMAIN s /\ s[i + 1] \in Controls
      BY <1>1, <1>3, <3>1, ElementOfSeq
    <3>3. s[i + 1] # Current(t) /\ action[s[i + 1]] = "running"
      BY <1>3, <2>1, <3>1, <3>2
    <3> QED BY <2>1, <3>1, <3>2, <3>3
  <2>3. \A i, j \in DOMAIN r : r[i] = r[j] => i = j
    <3> TAKE i, j \in DOMAIN r
    <3> HAVE r[i] = r[j]
    <3>1. s[i + 1] = s[j + 1] /\ i + 1 \in DOMAIN s /\ j + 1 \in DOMAIN s
      BY <1>3, <1>6
    <3>2. i + 1 = j + 1 /\ i \in Nat /\ j \in Nat
      BY <1>1, <1>3, <1>6, <3>1
    <3> QED BY <3>2
  <2>4. FramesOK(t)'
    BY <1>5, <2>1, <2>2, <2>3 DEF FramesOK
  <2>5. ASSUME NEW c \in Controls, action'[c] = "running" PROVE Tells(c)'
    <3>1. c # Current(t) /\ control'[c] = control[c] /\ action[c] = "running" /\ first'[c] = first[c]
      BY <2>1, <2>5
    <3>2. RunBy(t, c)
      BY <1>2, <3>1 DEF Tells
    <3>3. PICK i \in DOMAIN s : s[i] = c
      BY <3>2 DEF RunBy
    <3>4. i # 1
      BY <1>3, <3>1, <3>3
    <3>5. i - 1 \in DOMAIN r /\ (i - 1) + 1 = i
      BY <1>1, <1>3, <1>6, <3>3, <3>4
    <3>6. r[i - 1] = c
      BY <1>6, <3>3, <3>5
    <3>7. ~control[c].value
      BY <2>1, <3>2 DEF RunBy
    <3>8. RunBy(owner, c)'
      BY <1>1, <1>5, <2>1, <3>1, <3>5, <3>6, <3>7 DEF RunBy
    <3> QED BY <1>2, <2>5, <3>1, <3>8 DEF Tells
  <2> QED BY <1>4, <1>5, <2>1, <2>4, <2>5, OnceStepOf
<1> QED
  BY <1>7, <1>8

\* The second store of a control, and the way back from a call.
LEMMA StoreStep ==
    ASSUME StateOK, OnceInv, NEW t \in Threads, OnceStore(t) \/ Leave(t) PROVE OnceInv'
<1>1. /\ pc \in [Threads -> PCs] /\ NoThread \notin Threads /\ frames[t] \in Seq(Controls)
      /\ control \in [Controls -> Item(BOOLEAN)] /\ owner \in Threads \cup {NoThread}
  BY MainIsThread DEF StateOK
<1>2. /\ FramesOK(t) /\ "other" \notin early /\ \A d \in Controls : Tells(d)
  BY OnceInvSplit
<1>3. UNCHANGED <<owner, level, frames, action, first, early>>
  BY DEF OnceStore, Leave, onceVars
<1>4. \A u \in Threads \ {t} : pc'[u] = pc[u]
  BY <1>1 DEF OnceStore, Leave, Goto
<1>5. CASE OnceStore(t)
  <2>1. pc[t] = "o_store" /\ owner = t /\ pc'[t] = "o_eval"
    BY <1>1, <1>5, OwnerPCs DEF OnceStore, Goto, OnceInv
  <2>2. Current(t) \in Controls
    BY <2>1, OwnerProps DEF OnceInv
  <2>3. /\ ~control'[Current(t)].value /\ control'[Current(t)].type = control[Current(t)].type
        /\ \A d \in Controls \ {Current(t)} : control'[d] = control[d]
    BY <1>1, <1>5, <2>2 DEF OnceStore, Item
  <2>4. FramesOK(t)'
    BY <1>2, <1>3, <2>1 DEF FramesOK
  <2>5. ASSUME NEW d \in Controls PROVE Tells(d)'
    <3>1. RunBy(t, d) => ~control'[d].value
      BY <2>3 DEF RunBy
    <3>2. RunBy(t, d) => RunBy(owner, d)'
      BY <1>3, <2>1, <3>1 DEF RunBy
    <3>3. control'[d].type = control[d].type
      BY <2>3
    <3> QED BY <1>2, <1>3, <2>1, <3>2, <3>3 DEF Tells
  <2> QED BY <1>2, <1>3, <1>4, <2>4, <2>5, OnceStepOf
<1>6. CASE Leave(t)
  <2>1. pc[t] = "leave" /\ pc'[t] = Caller(frames[t]) /\ control' = control
    BY <1>1, <1>6 DEF Leave, Goto, onceVars
  <2>2. owner = t => frames[t] # <<>>
    BY <1>2, EmptySeq DEF FramesOK
  <2>3. FramesOK(t)'
    BY <1>2, <1>3, <2>1, <2>2 DEF FramesOK, Caller
  <2>4. ASSUME NEW d \in Controls PROVE Tells(d)'
    <3>1. RunBy(owner, d) => RunBy(owner, d)'
      BY <1>1, <1>3, <1>4, <2>1 DEF RunBy, Caller, Current
    <3> QED BY <1>2, <1>3, <2>1, <3>1 DEF Tells
  <2> QED BY <1>2, <1>3, <1>4, <2>3, <2>4, OnceStepOf
<1> QED
  BY <1>5, <1>6

\* The end of an action.
LEMMA DoneStep == ASSUME StateOK, OnceInv, NEW t \in Threads, OnceDone(t) PROVE OnceInv'
<1>1. /\ control \in [Controls -> Item(BOOLEAN)]
      /\ action \in [Controls -> {"no", "running", "complete", "cut"}]
  BY DEF StateOK
<1>2. /\ FramesOK(t) /\ "other" \notin early /\ \A d \in Controls : Tells(d)
  BY OnceInvSplit
<1>3. pc[t] = "o_eval" /\ owner = t /\ OnceUnlock(t) /\ Goto(t, "leave") /\ UNCHANGED <<first, early>>
  BY OwnerPCs DEF OnceDone, OnceInv
<1>4. Current(t) \in Controls /\ action[Current(t)] = "running"
  <2>1. /\ Current(t) \in Controls /\ Current(t) = frames[t][1] /\ DOMAIN frames[t] = 1 .. level
        /\ level - 1 \in Nat
    BY <1>3, OwnerProps DEF OnceInv
  <2>2. level \in Nat /\ 1 \in DOMAIN frames[t]
    BY <2>1 DEF StateOK
  <2> QED BY <1>2, <1>3, <2>1, <2>2 DEF FramesOK
<1>5. /\ \A d \in Controls \ {Current(t)} : control'[d] = control[d] /\ action'[d] = action[d]
      /\ action'[Current(t)] \in {"cut", "complete"}
      /\ control'[Current(t)].type = control[Current(t)].type
  BY <1>1, <1>4 DEF OnceDone, Item
<1>6. ASSUME NEW d \in Controls PROVE Tells(d)' \/ action'[d] = "running"
  <2>1. Tells(d)
    BY <1>2
  <2>2. CASE d = Current(t)
    BY <1>3, <1>4, <1>5, <2>1, <2>2 DEF Tells
  <2>3. CASE d # Current(t)
    BY <1>3, <1>5, <2>1, <2>3 DEF Tells
  <2> QED BY <2>2, <2>3
<1>7. "other" \notin early'
  BY <1>2, <1>3
<1> QED
  BY <1>3, <1>5, <1>6, <1>7, EndCallStep

\* The second test, with the mutex locked.
LEMMA CheckStep == ASSUME StateOK, OnceInv, NEW t \in Threads, OnceCheck(t) PROVE OnceInv'
<1> DEFINE c == Current(t)
<1>1. pc[t] = "o_got" /\ owner = t
  BY OwnerPCs DEF OnceCheck, OnceInv
<1>2. c \in Controls
  BY <1>1, OwnerProps DEF OnceInv
<1>3. /\ FramesOK(t) /\ "other" \notin early /\ \A d \in Controls : Tells(d)
  BY OnceInvSplit
<1>4. \A d \in Controls : action[d] # "running"
  BY <1>1, NothingRuns
<1>5. CASE FindsNil(c, TRUE) /\ Goto(t, "o_store") /\ UNCHANGED <<owner, level, frames, early>>
  BY <1>1, <1>2, <1>5, BeginStep
<1>6. CASE FindsNil(c, FALSE) /\ OnceUnlock(t) /\ Goto(t, "leave") /\ UNCHANGED early
  <2>1. /\ control'[c].type = "SET" /\ first'[c] = 1 /\ action'[c] = "complete"
        /\ \A d \in Controls \ {c} :
             control'[d] = control[d] /\ action'[d] = action[d] /\ first'[d] = first[d]
    BY <1>2, <1>3, <1>6, FindsNilProps
  <2>2. \A d \in Controls : action'[d] # "running"
    BY <1>4, <2>1
  <2>3. ASSUME NEW d \in Controls PROVE Tells(d)'
    BY <1>3, <2>1, <2>2 DEF Tells
  <2> QED BY <1>1, <1>3, <1>6, <2>2, <2>3, EndCallStep
<1>7. CASE /\ control[c].type # "NIL" /\ OnceUnlock(t) /\ Goto(t, "leave")
           /\ early' = IF action[c] = "cut" THEN early \cup {"cut"}
                       ELSE IF action[c] # "complete" THEN early \cup {"other"} ELSE early
           /\ UNCHANGED <<control, action, first>>
  <2>1. action[c] \in {"complete", "cut"}
    <3>1. action[c] \in {"no", "running", "complete", "cut"}
      BY <1>2 DEF StateOK
    <3> QED BY <1>2, <1>3, <1>4, <1>7, <3>1 DEF Tells
  <2>2. "other" \notin early'
    BY <1>3, <1>7, <2>1
  <2>3. ASSUME NEW d \in Controls PROVE Tells(d)'
    BY <1>3, <1>4, <1>7 DEF Tells
  <2> QED BY <1>1, <1>4, <1>7, <2>2, <2>3, EndCallStep
<1> QED
  BY <1>5, <1>6, <1>7 DEF OnceCheck

\* A call from inside an action, by the owner of the mutex.
LEMMA NestedStep ==
    ASSUME StateOK, OnceInv, NEW t \in Threads, NEW c \in Controls, pc[t] \in StopPCs,
           OnceNested(t, c)
    PROVE  OnceInv'
<1>1. owner = t /\ UNCHANGED <<owner, early>>
  BY DEF OnceNested
<1>2. /\ FramesOK(t) /\ "other" \notin early /\ \A d \in Controls : Tells(d)
  BY OnceInvSplit
<1>3. pc[t] = "o_eval"
  BY <1>1, <1>2 DEF FramesOK, StopPCs
<1>4. CASE /\ FindsNil(c, TRUE) /\ level' = level + 1
           /\ frames' = [frames EXCEPT ![t] = <<c>> \o @] /\ Goto(t, "o_store")
  BY <1>1, <1>3, <1>4, BeginStep
<1>5. CASE FindsNil(c, FALSE) /\ UNCHANGED <<pc, level, frames>>
  <2>1. /\ action[c] = "no" /\ control'[c].type = "SET" /\ first'[c] = 1 /\ action'[c] = "complete"
        /\ \A d \in Controls \ {c} :
             control'[d] = control[d] /\ action'[d] = action[d] /\ first'[d] = first[d]
    BY <1>2, <1>5, FindsNilProps
  <2>2. frames[t] \in Seq(Controls) /\ DOMAIN frames[t] = 1 .. level /\ level = Len(frames[t])
    BY <1>1, OwnerProps DEF OnceInv
  <2>3. \A i \in DOMAIN frames[t] : frames[t][i] \in Controls \ {c}
    <3>1. \A i \in DOMAIN frames[t] : frames[t][i] \in Controls
      BY <2>2, ElementOfSeq
    <3> QED BY <1>1, <1>2, <1>3, <2>1, <3>1 DEF FramesOK
  <2>4. FramesOK(t)'
    BY <1>1, <1>2, <1>3, <1>5, <2>1, <2>3 DEF FramesOK
  <2>5. ASSUME NEW d \in Controls PROVE Tells(d)'
    <3>1. CASE d = c
      BY <2>1, <3>1 DEF Tells
    <3>2. CASE d # c
      <4>1. RunBy(owner, d) => RunBy(owner, d)'
        BY <1>1, <1>5, <2>1, <3>2 DEF RunBy, Current
      <4> QED BY <1>1, <1>2, <2>1, <3>2, <4>1 DEF Tells
    <3> QED BY <3>1, <3>2
  <2> QED BY <1>1, <1>2, <1>5, <2>4, <2>5, OnceStepOf
<1> QED
  BY <1>4, <1>5 DEF OnceNested

\* Every step keeps what holds of hb_threadOnce().
LEMMA OnceInvStep == ASSUME StateOK, OnceInv, [Next]_vars PROVE OnceInv'
<1>1. CASE UNCHANGED vars
  BY <1>1, OnceApart DEF vars
<1>2. CASE MainStep
  BY <1>2, MainMoves, OnceApart DEF Moves, OncePCs
<1>3. ASSUME NEW t \in Threads, HvmStep(t) \/ WaitStep(t) PROVE OnceInv'
  BY <1>3, HvmMoves, WaitMoves, OnceApart DEF Moves, OncePCs
<1>4. ASSUME NEW t \in Threads, JoinStep(t) \/ EndStep(t) \/ InitStep(t) PROVE OnceInv'
  BY <1>4, JoinMoves, EndMoves, InitMoves, OnceApart DEF Moves, OncePCs, DealPCs
<1>5. ASSUME NEW t \in Threads, OnceStep(t) PROVE OnceInv'
  <2>1. CASE Once(t)
    <3>1. pc[t] \in StopPCs
      BY <2>1 DEF Once, CallAt
    <3>2. PICK c \in Controls : OnceTestFails(t, c) \/ OnceMustLock(t, c) \/ OnceNested(t, c)
      BY <2>1 DEF Once
    <3> QED BY <3>1, <3>2, TestFailsStep, MustLockStep, NestedStep
  <2> QED BY <1>5, <2>1, LockStep, StoreStep, DoneStep, CheckStep DEF OnceStep
<1> QED
  BY <1>1, <1>2, <1>3, <1>4, <1>5, Groups

-----------------------------------------------------------------------------
(* The theorems.                                                           *)

\* The threads have been started and have called nothing yet.
LEMMA InitApi == Init => ApiInv
<1> SUFFICES ASSUME Init PROVE ApiInv
  OBVIOUS
<1>0. /\ NoThread \notin Threads /\ Main \in Threads /\ Workers \subseteq Threads
      /\ program \in Programs /\ IsProgram(program)
  BY MainIsThread, ApiAssumption DEF Init
<1>1. StateOK
  <2>1. control \in [Controls -> Item(BOOLEAN)]
    BY <1>0 DEF Init, Item, IsProgram
  <2>2. pc \in [Threads -> PCs]
    BY Labels DEF Init
  <2>3. DOMAIN frames = Threads /\ \A t \in Threads : frames[t] \in Seq(Controls)
    BY EmptySeq DEF Init
  <2>4. variable \in Item(Threads \cup {NoThread})
    BY DEF Init, Item
  <2>5. /\ first \in [Controls -> Nat] /\ action \in [Controls -> {"no", "running", "complete", "cut"}]
        /\ DOMAIN arg = Threads
    BY DEF Init
  <2> QED BY <1>0, <2>1, <2>2, <2>3, <2>4, <2>5 DEF StateOK, Init
<1>2. BudgetOK
  <2>1. \A t \in DOMAIN program.budget : program.budget[t] \in Nat
    BY <1>0 DEF IsProgram
  <2> QED BY <2>1 DEF BudgetOK, Init, Started
<1>3. \A t \in Threads : pc[t] \in {"run", "none"}
  BY DEF Init
<1>4. JoinFindsResult /\ EveryThread
  BY <1>1, <1>2, <1>3, TypesSplit DEF JoinFindsResult, Init
<1>5. HandlesKept /\ CallersKnow /\ OverlapsRecorded
  <2>1. \A u \in Workers \cap Started : pc[u] = "run"
    BY <1>0 DEF Init, Started
  <2> QED BY <1>3, <2>1 DEF HandlesKept, CallersKnow, OverlapsRecorded, DealPCs, Init, Started
<1>6. SleepersCounted /\ NoLostWakeup
  BY DEF SleepersCounted, NoLostWakeup, Init
<1>7. OwnerHasFrames
  BY <1>0, <1>3 DEF OwnerHasFrames, Init
<1>8. ControlTells
  BY DEF ControlTells, Init
<1>9. OthersAreStopped /\ OneInitializer
  BY <1>3 DEF OthersAreStopped, OneInitializer, Init
<1> QED
  BY <1>4, <1>5, <1>6, <1>7, <1>8, <1>9 DEF ApiInv

\* Every step of every thread keeps the invariant.
LEMMA ApiStep == ApiInv /\ [Next]_vars => ApiInv'
<1> SUFFICES ASSUME ApiInv, [Next]_vars PROVE ApiInv'
  OBVIOUS
<1>1. StateOK /\ BudgetOK
  BY TypesSplit DEF ApiInv, JoinFindsResult
<1>2. /\ JoinInv /\ CallersKnow /\ SleepersCounted /\ NoLostWakeup
      /\ OnceInv /\ OwnerHasFrames /\ OneInitializer
  BY DEF ApiInv, JoinFindsResult, JoinInv, ResultFound, OnceInv
<1>3. StateOK' /\ BudgetOK'
  BY <1>1, <1>2, StateStep, BudgetStep
<1>4. TypeOK' /\ EveryThread'
  BY <1>3 DEF TypeOK, EveryThread, StateOK, BudgetOK, PCs
<1>5. JoinInv'
  BY <1>1, <1>2, JoinerStep
<1>6. JoinFindsResult'
  BY <1>4, <1>5 DEF JoinFindsResult, JoinInv, ResultFound
<1>7. SleepersCounted' /\ NoLostWakeup'
  BY <1>1, <1>2, SleepersStep
<1>8. OnceInv'
  BY <1>1, <1>2, OnceInvStep
<1>9. OneInitializer'
  BY <1>1, <1>2, InitializerStep
<1> QED
  BY <1>4, <1>5, <1>6, <1>7, <1>8, <1>9 DEF ApiInv, JoinInv, OnceInv

\* The invariant holds in every state of the program.
THEOREM Invariance == Spec => []ApiInv
  BY InitApi, ApiStep, PTL DEF Spec

\* hb_threadJoin() that succeeds finds the result of the thread, unless a call
\* used a handle that was gone, which takes two calls for the thread at a time.
THEOREM JoinCorrect == Spec => []JoinFindsResult
<1>1. ApiInv => JoinFindsResult
  BY DEF ApiInv
<1> QED
  BY <1>1, Invariance, PTL

\* The end of a thread of hb_threadStart() wakes everyone in hb_threadWait() whose
\* wait is over.
THEOREM WakeupsCorrect == Spec => []NoLostWakeup
<1>1. ApiInv => NoLostWakeup
  BY DEF ApiInv
<1> QED
  BY <1>1, Invariance, PTL

\* hb_threadOnce() runs an action for the first call and lets no other call pass
\* before it is over, but for the two named exceptions.
THEOREM OnceCorrect == Spec => []OnceIsKept
<1>1. ApiInv => OnceIsKept
  BY DEF ApiInv, OnceIsKept, FirstCallOnce, ControlTells
<1> QED
  BY <1>1, Invariance, PTL

\* hb_threadOnceInit() assigns once: what a reader finds stays.
THEOREM OnceInitCorrect == Spec => OnceInitIsFinal
<1>1. ApiInv /\ [Next]_vars => [variable.type # "NIL" => variable' = variable]_vars
  <2> SUFFICES ASSUME ApiInv, [Next]_vars PROVE variable.type # "NIL" => variable' = variable
    OBVIOUS
  <2>1. StateOK /\ OneInitializer
    BY TypesSplit DEF ApiInv, JoinFindsResult
  <2> QED BY <2>1, InitializerStep
<1> QED
  BY <1>1, Invariance, PTL DEF Spec, OnceInitIsFinal
=============================================================================
