--------------------------- MODULE HvmLock_proofs ---------------------------
(***************************************************************************)
(* Proofs about HvmLock, for any finite sets of worker and foreign threads *)
(* and any bounds on nesting.                                              *)
(***************************************************************************)
EXTENDS HvmLock, FiniteSetTheorems, SequenceTheorems, TLAPS

\* There are finitely many threads, so that those inside the VM can be counted.
LEMMA ThreadsFinite == IsFiniteSet(Threads)
<1>1. IsFiniteSet({Main})
  BY FS_Singleton
<1>2. IsFiniteSet({Main} \cup Workers)
  BY <1>1, FS_Union, ThreadsAssumption
<1> QED
  BY <1>2, FS_Union, ThreadsAssumption DEF Threads

\* The labels that the actions use.
LEMMA Labels ==
    /\ "run" \in PCs /\ "op" \in PCs /\ "create" \in PCs /\ "gc_try" \in PCs
    /\ "gc_force" \in PCs /\ "collect" \in PCs /\ "mark" \in PCs /\ "release" \in PCs
    /\ "x_init" \in PCs /\ "x_attach" \in PCs /\ "x_lock_wait" \in PCs /\ "x_in" \in PCs
    /\ "test_wait" \in PCs /\ "lock_wait" \in PCs /\ "attach_wait" \in PCs
    /\ "x_wait" \in PCs /\ "none" \in PCs /\ "registered" \in PCs /\ "init" \in PCs
    /\ "attach" \in PCs /\ "unlocked" \in PCs /\ "susp_wait" \in PCs
    /\ "term_wait" \in PCs /\ "exit_wait" \in PCs /\ "wait_wait" \in PCs
  BY DEF PCs, InVMPCs, ExtPCs, StopWaitPCs

\* The thread that called hb_vmInit() is one of the threads.
LEMMA MainIsThread == Main \in Threads
  BY DEF Threads

\* Every step keeps the type of the shared state.
LEMMA TypeGlobalStep == TypeOK /\ [Next]_vars => TypeGlobal'
<1> SUFFICES ASSUME TypeOK, [Next]_vars PROVE TypeGlobal'
  OBVIOUS
<1> USE DEF TypeOK, TypeGlobal, Goto, SleepAt, Broadcast, Woken, unchangedGC
<1>1. ASSUME NEW t \in Threads, ThreadNext(t) PROVE TypeGlobal'
  <2>1. CASE FetchOpcode(t) BY <2>1 DEF FetchOpcode
  <2>2. CASE RequestTest(t) BY <2>2 DEF RequestTest, RequestTestLoop
  <2>3. CASE RequestTestWoken(t) BY <2>3 DEF RequestTestWoken, RequestTestLoop
  <2>4. CASE EndOpcode(t) BY <2>4 DEF EndOpcode
  <2>5. CASE RequestQuery(t) BY <2>5 DEF RequestQuery
  <2>6. CASE VmUnlock(t) BY <2>6 DEF VmUnlock, LeaveVM
  <2>7. CASE VmUnlockNested(t) BY <2>7 DEF VmUnlockNested
  <2>8. CASE VmLockNested(t) BY <2>8 DEF VmLockNested
  <2>9. CASE VmLock(t) BY <2>9 DEF VmLock, EnterVM
  <2>10. CASE VmLockWoken(t) BY <2>10 DEF VmLockWoken, EnterVM
  <2>11. CASE VmLockForce(t) BY <2>11 DEF VmLockForce
  <2>12. CASE RequestReenter(t) BY <2>12 DEF RequestReenter, EnterVM
  <2>13. CASE RequestRestore(t) BY <2>13 DEF RequestRestore, LeaveVM
  <2>14. CASE GcCollectAll(t) BY <2>14 DEF GcCollectAll
  <2>15. CASE SuspendThreads(t) BY <2>15 DEF SuspendThreads
  <2>16. CASE SuspendThreadsWoken(t) BY <2>16 DEF SuspendThreadsWoken
  <2>17. CASE GcSkip(t) BY <2>17 DEF GcSkip, ResumeThreads
  <2>18. CASE GcMark(t) BY <2>18 DEF GcMark
  <2>19. CASE GcSweep(t) BY <2>19 DEF GcSweep, ResumeThreads
  <2>20. CASE GcFinish(t) BY <2>20 DEF GcFinish
  <2>21. CASE StackInit(t) BY <2>21 DEF StackInit
  <2>22. CASE ThreadInit(t) BY <2>22 DEF ThreadInit, EnterVM
  <2>23. CASE ThreadQuit(t) BY <2>23 DEF ThreadQuit
  <2>24. CASE StackRelease(t) BY <2>24 DEF StackRelease
  <2>25. CASE RequestReenterExt(t) BY <2>25 DEF RequestReenterExt, ReenterExtLoop
  <2>26. CASE RequestReenterExtWoken(t) BY <2>26 DEF RequestReenterExtWoken, ReenterExtLoop
  <2>27. CASE ExtStackInit(t) BY <2>27 DEF ExtStackInit
  <2>28. CASE ExtLock(t) BY <2>28 DEF ExtLock, EnterVM
  <2>29. CASE ExtEnter(t) BY <2>29 DEF ExtEnter
  <2>30. CASE SpuriousWakeup(t) BY <2>30 DEF SpuriousWakeup
  <2> QED
    BY <1>1, <2>1, <2>2, <2>3, <2>4, <2>5, <2>6, <2>7, <2>8, <2>9, <2>10, <2>11, <2>12,
       <2>13, <2>14, <2>15, <2>16, <2>17, <2>18, <2>19, <2>20, <2>21, <2>22, <2>23, <2>24,
       <2>25, <2>26, <2>27, <2>28, <2>29, <2>30 DEF ThreadNext
<1>2. ASSUME NEW p \in Threads, NEW t \in Threads, PairNext(p, t) PROVE TypeGlobal'
  <2>1. CASE ThreadRegister(p, t) BY <2>1 DEF ThreadRegister
  <2>2. CASE ThreadCreate(p, t) BY <2>2 DEF ThreadCreate
  <2>3. CASE ThreadRelease(p, t) BY <2>3 DEF ThreadRelease
  <2>4. CASE ThreadQuitRequest(p, t) BY <2>4 DEF ThreadQuitRequest
  <2> QED BY <1>2, <2>1, <2>2, <2>3, <2>4 DEF PairNext
<1>3. ASSUME MainNext PROVE TypeGlobal'
  <2>1. CASE TerminateThreads BY <2>1, MainIsThread DEF TerminateThreads, TerminateLoop
  <2>2. CASE TerminateThreadsWoken BY <2>2, MainIsThread DEF TerminateThreadsWoken, TerminateLoop
  <2>3. CASE WaitForThreads BY <2>3, MainIsThread DEF WaitForThreads, WaitLoop
  <2>4. CASE WaitForThreadsWoken BY <2>4, MainIsThread DEF WaitForThreadsWoken, WaitLoop
  <2>5. CASE VmQuit BY <2>5, MainIsThread DEF VmQuit, TerminateLoop, DoExitFunctions
  <2>6. CASE VmQuitWoken BY <2>6, MainIsThread DEF VmQuitWoken, TerminateLoop, DoExitFunctions
  <2> QED BY <1>3, <2>1, <2>2, <2>3, <2>4, <2>5, <2>6 DEF MainNext
<1>4. CASE UNCHANGED vars
  BY <1>4 DEF vars
<1> QED
  BY <1>1, <1>2, <1>3, <1>4 DEF Next

\* Every step keeps the type of what the threads keep on their stacks.
LEMMA TypeLocalStep == TypeOK /\ [Next]_vars => TypeLocal'
<1> SUFFICES ASSUME TypeOK, [Next]_vars PROVE TypeLocal'
  OBVIOUS
<1> USE Labels DEF TypeOK, TypeLocal, Goto, SleepAt, TakeQuit, unchangedStack
<1>1. ASSUME NEW t \in Threads, ThreadNext(t) PROVE TypeLocal'
  <2>1. CASE FetchOpcode(t) BY <2>1 DEF FetchOpcode
  <2>2. CASE RequestTest(t) BY <2>2 DEF RequestTest, RequestTestLoop
  <2>3. CASE RequestTestWoken(t) BY <2>3 DEF RequestTestWoken, RequestTestLoop
  <2>4. CASE EndOpcode(t) BY <2>4 DEF EndOpcode
  <2>5. CASE RequestQuery(t) BY <2>5 DEF RequestQuery
  <2>6. CASE VmUnlock(t) BY <2>6 DEF VmUnlock, LeaveVM
  <2>7. CASE VmUnlockNested(t) BY <2>7 DEF VmUnlockNested
  <2>8. CASE VmLockNested(t) BY <2>8 DEF VmLockNested
  <2>9. CASE VmLock(t) BY <2>9 DEF VmLock, EnterVM
  <2>10. CASE VmLockWoken(t) BY <2>10 DEF VmLockWoken, EnterVM
  <2>11. CASE VmLockForce(t) BY <2>11 DEF VmLockForce
  <2>12. CASE RequestReenter(t)
    <3>1. recover' \in [Threads -> Seq(Nat)]
      BY <2>12, AppendProperties DEF RequestReenter
    <3>2. pc' \in [Threads -> PCs]
      BY <2>12 DEF RequestReenter, EnterVM
    <3>4. iUnlocked' \in [Threads -> Nat]
      BY <2>12 DEF RequestReenter, EnterVM
    <3>3. quit' \in [Threads -> BOOLEAN]
      BY <2>12 DEF RequestReenter, EnterVM
    <3> QED BY <3>1, <3>2, <3>3, <3>4
  <2>13. CASE RequestRestore(t)
    <3>1. recover[t] \in Seq(Nat) /\ Len(recover[t]) \in 1 .. Len(recover[t])
      BY <2>13, EmptySeq, LenProperties DEF RequestRestore
    <3>2. recover[t][Len(recover[t])] \in Nat
      BY <3>1, ElementOfSeq
    <3>3. SubSeq(recover[t], 1, Len(recover[t]) - 1) \in Seq(Nat)
      BY <3>1, SubSeqProperties
    <3>4. recover' \in [Threads -> Seq(Nat)]
      BY <2>13, <3>3 DEF RequestRestore
    <3>5. pc' \in [Threads -> PCs]
      BY <2>13 DEF RequestRestore, LeaveVM
    <3>7. iUnlocked' \in [Threads -> Nat]
      BY <2>13, <3>2 DEF RequestRestore, LeaveVM
    <3>6. quit' \in [Threads -> BOOLEAN]
      BY <2>13 DEF RequestRestore, LeaveVM
    <3> QED BY <3>4, <3>5, <3>6, <3>7
  <2>14. CASE GcCollectAll(t) BY <2>14 DEF GcCollectAll
  <2>15. CASE SuspendThreads(t) BY <2>15 DEF SuspendThreads
  <2>16. CASE SuspendThreadsWoken(t) BY <2>16 DEF SuspendThreadsWoken
  <2>17. CASE GcSkip(t) BY <2>17 DEF GcSkip, ResumeThreads
  <2>18. CASE GcMark(t) BY <2>18 DEF GcMark
  <2>19. CASE GcSweep(t) BY <2>19 DEF GcSweep, ResumeThreads
  <2>20. CASE GcFinish(t) BY <2>20 DEF GcFinish
  <2>21. CASE StackInit(t) BY <2>21 DEF StackInit
  <2>22. CASE ThreadInit(t) BY <2>22 DEF ThreadInit, EnterVM
  <2>23. CASE ThreadQuit(t) BY <2>23 DEF ThreadQuit
  <2>24. CASE StackRelease(t) BY <2>24 DEF StackRelease
  <2>25. CASE RequestReenterExt(t) BY <2>25 DEF RequestReenterExt, ReenterExtLoop
  <2>26. CASE RequestReenterExtWoken(t) BY <2>26 DEF RequestReenterExtWoken, ReenterExtLoop
  <2>27. CASE ExtStackInit(t) BY <2>27 DEF ExtStackInit
  <2>28. CASE ExtLock(t) BY <2>28 DEF ExtLock, EnterVM
  <2>29. CASE ExtEnter(t) BY <2>29 DEF ExtEnter
  <2>30. CASE SpuriousWakeup(t) BY <2>30 DEF SpuriousWakeup
  <2> QED
    BY <1>1, <2>1, <2>2, <2>3, <2>4, <2>5, <2>6, <2>7, <2>8, <2>9, <2>10, <2>11, <2>12,
       <2>13, <2>14, <2>15, <2>16, <2>17, <2>18, <2>19, <2>20, <2>21, <2>22, <2>23, <2>24,
       <2>25, <2>26, <2>27, <2>28, <2>29, <2>30 DEF ThreadNext
<1>2. ASSUME NEW p \in Threads, NEW t \in Threads, PairNext(p, t) PROVE TypeLocal'
  <2>1. CASE ThreadRegister(p, t) BY <2>1 DEF ThreadRegister
  <2>2. CASE ThreadCreate(p, t) BY <2>2 DEF ThreadCreate
  <2>3. CASE ThreadRelease(p, t) BY <2>3 DEF ThreadRelease
  <2>4. CASE ThreadQuitRequest(p, t) BY <2>4 DEF ThreadQuitRequest
  <2> QED BY <1>2, <2>1, <2>2, <2>3, <2>4 DEF PairNext
<1>3. ASSUME MainNext PROVE TypeLocal'
  <2>1. CASE TerminateThreads BY <2>1, MainIsThread DEF TerminateThreads, TerminateLoop
  <2>2. CASE TerminateThreadsWoken BY <2>2, MainIsThread DEF TerminateThreadsWoken, TerminateLoop
  <2>3. CASE WaitForThreads BY <2>3, MainIsThread DEF WaitForThreads, WaitLoop
  <2>4. CASE WaitForThreadsWoken BY <2>4, MainIsThread DEF WaitForThreadsWoken, WaitLoop
  <2>5. CASE VmQuit BY <2>5, MainIsThread DEF VmQuit, TerminateLoop, DoExitFunctions
  <2>6. CASE VmQuitWoken BY <2>6, MainIsThread DEF VmQuitWoken, TerminateLoop, DoExitFunctions
  <2> QED BY <1>3, <2>1, <2>2, <2>3, <2>4, <2>5, <2>6 DEF MainNext
<1>4. CASE UNCHANGED vars
  BY <1>4 DEF vars
<1> QED
  BY <1>1, <1>2, <1>3, <1>4 DEF Next

\* The state hb_vmInit() leaves has the type.
LEMMA InitType == Init => TypeOK
<1>1. Init => TypeGlobal
  <2> SUFFICES ASSUME Init PROVE TypeGlobal
    OBVIOUS
  <2>1. s_vmMtx \in Threads \cup {NoThread} /\ sleepers \in SUBSET Threads
        /\ hb_vmThreadRequest \in SUBSET {STOP, QUIT} /\ sweeping \in SUBSET Threads
    BY DEF Init
  <2>2. s_iRunningCount \in Int /\ s_iStackCount \in Int
    BY DEF Init
  <2>3. s_bCollecting \in BOOLEAN
    BY DEF Init
  <2> QED BY <2>1, <2>2, <2>3 DEF TypeGlobal
<1>2. Init => TypeLocal
  <2> SUFFICES ASSUME Init PROVE TypeLocal
    OBVIOUS
  <2>1. pc \in [Threads -> PCs] /\ iUnlocked \in [Threads -> Nat]
    BY Labels DEF Init
  <2>2. recover \in [Threads -> Seq(Nat)] /\ quit \in [Threads -> BOOLEAN]
    BY EmptySeq DEF Init
  <2> QED BY <2>1, <2>2 DEF TypeLocal
<1> QED
  BY <1>1, <1>2 DEF TypeOK

\* The state of the thread control keeps its type.
THEOREM TypeCorrect == Spec => []TypeOK
<1>1. TypeOK /\ [Next]_vars => TypeOK'
  BY TypeGlobalStep, TypeLocalStep DEF TypeOK
<1> QED
  BY <1>1, InitType, PTL DEF Spec

-----------------------------------------------------------------------------
(* Counting threads.                                                       *)

CountOf(f, Q) == Cardinality({u \in Threads : f[u] \in Q})
One(l, Q) == IF l \in Q THEN 1 ELSE 0

\* Moving one thread from its label to l changes the number of threads in Q by
\* what the two labels contribute.
LEMMA CountMove ==
    ASSUME NEW f \in [Threads -> PCs], NEW t \in Threads, NEW l \in PCs, NEW Q
    PROVE  /\ CountOf(f, Q) \in Nat
           /\ CountOf([f EXCEPT ![t] = l], Q) = CountOf(f, Q) + One(l, Q) - One(f[t], Q)
<1> DEFINE S == {u \in Threads : f[u] \in Q}
           R == {u \in Threads : [f EXCEPT ![t] = l][u] \in Q}
<1>1. IsFiniteSet(S) /\ IsFiniteSet(R)
  BY ThreadsFinite, FS_Subset
<1>2. Cardinality(S) \in Nat /\ Cardinality(R) \in Nat
  BY <1>1, FS_CardinalityType
<1>3. CASE l \in Q /\ f[t] \notin Q
  <2>1. R = S \cup {t} /\ t \notin S
    BY <1>3
  <2>2. Cardinality(R) = Cardinality(S) + 1
    BY <2>1, <1>1, FS_AddElement
  <2> QED BY <1>2, <1>3, <2>2 DEF CountOf, One
<1>4. CASE l \notin Q /\ f[t] \in Q
  <2>1. S = R \cup {t} /\ t \notin R
    BY <1>4
  <2>2. Cardinality(S) = Cardinality(R) + 1
    BY <2>1, <1>1, FS_AddElement
  <2> QED BY <1>2, <1>4, <2>2 DEF CountOf, One
<1>5. CASE l \in Q <=> f[t] \in Q
  <2>1. R = S
    BY <1>5
  <2> QED BY <1>2, <1>5, <2>1 DEF CountOf, One
<1> QED
  BY <1>3, <1>4, <1>5

\* What a thread at l adds to s_iRunningCount.
Weight(l) == One(l, InVMPCs \cup ExtPCs) + One(l, {"x_in"})

Running(f) == CountOf(f, InVMPCs \cup ExtPCs) + CountOf(f, {"x_in"})

\* What each label contributes to s_iRunningCount: nothing outside the VM, one
\* inside, two for a foreign thread just before hb_vmRequestReenterExt() returns.
LEMMA Weights ==
    /\ Weight("run") = 1 /\ Weight("op") = 1 /\ Weight("create") = 1
    /\ Weight("gc_try") = 1 /\ Weight("gc_force") = 1 /\ Weight("collect") = 1
    /\ Weight("mark") = 1 /\ Weight("release") = 1 /\ Weight("x_init") = 1
    /\ Weight("x_attach") = 1 /\ Weight("x_lock_wait") = 1 /\ Weight("x_in") = 2
    /\ Weight("test_wait") = 0 /\ Weight("lock_wait") = 0 /\ Weight("attach_wait") = 0
    /\ Weight("x_wait") = 0 /\ Weight("none") = 0 /\ Weight("registered") = 0
    /\ Weight("init") = 0 /\ Weight("attach") = 0 /\ Weight("unlocked") = 0
    /\ Weight("susp_wait") = 0 /\ Weight("term_wait") = 0 /\ Weight("exit_wait") = 0
    /\ Weight("wait_wait") = 0
  BY DEF Weight, One, InVMPCs, ExtPCs

\* Moving one thread changes the count of running threads by the difference of
\* the weights of its labels.
LEMMA RunningMove ==
    ASSUME NEW f \in [Threads -> PCs], NEW t \in Threads, NEW l \in PCs
    PROVE  /\ Running(f) \in Nat
           /\ Running([f EXCEPT ![t] = l]) = Running(f) + Weight(l) - Weight(f[t])
<1>1. One(l, InVMPCs \cup ExtPCs) \in Int /\ One(l, {"x_in"}) \in Int
      /\ One(f[t], InVMPCs \cup ExtPCs) \in Int /\ One(f[t], {"x_in"}) \in Int
  BY DEF One
<1>2. /\ CountOf(f, InVMPCs \cup ExtPCs) \in Nat
      /\ CountOf([f EXCEPT ![t] = l], InVMPCs \cup ExtPCs) =
           CountOf(f, InVMPCs \cup ExtPCs) + One(l, InVMPCs \cup ExtPCs)
             - One(f[t], InVMPCs \cup ExtPCs)
  BY CountMove
<1>3. /\ CountOf(f, {"x_in"}) \in Nat
      /\ CountOf([f EXCEPT ![t] = l], {"x_in"}) =
           CountOf(f, {"x_in"}) + One(l, {"x_in"}) - One(f[t], {"x_in"})
  BY CountMove
<1> QED
  BY <1>1, <1>2, <1>3 DEF Running, Weight

\* The same for a step: a thread that goes from pc[t] to l.
LEMMA RunningGoto ==
    ASSUME TypeOK, RunningCountExact
    PROVE  /\ s_iRunningCount \in Nat
           /\ \A t \in Threads, l \in PCs :
                Goto(t, l) /\ s_iRunningCount' = s_iRunningCount + Weight(l) - Weight(pc[t])
                  => RunningCountExact'
<1>1. RunningCountExact <=> s_iRunningCount = Running(pc)
  BY DEF RunningCountExact, Count, Running, CountOf
<1>2. RunningCountExact' <=> s_iRunningCount' = Running(pc')
  BY DEF RunningCountExact, Count, Running, CountOf
<1>3. s_iRunningCount \in Nat
  BY <1>1, RunningMove, Labels, MainIsThread DEF TypeOK, TypeLocal
<1> QED
  BY <1>1, <1>2, <1>3, RunningMove, ZenonT(60) DEF Goto, TypeOK, TypeLocal

\* A thread that starts another one: two threads move, the count does not.
LEMMA RunningPair ==
    ASSUME TypeOK, RunningCountExact, NEW p \in Threads, NEW t \in Threads,
           NEW k \in PCs, NEW l \in PCs, pc[p] # pc[t],
           pc' = [pc EXCEPT ![p] = k, ![t] = l], UNCHANGED s_iRunningCount,
           Weight(k) = Weight(pc[p]), Weight(l) = Weight(pc[t])
    PROVE  RunningCountExact'
<1> DEFINE g == [pc EXCEPT ![p] = k]
<1>1. pc \in [Threads -> PCs] /\ g \in [Threads -> PCs] /\ pc' = [g EXCEPT ![t] = l]
      /\ g[t] = pc[t]
  BY DEF TypeOK, TypeLocal
<1>2. Weight(k) \in Int /\ Weight(l) \in Int
  BY DEF Weight, One
<1>3. Running(pc) \in Nat /\ Running(g) = Running(pc) + Weight(k) - Weight(pc[p])
  BY <1>1, RunningMove
<1>4. Running([g EXCEPT ![t] = l]) = Running(g) + Weight(l) - Weight(g[t])
  BY <1>1, RunningMove
<1>5. Running(pc') = Running(pc)
  BY <1>1, <1>2, <1>3, <1>4
<1> QED
  BY <1>5 DEF RunningCountExact, Count, Running, CountOf

\* s_iRunningCount stays exact.
LEMMA RunningStep == TypeOK /\ RunningCountExact /\ [Next]_vars => RunningCountExact'
<1> SUFFICES ASSUME TypeOK, RunningCountExact, [Next]_vars PROVE RunningCountExact'
  OBVIOUS
<1> USE RunningGoto, Labels, Weights DEF SleepAt, Woken
<1>5. ASSUME UNCHANGED <<pc, s_iRunningCount>> PROVE RunningCountExact'
  BY <1>5 DEF RunningCountExact, Count
<1>1. ASSUME NEW t \in Threads, ThreadNext(t) PROVE RunningCountExact'
  <2>1. CASE FetchOpcode(t) BY <2>1 DEF FetchOpcode
  <2>2. CASE RequestTest(t) BY <2>2 DEF RequestTest, RequestTestLoop
  <2>3. CASE RequestTestWoken(t) BY <2>3 DEF RequestTestWoken, RequestTestLoop
  <2>4. CASE EndOpcode(t) BY <2>4 DEF EndOpcode
  <2>5. CASE RequestQuery(t) BY <2>5, <1>5 DEF RequestQuery
  <2>6. CASE VmUnlock(t) BY <2>6 DEF VmUnlock, LeaveVM
  <2>7. CASE VmUnlockNested(t) BY <2>7, <1>5 DEF VmUnlockNested
  <2>8. CASE VmLockNested(t) BY <2>8, <1>5 DEF VmLockNested
  <2>9. CASE VmLock(t) BY <2>9 DEF VmLock, EnterVM
  <2>10. CASE VmLockWoken(t) BY <2>10 DEF VmLockWoken, EnterVM
  <2>11. CASE VmLockForce(t) BY <2>11 DEF VmLockForce
  <2>12. CASE RequestReenter(t) BY <2>12, <1>5 DEF RequestReenter, EnterVM
  <2>13. CASE RequestRestore(t) BY <2>13 DEF RequestRestore, LeaveVM
  <2>14. CASE GcCollectAll(t) BY <2>14 DEF GcCollectAll
  <2>15. CASE SuspendThreads(t) BY <2>15 DEF SuspendThreads
  <2>16. CASE SuspendThreadsWoken(t) BY <2>16 DEF SuspendThreadsWoken
  <2>17. CASE GcSkip(t) BY <2>17 DEF GcSkip, ResumeThreads
  <2>18. CASE GcMark(t) BY <2>18 DEF GcMark
  <2>19. CASE GcSweep(t) BY <2>19 DEF GcSweep, ResumeThreads
  <2>20. CASE GcFinish(t) BY <2>20 DEF GcFinish
  <2>21. CASE StackInit(t) BY <2>21 DEF StackInit
  <2>22. CASE ThreadInit(t) BY <2>22 DEF ThreadInit, EnterVM
  <2>23. CASE ThreadQuit(t) BY <2>23 DEF ThreadQuit
  <2>24. CASE StackRelease(t) BY <2>24 DEF StackRelease
  <2>25. CASE RequestReenterExt(t) BY <2>25 DEF RequestReenterExt, ReenterExtLoop
  <2>26. CASE RequestReenterExtWoken(t) BY <2>26 DEF RequestReenterExtWoken, ReenterExtLoop
  <2>27. CASE ExtStackInit(t) BY <2>27 DEF ExtStackInit
  <2>28. CASE ExtLock(t) BY <2>28 DEF ExtLock, EnterVM
  <2>29. CASE ExtEnter(t) BY <2>29 DEF ExtEnter
  <2>30. CASE SpuriousWakeup(t) BY <2>30, <1>5 DEF SpuriousWakeup
  <2> QED
    BY <1>1, <2>1, <2>2, <2>3, <2>4, <2>5, <2>6, <2>7, <2>8, <2>9, <2>10, <2>11, <2>12,
       <2>13, <2>14, <2>15, <2>16, <2>17, <2>18, <2>19, <2>20, <2>21, <2>22, <2>23, <2>24,
       <2>25, <2>26, <2>27, <2>28, <2>29, <2>30 DEF ThreadNext
<1>2. ASSUME NEW p \in Threads, NEW t \in Threads, PairNext(p, t) PROVE RunningCountExact'
  <2>1. CASE ThreadRegister(p, t)
    <3>1. /\ pc[p] = "op" /\ pc[t] = "none"
          /\ pc' = [pc EXCEPT ![p] = "create", ![t] = "registered"]
          /\ s_iRunningCount' = s_iRunningCount
      BY <2>1 DEF ThreadRegister
    <3> HIDE RunningGoto, Weights, Labels
    <3>2. Weight("create") = Weight(pc[p]) /\ Weight("registered") = Weight(pc[t]) /\ pc[p] # pc[t]
      BY <3>1, Weights
    <3>3. "create" \in PCs /\ "registered" \in PCs
      BY Labels
    <3> QED BY <3>1, <3>2, <3>3, RunningPair
  <2>2. CASE ThreadCreate(p, t)
    <3>1. /\ pc[p] = "create" /\ pc[t] = "registered"
          /\ pc' = [pc EXCEPT ![p] = "op", ![t] = "init"]
          /\ s_iRunningCount' = s_iRunningCount
      BY <2>2 DEF ThreadCreate
    <3> HIDE RunningGoto, Weights, Labels
    <3>2. Weight("op") = Weight(pc[p]) /\ Weight("init") = Weight(pc[t]) /\ pc[p] # pc[t]
      BY <3>1, Weights
    <3>3. "op" \in PCs /\ "init" \in PCs
      BY Labels
    <3> QED BY <3>1, <3>2, <3>3, RunningPair
  <2>3. CASE ThreadRelease(p, t)
    <3>1. /\ pc[p] = "create" /\ pc[t] = "registered"
          /\ pc' = [pc EXCEPT ![p] = "op", ![t] = "none"]
          /\ s_iRunningCount' = s_iRunningCount
      BY <2>3 DEF ThreadRelease
    <3> HIDE RunningGoto, Weights, Labels
    <3>2. Weight("op") = Weight(pc[p]) /\ Weight("none") = Weight(pc[t]) /\ pc[p] # pc[t]
      BY <3>1, Weights
    <3>3. "op" \in PCs /\ "none" \in PCs
      BY Labels
    <3> QED BY <3>1, <3>2, <3>3, RunningPair
  <2>4. CASE ThreadQuitRequest(p, t) BY <2>4, <1>5 DEF ThreadQuitRequest
  <2> QED BY <1>2, <2>1, <2>2, <2>3, <2>4 DEF PairNext
<1>3. ASSUME MainNext PROVE RunningCountExact'
  <2>1. CASE TerminateThreads BY <2>1, MainIsThread DEF TerminateThreads, TerminateLoop
  <2>2. CASE TerminateThreadsWoken BY <2>2, MainIsThread DEF TerminateThreadsWoken, TerminateLoop
  <2>3. CASE WaitForThreads BY <2>3, MainIsThread DEF WaitForThreads, WaitLoop
  <2>4. CASE WaitForThreadsWoken BY <2>4, MainIsThread DEF WaitForThreadsWoken, WaitLoop
  <2>5. CASE VmQuit BY <2>5, MainIsThread DEF VmQuit, TerminateLoop, DoExitFunctions
  <2>6. CASE VmQuitWoken BY <2>6, MainIsThread DEF VmQuitWoken, TerminateLoop, DoExitFunctions
  <2> QED BY <1>3, <2>1, <2>2, <2>3, <2>4, <2>5, <2>6 DEF MainNext
<1>4. CASE UNCHANGED vars
  BY <1>4, <1>5 DEF vars
<1> QED
  BY <1>1, <1>2, <1>3, <1>4 DEF Next

-----------------------------------------------------------------------------
(* The exclusive thread.                                                   *)

\* s_vmMtx stays with the thread that stopped the others, and nobody else is
\* counted as long as it is kept.
LEMMA ExclusiveStep ==
    TypeOK /\ ExclusiveMutex /\ ExclusiveCount /\ [Next]_vars
      => ExclusiveMutex' /\ ExclusiveCount'
<1> SUFFICES ASSUME TypeOK, ExclusiveMutex, ExclusiveCount, [Next]_vars
             PROVE  ExclusiveMutex' /\ ExclusiveCount'
  OBVIOUS
<1> pc \in [Threads -> PCs] /\ s_iRunningCount \in Int /\ NoThread \notin Threads
  BY ThreadsAssumption DEF TypeOK, TypeGlobal, TypeLocal
<1> USE DEF ExclusiveMutex, ExclusiveCount, Goto, SleepAt, Woken
<1>1. ASSUME NEW t \in Threads, ThreadNext(t) PROVE ExclusiveMutex' /\ ExclusiveCount'
  <2>1. CASE FetchOpcode(t) BY <2>1 DEF FetchOpcode
  <2>2. CASE RequestTest(t) BY <2>2 DEF RequestTest, RequestTestLoop
  <2>3. CASE RequestTestWoken(t) BY <2>3 DEF RequestTestWoken, RequestTestLoop
  <2>4. CASE EndOpcode(t) BY <2>4 DEF EndOpcode
  <2>5. CASE RequestQuery(t) BY <2>5 DEF RequestQuery
  <2>6. CASE VmUnlock(t) BY <2>6 DEF VmUnlock, LeaveVM
  <2>7. CASE VmUnlockNested(t) BY <2>7 DEF VmUnlockNested
  <2>8. CASE VmLockNested(t) BY <2>8 DEF VmLockNested
  <2>9. CASE VmLock(t) BY <2>9 DEF VmLock, EnterVM
  <2>10. CASE VmLockWoken(t) BY <2>10 DEF VmLockWoken, EnterVM
  <2>11. CASE VmLockForce(t) BY <2>11 DEF VmLockForce
  <2>12. CASE RequestReenter(t) BY <2>12 DEF RequestReenter, EnterVM
  <2>13. CASE RequestRestore(t) BY <2>13 DEF RequestRestore, LeaveVM
  <2>14. CASE GcCollectAll(t) BY <2>14 DEF GcCollectAll
  <2>15. CASE SuspendThreads(t) BY <2>15 DEF SuspendThreads
  <2>16. CASE SuspendThreadsWoken(t) BY <2>16 DEF SuspendThreadsWoken
  <2>17. CASE GcSkip(t) BY <2>17 DEF GcSkip, ResumeThreads
  <2>18. CASE GcMark(t) BY <2>18 DEF GcMark
  <2>19. CASE GcSweep(t) BY <2>19 DEF GcSweep, ResumeThreads
  <2>20. CASE GcFinish(t) BY <2>20 DEF GcFinish
  <2>21. CASE StackInit(t) BY <2>21 DEF StackInit
  <2>22. CASE ThreadInit(t) BY <2>22 DEF ThreadInit, EnterVM
  <2>23. CASE ThreadQuit(t) BY <2>23 DEF ThreadQuit
  <2>24. CASE StackRelease(t) BY <2>24 DEF StackRelease
  <2>25. CASE RequestReenterExt(t) BY <2>25 DEF RequestReenterExt, ReenterExtLoop
  <2>26. CASE RequestReenterExtWoken(t) BY <2>26 DEF RequestReenterExtWoken, ReenterExtLoop
  <2>27. CASE ExtStackInit(t) BY <2>27 DEF ExtStackInit
  <2>28. CASE ExtLock(t) BY <2>28 DEF ExtLock, EnterVM
  <2>29. CASE ExtEnter(t) BY <2>29 DEF ExtEnter
  <2>30. CASE SpuriousWakeup(t) BY <2>30 DEF SpuriousWakeup
  <2> QED
    BY <1>1, <2>1, <2>2, <2>3, <2>4, <2>5, <2>6, <2>7, <2>8, <2>9, <2>10, <2>11, <2>12,
       <2>13, <2>14, <2>15, <2>16, <2>17, <2>18, <2>19, <2>20, <2>21, <2>22, <2>23, <2>24,
       <2>25, <2>26, <2>27, <2>28, <2>29, <2>30 DEF ThreadNext
<1>2. ASSUME NEW p \in Threads, NEW t \in Threads, PairNext(p, t) PROVE ExclusiveMutex' /\ ExclusiveCount'
  <2>1. CASE ThreadRegister(p, t) BY <2>1 DEF ThreadRegister
  <2>2. CASE ThreadCreate(p, t) BY <2>2 DEF ThreadCreate
  <2>3. CASE ThreadRelease(p, t) BY <2>3 DEF ThreadRelease
  <2>4. CASE ThreadQuitRequest(p, t) BY <2>4 DEF ThreadQuitRequest
  <2> QED BY <1>2, <2>1, <2>2, <2>3, <2>4 DEF PairNext
<1>3. ASSUME MainNext PROVE ExclusiveMutex' /\ ExclusiveCount'
  <2>1. CASE TerminateThreads BY <2>1, MainIsThread DEF TerminateThreads, TerminateLoop
  <2>2. CASE TerminateThreadsWoken BY <2>2, MainIsThread DEF TerminateThreadsWoken, TerminateLoop
  <2>3. CASE WaitForThreads BY <2>3, MainIsThread DEF WaitForThreads, WaitLoop
  <2>4. CASE WaitForThreadsWoken BY <2>4, MainIsThread DEF WaitForThreadsWoken, WaitLoop
  <2>5. CASE VmQuit BY <2>5, MainIsThread DEF VmQuit, TerminateLoop, DoExitFunctions
  <2>6. CASE VmQuitWoken BY <2>6, MainIsThread DEF VmQuitWoken, TerminateLoop, DoExitFunctions
  <2> QED BY <1>3, <2>1, <2>2, <2>3, <2>4, <2>5, <2>6 DEF MainNext
<1>4. CASE UNCHANGED vars
  BY <1>4 DEF vars
<1> QED
  BY <1>1, <1>2, <1>3, <1>4 DEF Next

\* Every step of the thread control keeps the inductive invariant.
LEMMA StopInvStep == StopInv /\ [Next]_vars => StopInv'
  BY TypeGlobalStep, TypeLocalStep, RunningStep, ExclusiveStep DEF StopInv, TypeOK

\* The inductive invariant holds when hb_vmInit() returns.
LEMMA InitStopInv == Init => StopInv
<1> SUFFICES ASSUME Init PROVE StopInv
  OBVIOUS
<1>1. TypeOK
  BY InitType
<1>2. RunningCountExact
  <2>1. {t \in Threads : pc[t] \in InVMPCs \cup ExtPCs} = {Main}
    BY MainIsThread DEF Init, InVMPCs, ExtPCs
  <2>2. {t \in Threads : pc[t] \in {"x_in"}} = {}
    BY DEF Init
  <2>3. Cardinality({Main}) = 1 /\ Cardinality({}) = 0
    BY FS_Singleton, FS_EmptySet
  <2>4. s_iRunningCount = 1
    BY DEF Init
  <2> QED
    BY <2>1, <2>2, <2>3, <2>4 DEF RunningCountExact, Count
<1>3. ExclusiveMutex /\ ExclusiveCount
  BY ThreadsAssumption DEF Init, ExclusiveMutex, ExclusiveCount
<1> QED
  BY <1>1, <1>2, <1>3 DEF StopInv

\* The collector is alone: a second thread inside the VM would make the count
\* at least two.
LEMMA StopInvStops == StopInv => StopTheWorld
<1> SUFFICES ASSUME StopInv, NEW t \in Threads, pc[t] \in {"collect", "mark"}
             PROVE  /\ s_vmMtx = t
                    /\ \A u \in Threads \ {t} : pc[u] \notin InVMPCs \cup {"x_init", "x_in"}
  BY DEF StopTheWorld
<1> DEFINE S == {u \in Threads : pc[u] \in InVMPCs \cup ExtPCs}
           R == {u \in Threads : pc[u] \in {"x_in"}}
<1>1. s_vmMtx = t /\ s_iRunningCount <= 1
  BY ThreadsAssumption DEF StopInv, ExclusiveMutex, ExclusiveCount
<1>2. IsFiniteSet(S) /\ IsFiniteSet(R)
  BY ThreadsFinite, FS_Subset
<1>3. Cardinality(S) \in Nat /\ Cardinality(R) \in Nat
  BY <1>2, FS_CardinalityType
<1>4. Cardinality(S) <= 1
  BY <1>1, <1>3 DEF StopInv, RunningCountExact, Count
<1>5. t \in S
  BY DEF InVMPCs
<1>6. ASSUME NEW u \in Threads \ {t}, pc[u] \in InVMPCs \cup {"x_init", "x_in"} PROVE FALSE
  <2>1. u \in S /\ u # t
    BY <1>6 DEF ExtPCs
  <2>2. {t, u} \subseteq S
    BY <2>1, <1>5
  <2>3. Cardinality({t, u}) <= Cardinality(S)
    BY <2>2, <1>2, FS_Subset
  <2>4. IsFiniteSet({t}) /\ Cardinality({t}) = 1
    BY FS_Singleton
  <2>5. Cardinality({t} \cup {u}) = 2
    <3>1. u \notin {t}
      BY <2>1
    <3>2. Cardinality({t} \cup {u}) = Cardinality({t}) + 1
      BY <3>1, <2>4, FS_AddElement
    <3> QED BY <2>4, <3>2
  <2>6. {t, u} = {t} \cup {u}
    OBVIOUS
  <2> QED
    BY <2>3, <2>5, <2>6, <1>3, <1>4
<1> QED
  BY <1>1, <1>6

\* s_iRunningCount is the number of threads inside the VM, with the foreign
\* threads counted as hb_vmRequestReenterExt() counts them.
THEOREM RunningCountCorrect == Spec => []RunningCountExact
<1>1. StopInv => RunningCountExact
  BY DEF StopInv
<1> QED
  BY <1>1, InitStopInv, StopInvStep, PTL DEF Spec

\* Between the success of hb_vmSuspendThreads() and hb_vmResumeThreads() one
\* thread is inside the VM and it holds s_vmMtx, whatever the others do.
THEOREM StopTheWorldCorrect == Spec => []StopTheWorld
  BY InitStopInv, StopInvStep, StopInvStops, PTL DEF Spec
-----------------------------------------------------------------------------
(* Counting stacks.                                                        *)

\* What a thread at l adds to s_iStackCount.
Has(l) == One(l, StackPCs)

\* Every label stands for a thread with a stack, but for the three before
\* hb_vmStackAdd(), or behind hb_vmStackDel() and the section that frees it.
LEMMA StackWeights ==
    /\ Has("none") = 0 /\ Has("x_wait") = 0 /\ Has("x_init") = 0
    /\ \A l \in PCs \ {"none", "x_wait", "x_init"} : Has(l) = 1
  BY DEF Has, One, StackPCs

\* Moving one thread changes the number of stacks by what its labels have.
LEMMA StackMove ==
    ASSUME NEW f \in [Threads -> PCs], NEW t \in Threads, NEW l \in PCs
    PROVE  /\ CountOf(f, StackPCs) \in Nat
           /\ CountOf([f EXCEPT ![t] = l], StackPCs) = CountOf(f, StackPCs) + Has(l) - Has(f[t])
  BY CountMove DEF Has

\* What a thread adds to the number of stacks is a number.
LEMMA HasType == \A l : Has(l) \in {0, 1}
  BY DEF Has, One

\* A thread that goes from pc[t] to l changes the number of stacks by the
\* difference of the two labels.
LEMMA StackGoto ==
    ASSUME TypeOK, StackCountExact
    PROVE  /\ s_iStackCount \in Nat
           /\ \A t \in Threads, l \in PCs :
                Goto(t, l) /\ s_iStackCount' = s_iStackCount + Has(l) - Has(pc[t])
                  => StackCountExact'
<1>1. StackCountExact <=> s_iStackCount = CountOf(pc, StackPCs)
  BY DEF StackCountExact, Count, CountOf
<1>2. StackCountExact' <=> s_iStackCount' = CountOf(pc', StackPCs)
  BY DEF StackCountExact, Count, CountOf
<1>3. s_iStackCount \in Nat
  BY <1>1, StackMove, Labels, MainIsThread DEF TypeOK, TypeLocal
<1> QED
  BY <1>1, <1>2, <1>3, StackMove, ZenonT(60) DEF Goto, TypeOK, TypeLocal

\* A thread that starts another one: two threads move.
LEMMA StackPair ==
    ASSUME TypeOK, StackCountExact, NEW p \in Threads, NEW t \in Threads,
           NEW k \in PCs, NEW l \in PCs, pc[p] # pc[t],
           pc' = [pc EXCEPT ![p] = k, ![t] = l],
           Has(k) = Has(pc[p]), s_iStackCount' = s_iStackCount + Has(l) - Has(pc[t])
    PROVE  StackCountExact'
<1> DEFINE g == [pc EXCEPT ![p] = k]
<1>1. pc \in [Threads -> PCs] /\ g \in [Threads -> PCs] /\ pc' = [g EXCEPT ![t] = l]
      /\ g[t] = pc[t]
  BY DEF TypeOK, TypeLocal
<1>2. Has(k) \in Int /\ Has(l) \in Int
  BY HasType
<1>3. CountOf(pc, StackPCs) \in Nat
      /\ CountOf(g, StackPCs) = CountOf(pc, StackPCs) + Has(k) - Has(pc[p])
  BY <1>1, StackMove
<1>4. CountOf([g EXCEPT ![t] = l], StackPCs) = CountOf(g, StackPCs) + Has(l) - Has(g[t])
  BY <1>1, StackMove
<1>5. CountOf(pc', StackPCs) = CountOf(pc, StackPCs) + Has(l) - Has(pc[t])
  BY <1>1, <1>2, <1>3, <1>4
<1> QED
  BY <1>5 DEF StackCountExact, Count, CountOf

\* s_iStackCount stays exact: hb_vmThreadRegister() counts a stack before the
\* thread exists, hb_vmThreadRelease() and hb_vmStackRelease() take it back once.
LEMMA StackStep == TypeOK /\ StackCountExact /\ [Next]_vars => StackCountExact'
<1> SUFFICES ASSUME TypeOK, StackCountExact, [Next]_vars PROVE StackCountExact'
  OBVIOUS
<1> USE StackGoto, Labels, StackWeights DEF SleepAt, Woken
<1>5. ASSUME UNCHANGED <<pc, s_iStackCount>> PROVE StackCountExact'
  BY <1>5 DEF StackCountExact, Count
<1>1. ASSUME NEW t \in Threads, ThreadNext(t) PROVE StackCountExact'
  <2>1. CASE FetchOpcode(t) BY <2>1 DEF FetchOpcode
  <2>2. CASE RequestTest(t) BY <2>2 DEF RequestTest, RequestTestLoop
  <2>3. CASE RequestTestWoken(t) BY <2>3 DEF RequestTestWoken, RequestTestLoop
  <2>4. CASE EndOpcode(t) BY <2>4 DEF EndOpcode
  <2>5. CASE RequestQuery(t) BY <2>5, <1>5 DEF RequestQuery
  <2>6. CASE VmUnlock(t) BY <2>6 DEF VmUnlock, LeaveVM
  <2>7. CASE VmUnlockNested(t) BY <2>7, <1>5 DEF VmUnlockNested
  <2>8. CASE VmLockNested(t) BY <2>8, <1>5 DEF VmLockNested
  <2>9. CASE VmLock(t) BY <2>9 DEF VmLock, EnterVM
  <2>10. CASE VmLockWoken(t) BY <2>10 DEF VmLockWoken, EnterVM
  <2>11. CASE VmLockForce(t) BY <2>11 DEF VmLockForce
  <2>12. CASE RequestReenter(t) BY <2>12, <1>5 DEF RequestReenter, EnterVM
  <2>13. CASE RequestRestore(t) BY <2>13 DEF RequestRestore, LeaveVM
  <2>14. CASE GcCollectAll(t) BY <2>14 DEF GcCollectAll
  <2>15. CASE SuspendThreads(t) BY <2>15 DEF SuspendThreads
  <2>16. CASE SuspendThreadsWoken(t) BY <2>16 DEF SuspendThreadsWoken
  <2>17. CASE GcSkip(t) BY <2>17 DEF GcSkip, ResumeThreads
  <2>18. CASE GcMark(t) BY <2>18 DEF GcMark
  <2>19. CASE GcSweep(t) BY <2>19 DEF GcSweep, ResumeThreads
  <2>20. CASE GcFinish(t) BY <2>20 DEF GcFinish
  <2>21. CASE StackInit(t) BY <2>21 DEF StackInit
  <2>22. CASE ThreadInit(t) BY <2>22 DEF ThreadInit, EnterVM
  <2>23. CASE ThreadQuit(t) BY <2>23 DEF ThreadQuit
  <2>24. CASE StackRelease(t) BY <2>24 DEF StackRelease
  <2>25. CASE RequestReenterExt(t) BY <2>25 DEF RequestReenterExt, ReenterExtLoop
  <2>26. CASE RequestReenterExtWoken(t) BY <2>26 DEF RequestReenterExtWoken, ReenterExtLoop
  <2>27. CASE ExtStackInit(t) BY <2>27 DEF ExtStackInit
  <2>28. CASE ExtLock(t) BY <2>28 DEF ExtLock, EnterVM
  <2>29. CASE ExtEnter(t) BY <2>29 DEF ExtEnter
  <2>30. CASE SpuriousWakeup(t) BY <2>30, <1>5 DEF SpuriousWakeup
  <2> QED
    BY <1>1, <2>1, <2>2, <2>3, <2>4, <2>5, <2>6, <2>7, <2>8, <2>9, <2>10, <2>11, <2>12,
       <2>13, <2>14, <2>15, <2>16, <2>17, <2>18, <2>19, <2>20, <2>21, <2>22, <2>23, <2>24,
       <2>25, <2>26, <2>27, <2>28, <2>29, <2>30 DEF ThreadNext
<1>2. ASSUME NEW p \in Threads, NEW t \in Threads, PairNext(p, t) PROVE StackCountExact'
  <2>1. CASE ThreadRegister(p, t)
    <3>1. /\ pc[p] = "op" /\ pc[t] = "none"
          /\ pc' = [pc EXCEPT ![p] = "create", ![t] = "registered"]
          /\ s_iStackCount' = s_iStackCount + 1
      BY <2>1 DEF ThreadRegister
    <3> HIDE StackGoto, StackWeights, Labels
    <3>2. Has("create") = 1 /\ Has(pc[p]) = 1 /\ Has("registered") = 1 /\ Has(pc[t]) = 0
          /\ pc[p] # pc[t]
      BY <3>1, StackWeights, Labels
    <3>3. "create" \in PCs /\ "registered" \in PCs
      BY Labels
    <3>4. Has("create") = Has(pc[p])
          /\ s_iStackCount' = s_iStackCount + Has("registered") - Has(pc[t])
      BY <3>1, <3>2, StackGoto
    <3> QED BY <3>1, <3>2, <3>3, <3>4, StackPair
  <2>2. CASE ThreadCreate(p, t)
    <3>1. /\ pc[p] = "create" /\ pc[t] = "registered"
          /\ pc' = [pc EXCEPT ![p] = "op", ![t] = "init"]
          /\ s_iStackCount' = s_iStackCount
      BY <2>2 DEF ThreadCreate
    <3> HIDE StackGoto, StackWeights, Labels
    <3>2. Has("op") = 1 /\ Has(pc[p]) = 1 /\ Has("init") = 1 /\ Has(pc[t]) = 1
          /\ pc[p] # pc[t]
      BY <3>1, StackWeights, Labels
    <3>3. "op" \in PCs /\ "init" \in PCs
      BY Labels
    <3>4. Has("op") = Has(pc[p])
          /\ s_iStackCount' = s_iStackCount + Has("init") - Has(pc[t])
      BY <3>1, <3>2, StackGoto
    <3> QED BY <3>1, <3>2, <3>3, <3>4, StackPair
  <2>3. CASE ThreadRelease(p, t)
    <3>1. /\ pc[p] = "create" /\ pc[t] = "registered"
          /\ pc' = [pc EXCEPT ![p] = "op", ![t] = "none"]
          /\ s_iStackCount' = s_iStackCount - 1
      BY <2>3 DEF ThreadRelease
    <3> HIDE StackGoto, StackWeights, Labels
    <3>2. Has("op") = 1 /\ Has(pc[p]) = 1 /\ Has("none") = 0 /\ Has(pc[t]) = 1
          /\ pc[p] # pc[t]
      BY <3>1, StackWeights, Labels
    <3>3. "op" \in PCs /\ "none" \in PCs
      BY Labels
    <3>4. Has("op") = Has(pc[p])
          /\ s_iStackCount' = s_iStackCount + Has("none") - Has(pc[t])
      BY <3>1, <3>2, StackGoto
    <3> QED BY <3>1, <3>2, <3>3, <3>4, StackPair
  <2>4. CASE ThreadQuitRequest(p, t) BY <2>4, <1>5 DEF ThreadQuitRequest
  <2> QED BY <1>2, <2>1, <2>2, <2>3, <2>4 DEF PairNext
<1>3. ASSUME MainNext PROVE StackCountExact'
  <2>1. CASE TerminateThreads BY <2>1, MainIsThread DEF TerminateThreads, TerminateLoop
  <2>2. CASE TerminateThreadsWoken BY <2>2, MainIsThread DEF TerminateThreadsWoken, TerminateLoop
  <2>3. CASE WaitForThreads BY <2>3, MainIsThread DEF WaitForThreads, WaitLoop
  <2>4. CASE WaitForThreadsWoken BY <2>4, MainIsThread DEF WaitForThreadsWoken, WaitLoop
  <2>5. CASE VmQuit BY <2>5, MainIsThread DEF VmQuit, TerminateLoop, DoExitFunctions
  <2>6. CASE VmQuitWoken BY <2>6, MainIsThread DEF VmQuitWoken, TerminateLoop, DoExitFunctions
  <2> QED BY <1>3, <2>1, <2>2, <2>3, <2>4, <2>5, <2>6 DEF MainNext
<1>4. CASE UNCHANGED vars
  BY <1>4, <1>5 DEF vars
<1> QED
  BY <1>1, <1>2, <1>3, <1>4 DEF Next

-----------------------------------------------------------------------------
(* Requests, sleepers and the collector.                                   *)

\* The main thread has a stack, and QUIT is its request: set on the way into the
\* wait of hb_vmTerminateThreads(), withdrawn on the way out.
LEMMA MainStep ==
    TypeOK /\ MainHasStack /\ QuitIsMains /\ [Next]_vars => MainHasStack' /\ QuitIsMains'
<1> SUFFICES ASSUME TypeOK, MainHasStack, QuitIsMains, [Next]_vars
             PROVE  MainHasStack' /\ QuitIsMains'
  OBVIOUS
<1> pc \in [Threads -> PCs] /\ Main \in Threads /\ Main \notin Workers /\ Main \notin Foreign
  BY MainIsThread, ThreadsAssumption DEF TypeOK, TypeLocal
<1> USE DEF MainHasStack, MainPCs, TermWaitPCs, QuitIsMains, Goto, SleepAt, Woken, STOP, QUIT
<1>1. ASSUME NEW t \in Threads, ThreadNext(t) PROVE MainHasStack' /\ QuitIsMains'
  <2>1. CASE FetchOpcode(t) BY <2>1 DEF FetchOpcode
  <2>2. CASE RequestTest(t) BY <2>2 DEF RequestTest, RequestTestLoop
  <2>3. CASE RequestTestWoken(t) BY <2>3 DEF RequestTestWoken, RequestTestLoop
  <2>4. CASE EndOpcode(t) BY <2>4 DEF EndOpcode
  <2>5. CASE RequestQuery(t) BY <2>5 DEF RequestQuery
  <2>6. CASE VmUnlock(t) BY <2>6 DEF VmUnlock, LeaveVM
  <2>7. CASE VmUnlockNested(t) BY <2>7 DEF VmUnlockNested
  <2>8. CASE VmLockNested(t) BY <2>8 DEF VmLockNested
  <2>9. CASE VmLock(t) BY <2>9 DEF VmLock, EnterVM
  <2>10. CASE VmLockWoken(t) BY <2>10 DEF VmLockWoken, EnterVM
  <2>11. CASE VmLockForce(t) BY <2>11 DEF VmLockForce
  <2>12. CASE RequestReenter(t) BY <2>12 DEF RequestReenter, EnterVM
  <2>13. CASE RequestRestore(t) BY <2>13 DEF RequestRestore, LeaveVM
  <2>14. CASE GcCollectAll(t) BY <2>14 DEF GcCollectAll
  <2>15. CASE SuspendThreads(t) BY <2>15 DEF SuspendThreads
  <2>16. CASE SuspendThreadsWoken(t) BY <2>16 DEF SuspendThreadsWoken
  <2>17. CASE GcSkip(t) BY <2>17 DEF GcSkip, ResumeThreads
  <2>18. CASE GcMark(t) BY <2>18 DEF GcMark
  <2>19. CASE GcSweep(t) BY <2>19 DEF GcSweep, ResumeThreads
  <2>20. CASE GcFinish(t) BY <2>20 DEF GcFinish
  <2>21. CASE StackInit(t) BY <2>21 DEF StackInit
  <2>22. CASE ThreadInit(t) BY <2>22 DEF ThreadInit, EnterVM
  <2>23. CASE ThreadQuit(t) BY <2>23 DEF ThreadQuit
  <2>24. CASE StackRelease(t) BY <2>24 DEF StackRelease
  <2>25. CASE RequestReenterExt(t) BY <2>25 DEF RequestReenterExt, ReenterExtLoop
  <2>26. CASE RequestReenterExtWoken(t) BY <2>26 DEF RequestReenterExtWoken, ReenterExtLoop
  <2>27. CASE ExtStackInit(t) BY <2>27 DEF ExtStackInit
  <2>28. CASE ExtLock(t) BY <2>28 DEF ExtLock, EnterVM
  <2>29. CASE ExtEnter(t) BY <2>29 DEF ExtEnter
  <2>30. CASE SpuriousWakeup(t) BY <2>30 DEF SpuriousWakeup
  <2> QED
    BY <1>1, <2>1, <2>2, <2>3, <2>4, <2>5, <2>6, <2>7, <2>8, <2>9, <2>10, <2>11, <2>12,
       <2>13, <2>14, <2>15, <2>16, <2>17, <2>18, <2>19, <2>20, <2>21, <2>22, <2>23, <2>24,
       <2>25, <2>26, <2>27, <2>28, <2>29, <2>30 DEF ThreadNext
<1>2. ASSUME NEW p \in Threads, NEW t \in Threads, PairNext(p, t) PROVE MainHasStack' /\ QuitIsMains'
  <2>1. CASE ThreadRegister(p, t) BY <2>1 DEF ThreadRegister
  <2>2. CASE ThreadCreate(p, t) BY <2>2 DEF ThreadCreate
  <2>3. CASE ThreadRelease(p, t) BY <2>3 DEF ThreadRelease
  <2>4. CASE ThreadQuitRequest(p, t) BY <2>4 DEF ThreadQuitRequest
  <2> QED BY <1>2, <2>1, <2>2, <2>3, <2>4 DEF PairNext
<1>3. ASSUME MainNext PROVE MainHasStack' /\ QuitIsMains'
  <2>1. CASE TerminateThreads BY <2>1 DEF TerminateThreads, TerminateLoop
  <2>2. CASE TerminateThreadsWoken BY <2>2 DEF TerminateThreadsWoken, TerminateLoop
  <2>3. CASE WaitForThreads BY <2>3 DEF WaitForThreads, WaitLoop
  <2>4. CASE WaitForThreadsWoken BY <2>4 DEF WaitForThreadsWoken, WaitLoop
  <2>5. CASE VmQuit BY <2>5 DEF VmQuit, TerminateLoop, DoExitFunctions
  <2>6. CASE VmQuitWoken BY <2>6 DEF VmQuitWoken, TerminateLoop, DoExitFunctions
  <2> QED BY <1>3, <2>1, <2>2, <2>3, <2>4, <2>5, <2>6 DEF MainNext
<1>4. CASE UNCHANGED vars
  BY <1>4 DEF vars
<1> QED
  BY <1>1, <1>2, <1>3, <1>4 DEF Next

\* When hb_vmTerminateThreads() or hb_vmWaitForThreads() finds one stack left it
\* is the main thread's: nobody else waits to stop the world or has stopped it.
LEMMA LastStackIsMains ==
    ASSUME TypeOK, StackCountExact, MainHasStack, s_iStackCount <= 1
    PROVE  \A u \in Threads \ {Main} : pc[u] \notin StackPCs
<1> SUFFICES ASSUME NEW u \in Threads \ {Main}, pc[u] \in StackPCs PROVE FALSE
  OBVIOUS
<1> DEFINE S == {v \in Threads : pc[v] \in StackPCs}
<1>1. IsFiniteSet(S) /\ Cardinality(S) \in Nat
  BY ThreadsFinite, FS_Subset, FS_CardinalityType
<1>2. Cardinality(S) <= 1
  BY <1>1 DEF StackCountExact, Count
<1>3. {Main} \cup {u} \subseteq S
  BY MainIsThread DEF MainHasStack, MainPCs, TermWaitPCs, StackPCs, PCs, InVMPCs, StopWaitPCs
<1>4. Cardinality({Main} \cup {u}) = 2
  <2>1. IsFiniteSet({Main}) /\ Cardinality({Main}) = 1
    BY FS_Singleton
  <2>2. u \notin {Main}
    OBVIOUS
  <2>3. Cardinality({Main} \cup {u}) = Cardinality({Main}) + 1
    BY <2>1, <2>2, FS_AddElement
  <2> QED BY <2>1, <2>3
<1>5. Cardinality({Main} \cup {u}) <= Cardinality(S)
  BY <1>1, <1>3, FS_Subset
<1> QED
  BY <1>1, <1>2, <1>4, <1>5

\* So hb_vmTerminateThreads(), which clears every request when it leaves its
\* wait, has no STOP to clear.
LEMMA NoSuspenderAtEnd ==
    ASSUME TypeOK, StackCountExact, MainHasStack, StopHasOneOwner,
           pc[Main] \in {"op", "run"} \cup TermWaitPCs, s_iStackCount <= 1
    PROVE  Suspenders = {} /\ STOP \notin hb_vmThreadRequest
<1>1. \A u \in Threads \ {Main} : pc[u] \notin StackPCs
  BY LastStackIsMains
<1>2. Suspenders = {}
  BY <1>1, Labels DEF Suspenders, StackPCs, TermWaitPCs
<1> QED
  BY <1>2 DEF StopHasOneOwner

\* STOP keeps one owner.
LEMMA OwnerStep ==
    TypeOK /\ StackCountExact /\ MainHasStack /\ StopHasOneOwner /\ [Next]_vars
      => StopHasOneOwner'
<1> SUFFICES ASSUME TypeOK, StackCountExact, MainHasStack, StopHasOneOwner, [Next]_vars
             PROVE  StopHasOneOwner'
  OBVIOUS
<1> pc \in [Threads -> PCs] /\ Main \in Threads /\ s_iStackCount \in Int
  BY MainIsThread DEF TypeOK, TypeLocal, TypeGlobal
<1> USE DEF Goto, SleepAt, Woken, STOP, QUIT
<1>5. ASSUME Suspenders' = Suspenders, UNCHANGED hb_vmThreadRequest PROVE StopHasOneOwner'
  BY <1>5 DEF StopHasOneOwner
<1>1. ASSUME NEW t \in Threads, ThreadNext(t) PROVE StopHasOneOwner'
  <2>1. CASE FetchOpcode(t) BY <2>1, <1>5 DEF FetchOpcode, Suspenders
  <2>2. CASE RequestTest(t) BY <2>2, <1>5 DEF RequestTest, RequestTestLoop, Suspenders
  <2>3. CASE RequestTestWoken(t) BY <2>3, <1>5 DEF RequestTestWoken, RequestTestLoop, Suspenders
  <2>4. CASE EndOpcode(t) BY <2>4, <1>5 DEF EndOpcode, Suspenders
  <2>5. CASE RequestQuery(t) BY <2>5, <1>5 DEF RequestQuery, Suspenders
  <2>6. CASE VmUnlock(t) BY <2>6, <1>5 DEF VmUnlock, LeaveVM, Suspenders
  <2>7. CASE VmUnlockNested(t) BY <2>7, <1>5 DEF VmUnlockNested, Suspenders
  <2>8. CASE VmLockNested(t) BY <2>8, <1>5 DEF VmLockNested, Suspenders
  <2>9. CASE VmLock(t) BY <2>9, <1>5 DEF VmLock, EnterVM, Suspenders
  <2>10. CASE VmLockWoken(t) BY <2>10, <1>5 DEF VmLockWoken, EnterVM, Suspenders
  <2>11. CASE VmLockForce(t) BY <2>11, <1>5 DEF VmLockForce, Suspenders
  <2>12. CASE RequestReenter(t) BY <2>12, <1>5 DEF RequestReenter, EnterVM, Suspenders
  <2>13. CASE RequestRestore(t) BY <2>13, <1>5 DEF RequestRestore, LeaveVM, Suspenders
  <2>14. CASE GcCollectAll(t) BY <2>14, <1>5 DEF GcCollectAll, Suspenders
  <2>15. CASE SuspendThreads(t) BY <2>15 DEF SuspendThreads, StopHasOneOwner, Suspenders
  <2>16. CASE SuspendThreadsWoken(t) BY <2>16 DEF SuspendThreadsWoken, StopHasOneOwner, Suspenders
  <2>17. CASE GcSkip(t) BY <2>17 DEF GcSkip, ResumeThreads, StopHasOneOwner, Suspenders
  <2>18. CASE GcMark(t) BY <2>18, <1>5 DEF GcMark, Suspenders
  <2>19. CASE GcSweep(t) BY <2>19 DEF GcSweep, ResumeThreads, StopHasOneOwner, Suspenders
  <2>20. CASE GcFinish(t) BY <2>20, <1>5 DEF GcFinish, Suspenders
  <2>21. CASE StackInit(t) BY <2>21, <1>5 DEF StackInit, Suspenders
  <2>22. CASE ThreadInit(t) BY <2>22, <1>5 DEF ThreadInit, EnterVM, Suspenders
  <2>23. CASE ThreadQuit(t) BY <2>23, <1>5 DEF ThreadQuit, Suspenders
  <2>24. CASE StackRelease(t) BY <2>24, <1>5 DEF StackRelease, Suspenders
  <2>25. CASE RequestReenterExt(t) BY <2>25, <1>5 DEF RequestReenterExt, ReenterExtLoop, Suspenders
  <2>26. CASE RequestReenterExtWoken(t) BY <2>26, <1>5 DEF RequestReenterExtWoken, ReenterExtLoop, Suspenders
  <2>27. CASE ExtStackInit(t) BY <2>27, <1>5 DEF ExtStackInit, Suspenders
  <2>28. CASE ExtLock(t) BY <2>28, <1>5 DEF ExtLock, EnterVM, Suspenders
  <2>29. CASE ExtEnter(t) BY <2>29, <1>5 DEF ExtEnter, Suspenders
  <2>30. CASE SpuriousWakeup(t) BY <2>30, <1>5 DEF SpuriousWakeup, Suspenders
  <2> QED
    BY <1>1, <2>1, <2>2, <2>3, <2>4, <2>5, <2>6, <2>7, <2>8, <2>9, <2>10, <2>11, <2>12,
       <2>13, <2>14, <2>15, <2>16, <2>17, <2>18, <2>19, <2>20, <2>21, <2>22, <2>23, <2>24,
       <2>25, <2>26, <2>27, <2>28, <2>29, <2>30 DEF ThreadNext
<1>2. ASSUME NEW p \in Threads, NEW t \in Threads, PairNext(p, t) PROVE StopHasOneOwner'
  <2>1. CASE ThreadRegister(p, t) BY <2>1, <1>5 DEF ThreadRegister, Suspenders
  <2>2. CASE ThreadCreate(p, t) BY <2>2, <1>5 DEF ThreadCreate, Suspenders
  <2>3. CASE ThreadRelease(p, t) BY <2>3, <1>5 DEF ThreadRelease, Suspenders
  <2>4. CASE ThreadQuitRequest(p, t) BY <2>4, <1>5 DEF ThreadQuitRequest, Suspenders
  <2> QED BY <1>2, <2>1, <2>2, <2>3, <2>4 DEF PairNext
<1>3. ASSUME MainNext PROVE StopHasOneOwner'
  <2>1. CASE TerminateThreads
    <3>1. pc[Main] \in {"op", "run"} \cup TermWaitPCs
      BY <2>1 DEF TerminateThreads, TermWaitPCs
    <3>2. CASE s_iStackCount <= 1
      <4>1. Suspenders = {}
        BY <3>1, <3>2, NoSuspenderAtEnd
      <4>2. Suspenders' = {} /\ STOP \notin hb_vmThreadRequest'
        BY <2>1, <3>2, <4>1 DEF TerminateThreads, TerminateLoop, Suspenders
      <4> QED BY <4>2 DEF StopHasOneOwner
    <3>3. CASE s_iStackCount > 1
      <4>1. Suspenders' = Suspenders
            /\ (STOP \in hb_vmThreadRequest' <=> STOP \in hb_vmThreadRequest)
        BY <2>1, <3>3 DEF TerminateThreads, TerminateLoop, Suspenders
      <4> QED BY <4>1 DEF StopHasOneOwner
    <3> QED BY <3>2, <3>3
  <2>2. CASE TerminateThreadsWoken
    <3>1. pc[Main] \in {"op", "run"} \cup TermWaitPCs
      BY <2>2 DEF TerminateThreadsWoken, TermWaitPCs
    <3>2. CASE s_iStackCount <= 1
      <4>1. Suspenders = {}
        BY <3>1, <3>2, NoSuspenderAtEnd
      <4>2. Suspenders' = {} /\ STOP \notin hb_vmThreadRequest'
        BY <2>2, <3>2, <4>1 DEF TerminateThreadsWoken, TerminateLoop, Suspenders
      <4> QED BY <4>2 DEF StopHasOneOwner
    <3>3. CASE s_iStackCount > 1
      <4>1. Suspenders' = Suspenders
            /\ (STOP \in hb_vmThreadRequest' <=> STOP \in hb_vmThreadRequest)
        BY <2>2, <3>3 DEF TerminateThreadsWoken, TerminateLoop, Suspenders
      <4> QED BY <4>1 DEF StopHasOneOwner
    <3> QED BY <3>2, <3>3
  <2>3. CASE WaitForThreads BY <2>3, <1>5 DEF WaitForThreads, WaitLoop, Suspenders
  <2>4. CASE WaitForThreadsWoken BY <2>4, <1>5 DEF WaitForThreadsWoken, WaitLoop, Suspenders
  <2>5. CASE VmQuit
    <3>1. pc[Main] \in {"op", "run"} \cup TermWaitPCs
      BY <2>5 DEF VmQuit, TermWaitPCs
    <3>2. CASE s_iStackCount <= 1
      <4>1. Suspenders = {}
        BY <3>1, <3>2, NoSuspenderAtEnd
      <4>2. Suspenders' = {} /\ STOP \notin hb_vmThreadRequest'
        BY <2>5, <3>2, <4>1 DEF VmQuit, TerminateLoop, DoExitFunctions, Suspenders
      <4> QED BY <4>2 DEF StopHasOneOwner
    <3>3. CASE s_iStackCount > 1
      <4>1. Suspenders' = Suspenders
            /\ (STOP \in hb_vmThreadRequest' <=> STOP \in hb_vmThreadRequest)
        BY <2>5, <3>3 DEF VmQuit, TerminateLoop, DoExitFunctions, Suspenders
      <4> QED BY <4>1 DEF StopHasOneOwner
    <3> QED BY <3>2, <3>3
  <2>6. CASE VmQuitWoken
    <3>1. pc[Main] \in {"op", "run"} \cup TermWaitPCs
      BY <2>6 DEF VmQuitWoken, TermWaitPCs
    <3>2. CASE s_iStackCount <= 1
      <4>1. Suspenders = {}
        BY <3>1, <3>2, NoSuspenderAtEnd
      <4>2. Suspenders' = {} /\ STOP \notin hb_vmThreadRequest'
        BY <2>6, <3>2, <4>1 DEF VmQuitWoken, TerminateLoop, DoExitFunctions, Suspenders
      <4> QED BY <4>2 DEF StopHasOneOwner
    <3>3. CASE s_iStackCount > 1
      <4>1. Suspenders' = Suspenders
            /\ (STOP \in hb_vmThreadRequest' <=> STOP \in hb_vmThreadRequest)
        BY <2>6, <3>3 DEF VmQuitWoken, TerminateLoop, DoExitFunctions, Suspenders
      <4> QED BY <4>1 DEF StopHasOneOwner
    <3> QED BY <3>2, <3>3
  <2> QED BY <1>3, <2>1, <2>2, <2>3, <2>4, <2>5, <2>6 DEF MainNext
<1>4. CASE UNCHANGED vars
  BY <1>4, <1>5 DEF vars, Suspenders
<1> QED
  BY <1>1, <1>2, <1>3, <1>4 DEF Next

\* The threads that own s_pDeletedBlock.
Collectors == {t \in Threads : pc[t] = "mark" \/ t \in sweeping}

\* One collection at a time, as the set of its owners.
LEMMA OneCollectorDef ==
    OneCollector <=> /\ \A t, u \in Collectors : t = u
                     /\ s_bCollecting <=> Collectors # {}
  BY DEF OneCollector, Collectors

\* The second test of s_bCollecting, made under s_vmMtx, is what keeps two
\* collections apart.
LEMMA CollectorStep == TypeOK /\ OneCollector /\ [Next]_vars => OneCollector'
<1> SUFFICES ASSUME TypeOK, OneCollector, [Next]_vars PROVE OneCollector'
  OBVIOUS
<1>6. pc \in [Threads -> PCs] /\ Main \in Threads /\ sweeping \in SUBSET Threads
  BY MainIsThread DEF TypeOK, TypeLocal, TypeGlobal
<1>7. /\ \A t, u \in Collectors : t = u
      /\ s_bCollecting <=> Collectors # {}
  BY OneCollectorDef
<1>5. ASSUME Collectors' = Collectors, UNCHANGED s_bCollecting PROVE OneCollector'
  BY <1>5, <1>7 DEF OneCollector, Collectors
<1> USE <1>6 DEF Goto, SleepAt, Woken, unchangedGC
<1>1. ASSUME NEW t \in Threads, ThreadNext(t) PROVE OneCollector'
  <2>1. CASE FetchOpcode(t) BY <2>1, <1>5 DEF FetchOpcode, Collectors
  <2>2. CASE RequestTest(t) BY <2>2, <1>5 DEF RequestTest, RequestTestLoop, Collectors
  <2>3. CASE RequestTestWoken(t) BY <2>3, <1>5 DEF RequestTestWoken, RequestTestLoop, Collectors
  <2>4. CASE EndOpcode(t) BY <2>4, <1>5 DEF EndOpcode, Collectors
  <2>5. CASE RequestQuery(t) BY <2>5, <1>5 DEF RequestQuery, Collectors
  <2>6. CASE VmUnlock(t) BY <2>6, <1>5 DEF VmUnlock, LeaveVM, Collectors
  <2>7. CASE VmUnlockNested(t) BY <2>7, <1>5 DEF VmUnlockNested, Collectors
  <2>8. CASE VmLockNested(t) BY <2>8, <1>5 DEF VmLockNested, Collectors
  <2>9. CASE VmLock(t) BY <2>9, <1>5 DEF VmLock, EnterVM, Collectors
  <2>10. CASE VmLockWoken(t) BY <2>10, <1>5 DEF VmLockWoken, EnterVM, Collectors
  <2>11. CASE VmLockForce(t) BY <2>11, <1>5 DEF VmLockForce, Collectors
  <2>12. CASE RequestReenter(t) BY <2>12, <1>5 DEF RequestReenter, EnterVM, Collectors
  <2>13. CASE RequestRestore(t) BY <2>13, <1>5 DEF RequestRestore, LeaveVM, Collectors
  <2>14. CASE GcCollectAll(t) BY <2>14, <1>5 DEF GcCollectAll, Collectors
  <2>15. CASE SuspendThreads(t) BY <2>15, <1>5 DEF SuspendThreads, Collectors
  <2>16. CASE SuspendThreadsWoken(t) BY <2>16, <1>5 DEF SuspendThreadsWoken, Collectors
  <2>17. CASE GcSkip(t) BY <2>17, <1>5 DEF GcSkip, ResumeThreads, Collectors
  <2>18. CASE GcMark(t)
    <3>1. Collectors' = {t} /\ s_bCollecting' = TRUE
      BY <2>18, <1>7 DEF GcMark, Collectors
    <3> QED BY <3>1 DEF OneCollector, Collectors
  <2>19. CASE GcSweep(t)
    <3>1. Collectors' = Collectors /\ UNCHANGED s_bCollecting
      BY <2>19 DEF GcSweep, Collectors
    <3> QED BY <3>1, <1>5
  <2>20. CASE GcFinish(t)
    <3>1. Collectors = {t}
      BY <2>20, <1>7 DEF GcFinish, Collectors
    <3>2. Collectors' = {} /\ s_bCollecting' = FALSE
      BY <2>20, <3>1 DEF GcFinish, Collectors
    <3> QED BY <3>2 DEF OneCollector, Collectors
  <2>21. CASE StackInit(t) BY <2>21, <1>5 DEF StackInit, Collectors
  <2>22. CASE ThreadInit(t) BY <2>22, <1>5 DEF ThreadInit, EnterVM, Collectors
  <2>23. CASE ThreadQuit(t) BY <2>23, <1>5 DEF ThreadQuit, Collectors
  <2>24. CASE StackRelease(t) BY <2>24, <1>5 DEF StackRelease, Collectors
  <2>25. CASE RequestReenterExt(t) BY <2>25, <1>5 DEF RequestReenterExt, ReenterExtLoop, Collectors
  <2>26. CASE RequestReenterExtWoken(t) BY <2>26, <1>5 DEF RequestReenterExtWoken, ReenterExtLoop, Collectors
  <2>27. CASE ExtStackInit(t) BY <2>27, <1>5 DEF ExtStackInit, Collectors
  <2>28. CASE ExtLock(t) BY <2>28, <1>5 DEF ExtLock, EnterVM, Collectors
  <2>29. CASE ExtEnter(t) BY <2>29, <1>5 DEF ExtEnter, Collectors
  <2>30. CASE SpuriousWakeup(t) BY <2>30, <1>5 DEF SpuriousWakeup, Collectors
  <2> QED
    BY <1>1, <2>1, <2>2, <2>3, <2>4, <2>5, <2>6, <2>7, <2>8, <2>9, <2>10, <2>11, <2>12,
       <2>13, <2>14, <2>15, <2>16, <2>17, <2>18, <2>19, <2>20, <2>21, <2>22, <2>23, <2>24,
       <2>25, <2>26, <2>27, <2>28, <2>29, <2>30 DEF ThreadNext
<1>2. ASSUME NEW p \in Threads, NEW t \in Threads, PairNext(p, t) PROVE OneCollector'
  <2>1. CASE ThreadRegister(p, t) BY <2>1, <1>5 DEF ThreadRegister, Collectors
  <2>2. CASE ThreadCreate(p, t) BY <2>2, <1>5 DEF ThreadCreate, Collectors
  <2>3. CASE ThreadRelease(p, t) BY <2>3, <1>5 DEF ThreadRelease, Collectors
  <2>4. CASE ThreadQuitRequest(p, t) BY <2>4, <1>5 DEF ThreadQuitRequest, Collectors
  <2> QED BY <1>2, <2>1, <2>2, <2>3, <2>4 DEF PairNext
<1>3. ASSUME MainNext PROVE OneCollector'
  <2>1. CASE TerminateThreads BY <2>1, <1>5 DEF TerminateThreads, TerminateLoop, Collectors
  <2>2. CASE TerminateThreadsWoken BY <2>2, <1>5 DEF TerminateThreadsWoken, TerminateLoop, Collectors
  <2>3. CASE WaitForThreads BY <2>3, <1>5 DEF WaitForThreads, WaitLoop, Collectors
  <2>4. CASE WaitForThreadsWoken BY <2>4, <1>5 DEF WaitForThreadsWoken, WaitLoop, Collectors
  <2>5. CASE VmQuit BY <2>5, <1>5 DEF VmQuit, TerminateLoop, DoExitFunctions, Collectors
  <2>6. CASE VmQuitWoken BY <2>6, <1>5 DEF VmQuitWoken, TerminateLoop, DoExitFunctions, Collectors
  <2> QED BY <1>3, <2>1, <2>2, <2>3, <2>4, <2>5, <2>6 DEF MainNext
<1>4. CASE UNCHANGED vars
  BY <1>4, <1>5 DEF vars, Collectors
<1> QED
  BY <1>1, <1>2, <1>3, <1>4 DEF Next

QuitsLive == \A t \in Threads : quit[t] => pc[t] \in ActivePCs

\* A quit request stays on a live stack.
LEMMA QuitStep == TypeOK /\ QuitIsMains /\ QuitsLive /\ [Next]_vars => QuitsLive'
<1> SUFFICES ASSUME TypeOK, QuitIsMains, QuitsLive, [Next]_vars
             PROVE  QuitsLive'
  OBVIOUS
<1> pc \in [Threads -> PCs] /\ quit \in [Threads -> BOOLEAN] /\ Main \in Threads
  BY MainIsThread DEF TypeOK, TypeLocal
<1> USE DEF QuitsLive, TermWaitPCs, QuitIsMains, Goto, SleepAt, Woken, TakeQuit,
            ActivePCs, StackPCs, PCs, InVMPCs, ExtPCs, StopWaitPCs
<1>1. ASSUME NEW t \in Threads, ThreadNext(t) PROVE QuitsLive'
  <2>1. CASE FetchOpcode(t) BY <2>1 DEF FetchOpcode
  <2>2. CASE RequestTest(t) BY <2>2 DEF RequestTest, RequestTestLoop
  <2>3. CASE RequestTestWoken(t) BY <2>3 DEF RequestTestWoken, RequestTestLoop
  <2>4. CASE EndOpcode(t) BY <2>4 DEF EndOpcode
  <2>5. CASE RequestQuery(t) BY <2>5 DEF RequestQuery
  <2>6. CASE VmUnlock(t) BY <2>6 DEF VmUnlock, LeaveVM
  <2>7. CASE VmUnlockNested(t) BY <2>7 DEF VmUnlockNested
  <2>8. CASE VmLockNested(t) BY <2>8 DEF VmLockNested
  <2>9. CASE VmLock(t) BY <2>9 DEF VmLock, EnterVM
  <2>10. CASE VmLockWoken(t) BY <2>10 DEF VmLockWoken, EnterVM
  <2>11. CASE VmLockForce(t) BY <2>11 DEF VmLockForce
  <2>12. CASE RequestReenter(t) BY <2>12 DEF RequestReenter, EnterVM
  <2>13. CASE RequestRestore(t) BY <2>13 DEF RequestRestore, LeaveVM
  <2>14. CASE GcCollectAll(t) BY <2>14 DEF GcCollectAll
  <2>15. CASE SuspendThreads(t) BY <2>15 DEF SuspendThreads
  <2>16. CASE SuspendThreadsWoken(t) BY <2>16 DEF SuspendThreadsWoken
  <2>17. CASE GcSkip(t) BY <2>17 DEF GcSkip, ResumeThreads
  <2>18. CASE GcMark(t) BY <2>18 DEF GcMark
  <2>19. CASE GcSweep(t) BY <2>19 DEF GcSweep, ResumeThreads
  <2>20. CASE GcFinish(t) BY <2>20 DEF GcFinish
  <2>21. CASE StackInit(t) BY <2>21 DEF StackInit
  <2>22. CASE ThreadInit(t) BY <2>22 DEF ThreadInit, EnterVM
  <2>23. CASE ThreadQuit(t) BY <2>23 DEF ThreadQuit
  <2>24. CASE StackRelease(t) BY <2>24 DEF StackRelease
  <2>25. CASE RequestReenterExt(t) BY <2>25 DEF RequestReenterExt, ReenterExtLoop
  <2>26. CASE RequestReenterExtWoken(t) BY <2>26 DEF RequestReenterExtWoken, ReenterExtLoop
  <2>27. CASE ExtStackInit(t) BY <2>27 DEF ExtStackInit
  <2>28. CASE ExtLock(t) BY <2>28 DEF ExtLock, EnterVM
  <2>29. CASE ExtEnter(t) BY <2>29 DEF ExtEnter
  <2>30. CASE SpuriousWakeup(t) BY <2>30 DEF SpuriousWakeup
  <2> QED
    BY <1>1, <2>1, <2>2, <2>3, <2>4, <2>5, <2>6, <2>7, <2>8, <2>9, <2>10, <2>11, <2>12,
       <2>13, <2>14, <2>15, <2>16, <2>17, <2>18, <2>19, <2>20, <2>21, <2>22, <2>23, <2>24,
       <2>25, <2>26, <2>27, <2>28, <2>29, <2>30 DEF ThreadNext
<1>2. ASSUME NEW p \in Threads, NEW t \in Threads, PairNext(p, t) PROVE QuitsLive'
  <2>1. CASE ThreadRegister(p, t) BY <2>1 DEF ThreadRegister
  <2>2. CASE ThreadCreate(p, t) BY <2>2 DEF ThreadCreate
  <2>3. CASE ThreadRelease(p, t) BY <2>3 DEF ThreadRelease
  <2>4. CASE ThreadQuitRequest(p, t) BY <2>4 DEF ThreadQuitRequest
  <2> QED BY <1>2, <2>1, <2>2, <2>3, <2>4 DEF PairNext
<1>3. ASSUME MainNext PROVE QuitsLive'
  <2>1. CASE TerminateThreads BY <2>1 DEF TerminateThreads, TerminateLoop
  <2>2. CASE TerminateThreadsWoken BY <2>2 DEF TerminateThreadsWoken, TerminateLoop
  <2>3. CASE WaitForThreads BY <2>3 DEF WaitForThreads, WaitLoop
  <2>4. CASE WaitForThreadsWoken BY <2>4 DEF WaitForThreadsWoken, WaitLoop
  <2>5. CASE VmQuit BY <2>5 DEF VmQuit, TerminateLoop, DoExitFunctions
  <2>6. CASE VmQuitWoken BY <2>6 DEF VmQuitWoken, TerminateLoop, DoExitFunctions
  <2> QED BY <1>3, <2>1, <2>2, <2>3, <2>4, <2>5, <2>6 DEF MainNext
<1>4. CASE UNCHANGED vars
  BY <1>4 DEF vars
<1> QED
  BY <1>1, <1>2, <1>3, <1>4 DEF Next

\* Nobody is left asleep.
LEMMA WakeupStep ==
    TypeOK /\ StackCountExact /\ MainHasStack /\ QuitIsMains /\ StopHasOneOwner
      /\ NoLostWakeup /\ [Next]_vars => NoLostWakeup'
<1> SUFFICES ASSUME TypeOK, StackCountExact, MainHasStack, QuitIsMains,
                    StopHasOneOwner, NoLostWakeup, [Next]_vars
             PROVE  NoLostWakeup'
  OBVIOUS
<1> /\ pc \in [Threads -> PCs] /\ Main \in Threads /\ sleepers \in SUBSET Threads
    /\ s_iStackCount \in Int /\ s_iRunningCount \in Int
  BY MainIsThread DEF TypeOK, TypeLocal, TypeGlobal
<1>5. \A t \in Threads : pc[t] = "susp_wait" => STOP \in hb_vmThreadRequest
  BY DEF StopHasOneOwner, Suspenders
<1> USE DEF NoLostWakeup, StopWaitPCs, Goto, SleepAt, Woken, Broadcast, STOP, QUIT
<1>1. ASSUME NEW t \in Threads, ThreadNext(t) PROVE NoLostWakeup'
  <2>1. CASE FetchOpcode(t) BY <2>1 DEF FetchOpcode
  <2>2. CASE RequestTest(t) BY <2>2 DEF RequestTest, RequestTestLoop
  <2>3. CASE RequestTestWoken(t) BY <2>3 DEF RequestTestWoken, RequestTestLoop
  <2>4. CASE EndOpcode(t) BY <2>4 DEF EndOpcode
  <2>5. CASE RequestQuery(t) BY <2>5 DEF RequestQuery
  <2>6. CASE VmUnlock(t) BY <2>6, <1>5 DEF VmUnlock, LeaveVM
  <2>7. CASE VmUnlockNested(t) BY <2>7 DEF VmUnlockNested
  <2>8. CASE VmLockNested(t) BY <2>8 DEF VmLockNested
  <2>9. CASE VmLock(t) BY <2>9 DEF VmLock, EnterVM
  <2>10. CASE VmLockWoken(t) BY <2>10 DEF VmLockWoken, EnterVM
  <2>11. CASE VmLockForce(t) BY <2>11 DEF VmLockForce
  <2>12. CASE RequestReenter(t) BY <2>12 DEF RequestReenter, EnterVM
  <2>13. CASE RequestRestore(t) BY <2>13, <1>5 DEF RequestRestore, LeaveVM
  <2>14. CASE GcCollectAll(t) BY <2>14 DEF GcCollectAll
  <2>15. CASE SuspendThreads(t) BY <2>15, <1>5 DEF SuspendThreads
  <2>16. CASE SuspendThreadsWoken(t) BY <2>16 DEF SuspendThreadsWoken
  <2>17. CASE GcSkip(t) BY <2>17 DEF GcSkip, ResumeThreads
  <2>18. CASE GcMark(t) BY <2>18 DEF GcMark
  <2>19. CASE GcSweep(t) BY <2>19 DEF GcSweep, ResumeThreads
  <2>20. CASE GcFinish(t) BY <2>20 DEF GcFinish
  <2>21. CASE StackInit(t) BY <2>21 DEF StackInit
  <2>22. CASE ThreadInit(t) BY <2>22 DEF ThreadInit, EnterVM
  <2>23. CASE ThreadQuit(t) BY <2>23 DEF ThreadQuit
  <2>24. CASE StackRelease(t) BY <2>24 DEF StackRelease
  <2>25. CASE RequestReenterExt(t) BY <2>25 DEF RequestReenterExt, ReenterExtLoop
  <2>26. CASE RequestReenterExtWoken(t) BY <2>26 DEF RequestReenterExtWoken, ReenterExtLoop
  <2>27. CASE ExtStackInit(t) BY <2>27 DEF ExtStackInit
  <2>28. CASE ExtLock(t) BY <2>28 DEF ExtLock, EnterVM
  <2>29. CASE ExtEnter(t) BY <2>29 DEF ExtEnter
  <2>30. CASE SpuriousWakeup(t) BY <2>30 DEF SpuriousWakeup
  <2> QED
    BY <1>1, <2>1, <2>2, <2>3, <2>4, <2>5, <2>6, <2>7, <2>8, <2>9, <2>10, <2>11, <2>12,
       <2>13, <2>14, <2>15, <2>16, <2>17, <2>18, <2>19, <2>20, <2>21, <2>22, <2>23, <2>24,
       <2>25, <2>26, <2>27, <2>28, <2>29, <2>30 DEF ThreadNext
<1>2. ASSUME NEW p \in Threads, NEW t \in Threads, PairNext(p, t) PROVE NoLostWakeup'
  <2>1. CASE ThreadRegister(p, t) BY <2>1 DEF ThreadRegister
  <2>2. CASE ThreadCreate(p, t) BY <2>2 DEF ThreadCreate
  <2>3. CASE ThreadRelease(p, t) BY <2>3 DEF ThreadRelease
  <2>4. CASE ThreadQuitRequest(p, t) BY <2>4 DEF ThreadQuitRequest
  <2> QED BY <1>2, <2>1, <2>2, <2>3, <2>4 DEF PairNext
<1>3. ASSUME MainNext PROVE NoLostWakeup'
  <2>1. CASE TerminateThreads BY <2>1 DEF TerminateThreads, TerminateLoop
  <2>2. CASE TerminateThreadsWoken
    <3>1. s_iStackCount <= 1 => STOP \notin hb_vmThreadRequest
      BY <2>2, NoSuspenderAtEnd DEF TerminateThreadsWoken, TermWaitPCs
    <3>2. QUIT \in hb_vmThreadRequest
      BY <2>2 DEF TerminateThreadsWoken, QuitIsMains, TermWaitPCs
    <3> QED BY <2>2, <3>1, <3>2 DEF TerminateThreadsWoken, TerminateLoop
  <2>3. CASE WaitForThreads BY <2>3, <1>5 DEF WaitForThreads, WaitLoop
  <2>4. CASE WaitForThreadsWoken BY <2>4 DEF WaitForThreadsWoken, WaitLoop
  <2>5. CASE VmQuit BY <2>5 DEF VmQuit, TerminateLoop, DoExitFunctions
  <2>6. CASE VmQuitWoken
    <3>1. s_iStackCount <= 1 => STOP \notin hb_vmThreadRequest
      BY <2>6, NoSuspenderAtEnd DEF VmQuitWoken, TermWaitPCs
    <3>2. QUIT \in hb_vmThreadRequest
      BY <2>6 DEF VmQuitWoken, QuitIsMains, TermWaitPCs
    <3> QED BY <2>6, <3>1, <3>2 DEF VmQuitWoken, TerminateLoop, DoExitFunctions
  <2> QED BY <1>3, <2>1, <2>2, <2>3, <2>4, <2>5, <2>6 DEF MainNext
<1>4. CASE UNCHANGED vars
  BY <1>4 DEF vars
<1> QED
  BY <1>1, <1>2, <1>3, <1>4 DEF Next

\* Every step of the thread control keeps what the requests mean.
LEMMA RequestInvStep == RequestInv /\ [Next]_vars => RequestInv'
<1> SUFFICES ASSUME RequestInv, [Next]_vars PROVE RequestInv'
  OBVIOUS
<1> USE DEF RequestInv
<1>1. StopInv' /\ TypeOK
  BY StopInvStep DEF StopInv
<1>2. StackCountExact'
  BY <1>1, StackStep
<1>3. MainHasStack' /\ QuitIsMains'
  BY <1>1, MainStep
<1>4. StopHasOneOwner'
  BY <1>1, OwnerStep
<1>5. OneCollector'
  BY <1>1, CollectorStep
<1>6. QuitOnlyOnLiveStack'
  BY <1>1, <1>3, QuitStep DEF QuitOnlyOnLiveStack, QuitsLive, QuitIsMains
<1>7. NoLostWakeup'
  BY <1>1, WakeupStep
<1> QED
  BY <1>1, <1>2, <1>3, <1>4, <1>5, <1>6, <1>7

\* hb_vmInit() leaves one thread with a stack, no request and nobody asleep.
LEMMA InitRequestInv == Init => RequestInv
<1> SUFFICES ASSUME Init PROVE RequestInv
  OBVIOUS
<1>1. StopInv
  BY InitStopInv
<1>2. StackCountExact
  <2>1. {t \in Threads : pc[t] \in StackPCs} = {Main}
    BY MainIsThread, Labels DEF Init, StackPCs
  <2>2. Cardinality({Main}) = 1
    BY FS_Singleton
  <2>3. s_iStackCount = 1
    BY DEF Init
  <2> QED
    BY <2>1, <2>2, <2>3 DEF StackCountExact, Count
<1>3. MainHasStack /\ QuitIsMains
  BY MainIsThread DEF Init, MainHasStack, MainPCs, TermWaitPCs, QuitIsMains
<1>4. StopHasOneOwner
  <2>1. Suspenders = {}
    BY DEF Init, Suspenders
  <2> QED BY <2>1 DEF Init, StopHasOneOwner
<1>5. OneCollector
  <2>1. Collectors = {}
    BY DEF Init, Collectors
  <2> QED BY <2>1, OneCollectorDef DEF Init
<1>6. QuitOnlyOnLiveStack /\ NoLostWakeup
  BY DEF Init, QuitOnlyOnLiveStack, NoLostWakeup
<1> QED
  BY <1>1, <1>2, <1>3, <1>4, <1>5, <1>6 DEF RequestInv

\* s_iStackCount is the number of threads that have, or are promised, a stack,
\* so hb_vmTerminateThreads() waits for exactly the threads that are left.
THEOREM StackCountCorrect == Spec => []StackCountExact
<1>1. RequestInv => StackCountExact
  BY DEF RequestInv
<1> QED
  BY <1>1, InitRequestInv, RequestInvStep, PTL DEF Spec

\* STOP belongs to one thread, from hb_vmSuspendThreads() to hb_vmResumeThreads()
\* or to the suspender's retreat before QUIT; hb_vmTerminateThreads() never
\* withdraws a STOP that somebody relies on.
THEOREM StopOwnerCorrect == Spec => []StopHasOneOwner
<1>1. RequestInv => StopHasOneOwner
  BY DEF RequestInv
<1> QED
  BY <1>1, InitRequestInv, RequestInvStep, PTL DEF Spec

\* No thread sleeps on s_vmCond after the reason for its sleep has gone: every
\* section that ends a reason broadcasts.
THEOREM WakeupsCorrect == Spec => []NoLostWakeup
<1>1. RequestInv => NoLostWakeup
  BY DEF RequestInv
<1> QED
  BY <1>1, InitRequestInv, RequestInvStep, PTL DEF Spec

\* s_pDeletedBlock belongs to one thread at a time, although destructors run
\* while the other threads are resumed and may start collections of their own.
THEOREM OneCollectorCorrect == Spec => []OneCollector
<1>1. RequestInv => OneCollector
  BY DEF RequestInv
<1> QED
  BY <1>1, InitRequestInv, RequestInvStep, PTL DEF Spec

\* A quit request is only on a live stack, and the one of hb_vmTerminateThreads()
\* never reaches the main thread that makes it.
THEOREM QuitRequestCorrect == Spec => []QuitOnlyOnLiveStack
<1>1. RequestInv => QuitOnlyOnLiveStack
  BY DEF RequestInv
<1> QED
  BY <1>1, InitRequestInv, RequestInvStep, PTL DEF Spec
=============================================================================
