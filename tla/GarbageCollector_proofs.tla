----------------------- MODULE GarbageCollector_proofs -----------------------
(***************************************************************************)
(* Proofs about GarbageCollector: a collection takes all the garbage,      *)
(* whatever the threads do; and the memory of a program with one thread is *)
(* safe, whatever its destructors do.                                      *)
(***************************************************************************)
EXTENDS GarbageCollector, FiniteSetTheorems, TLAPS

USE GcAssumption

-----------------------------------------------------------------------------
(* The stack of frames.                                                    *)

\* The frames there are.
LEMMA FrameIs ==
    /\ \A b \in Blocks : \A l \in Places : Frame(b, l) \in Frames
    /\ Frame(NoBlock, "gc") \in Frames
    /\ \A f \in Frames : \/ f.block \in Blocks /\ f.at \in Places
                         \/ f.block = NoBlock /\ f.at = "gc"
    /\ \A f \in Frames : f = Frame(f.block, f.at)
BY DEF Frame, Frames

\* A function is called.
LEMMA Pushed ==
    ASSUME NEW s \in Seq(Frames), NEW b, NEW l, Frame(b, l) \in Frames
    PROVE  /\ Push(s, b, l) \in Seq(Frames) /\ Push(s, b, l) # <<>>
           /\ Len(Push(s, b, l)) = Len(s) + 1
           /\ Push(s, b, l)[1] = Frame(b, l)
           /\ \A i \in 1 .. Len(s) : Push(s, b, l)[i + 1] = s[i]
           /\ \A i \in 2 .. Len(s) + 1 : Push(s, b, l)[i] = s[i - 1]
BY DEF Push

\* A function returns.
LEMMA Popped ==
    ASSUME NEW s \in Seq(Frames), s # <<>>
    PROVE  /\ Tail(s) \in Seq(Frames)
           /\ Len(Tail(s)) = Len(s) - 1
           /\ \A i \in 1 .. Len(s) - 1 : Tail(s)[i] = s[i + 1]
           /\ \A i \in 2 .. Len(s) : s[i] = Tail(s)[i - 1]
BY DEF Frames

\* A function goes on.
LEMMA Moved ==
    ASSUME NEW s \in Seq(Frames), s # <<>>, s[1].block \in Blocks, NEW l \in Places
    PROVE  /\ [s EXCEPT ![1].at = l] \in Seq(Frames)
           /\ [s EXCEPT ![1].at = l] # <<>>
           /\ Len([s EXCEPT ![1].at = l]) = Len(s)
           /\ [s EXCEPT ![1].at = l][1] = Frame(s[1].block, l)
           /\ \A i \in 2 .. Len(s) : [s EXCEPT ![1].at = l][i] = s[i]
<1>1. s[1] \in Frames /\ 1 \in DOMAIN s OBVIOUS
<1>2. [s[1] EXCEPT !.at = l] = Frame(s[1].block, l) /\ Frame(s[1].block, l) \in Frames
    BY <1>1, FrameIs DEF Frames, Frame
<1> QED BY <1>1, <1>2

-----------------------------------------------------------------------------
(* Types.  That a counter is not negative is a part of the safety of the   *)
(* memory, and is not said here.                                           *)

Types ==
    /\ program \in Programs
    /\ list \in [Blocks -> Lists] /\ used \in [Blocks -> {0, 1}]
    /\ del \in [Blocks -> BOOLEAN] /\ object \in [Blocks -> BOOLEAN]
    /\ locked \in [Blocks -> Nat] /\ ref \in [Blocks -> Int]
    /\ items \in [Blocks -> SUBSET Blocks]
    /\ root \in SUBSET Blocks /\ toClear \in SUBSET Blocks
    /\ frames \in [Threads -> Seq(Frames)]
    /\ s_uUsedFlag \in {0, 1} /\ s_bCollecting \in BOOLEAN /\ kept \in BOOLEAN

\* The thread at a place of a function has that function's frame on top.
LEMMA OnTop ==
    ASSUME Types, NEW t \in Threads, NEW b, NEW l, At(t, b, l)
    PROVE  /\ frames[t] \in Seq(Frames) /\ frames[t] # <<>>
           /\ 1 \in DOMAIN frames[t] /\ Len(frames[t]) > 0
           /\ frames[t][1] = Frame(b, l)
           /\ frames[t][1].block = b /\ frames[t][1].at = l
BY DEF Types, At, Frame

\* hb_xRefDec() and what follows it keep the types.
LEMMA RefDecTypes ==
    ASSUME Types, NEW t \in Threads, NEW b \in Blocks, NEW s \in Seq(Frames), RefDec(t, b, s)
    PROVE  ref' \in [Blocks -> Int] /\ frames' \in [Threads -> Seq(Frames)]
<1>1. Push(s, b, "test") \in Seq(Frames) BY Pushed, FrameIs DEF Places
<1> QED BY <1>1 DEF RefDec, Types

\* A reference that is stored keeps the types.
LEMMA RefIncTypes ==
    ASSUME Types, NEW b \in Blocks, RefInc(b)
    PROVE  ref' \in [Blocks -> Int] /\ kept' \in BOOLEAN
BY DEF RefInc, Types

\* A function that returns, or goes on, keeps the types.
LEMMA ReturnTypes ==
    ASSUME Types, NEW t \in Threads, NEW b, NEW l, At(t, b, l), Return(t)
    PROVE  frames' \in [Threads -> Seq(Frames)]
<1>1. Tail(frames[t]) \in Seq(Frames) BY OnTop, Popped
<1> QED BY <1>1 DEF Return, Types

\* Goto() replaces the place of the frame on top and keeps the stack a sequence of frames.
LEMMA GotoTypes ==
    ASSUME Types, NEW t \in Threads, NEW b \in Blocks, NEW l, At(t, b, l), NEW m \in Places, Goto(t, m)
    PROVE  frames' \in [Threads -> Seq(Frames)]
<1>1. frames[t] \in Seq(Frames) /\ frames[t] # <<>> /\ frames[t][1].block \in Blocks BY OnTop
<1>2. [frames[t] EXCEPT ![1].at = m] \in Seq(Frames) BY <1>1, Moved
<1> QED BY <1>2 DEF Goto, Types

\* A step of the program keeps the types.
LEMMA ProgramTypes ==
    ASSUME Types, NEW t \in Threads, NEW a \in Blocks, NEW b \in Blocks, program' = program,
           \/ AllocRaw(t, b) \/ Load(t, b) \/ Drop(t, b) \/ GcLock(t, b) \/ GcUnlock(t, b)
           \/ Store(t, a, b) \/ Remove(t, a, b)
    PROVE  Types'
<1>0. frames[t] \in Seq(Frames) BY DEF Types
<1>1. CASE AllocRaw(t, b) BY <1>1 DEF AllocRaw, Types, Lists
<1>2. CASE Load(t, b) BY <1>2, RefIncTypes DEF Load, Types
<1>3. CASE Drop(t, b) BY <1>3, <1>0, RefDecTypes DEF Drop, Types
<1>4. CASE GcLock(t, b) BY <1>4 DEF GcLock, Types, Lists
<1>5. CASE GcUnlock(t, b)
    <2>1. used' \in [Blocks -> {0, 1}] BY <1>5 DEF GcUnlock, Types
    <2>2. list' \in [Blocks -> Lists] BY <1>5 DEF GcUnlock, Types, Lists
    <2>3. locked' \in [Blocks -> Nat] BY <1>5 DEF GcUnlock, Types
    <2> QED BY <1>5, <2>1, <2>2, <2>3 DEF GcUnlock, Types
<1>6. CASE Store(t, a, b) BY <1>6, RefIncTypes DEF Store, Types
<1>7. CASE Remove(t, a, b) BY <1>7, <1>0, RefDecTypes DEF Remove, Types
<1> QED BY <1>1, <1>2, <1>3, <1>4, <1>5, <1>6, <1>7

\* A step of hb_gcRefFree() or of a clear function keeps the types.
LEMMA RefFreeTypes ==
    ASSUME Types, NEW t \in Threads, NEW b \in Blocks, NEW c \in Blocks, program' = program,
           \/ RefTest(t, b) \/ Clear(t, b) \/ DestructorReturn(t, b) \/ ReleaseItem(t, b, c)
           \/ ClearReturn(t, b) \/ RefCheck(t, b) \/ Keep(t, b) \/ Free(t, b)
    PROVE  Types'
<1>1. CASE RefTest(t, b) 
    <2>1. frames' \in [Threads -> Seq(Frames)] BY <1>1, ReturnTypes, GotoTypes DEF RefTest, Places
    <2> QED BY <1>1, <2>1 DEF RefTest, Types
<1>2. CASE Clear(t, b)
    <2>1. frames' \in [Threads -> Seq(Frames)] BY <1>2, GotoTypes DEF Clear, Places
    <2> QED BY <1>2, <2>1 DEF Clear, Types
<1>3. CASE DestructorReturn(t, b)
    <2>1. At(t, b, "dtor") BY <1>3 DEF DestructorReturn
    <2>2. Tail(frames[t]) \in Seq(Frames) BY <2>1, OnTop, Popped
    <2>3. Push(Tail(frames[t]), b, "items") \in Seq(Frames) BY <2>2, Pushed, FrameIs DEF Places
    <2> QED BY <1>3, <2>3, RefDecTypes DEF DestructorReturn, Types
<1>4. CASE ReleaseItem(t, b, c)
    <2>1. frames[t] \in Seq(Frames) BY DEF Types
    <2> QED BY <1>4, <2>1, RefDecTypes DEF ReleaseItem, Types
<1>5. CASE ClearReturn(t, b)
    <2>1. frames' \in [Threads -> Seq(Frames)] BY <1>5, ReturnTypes, GotoTypes DEF ClearReturn, Places
    <2> QED BY <1>5, <2>1 DEF ClearReturn, Types
<1>6. CASE RefCheck(t, b)
    <2>1. frames' \in [Threads -> Seq(Frames)] BY <1>6, GotoTypes DEF RefCheck, Places
    <2> QED BY <1>6, <2>1 DEF RefCheck, Types
<1>7. CASE Keep(t, b) BY <1>7, ReturnTypes DEF Keep, Types
<1>8. CASE Free(t, b) BY <1>8, ReturnTypes DEF Free, Release, Types, Lists
<1> QED BY <1>1, <1>2, <1>3, <1>4, <1>5, <1>6, <1>7, <1>8

\* A step of hb_gcCollectAll() keeps the types.
LEMMA CollectTypes ==
    ASSUME Types, NEW t \in Threads, NEW b \in Blocks, program' = program,
           CollectAll(t) \/ FinalClear(t, b) \/ FinalRelease(t, b) \/ CollectReturn(t)
    PROVE  Types'
<1>0. frames[t] \in Seq(Frames) BY DEF Types
<1>1. CASE CollectAll(t)
    <2>1. Push(frames[t], NoBlock, "gc") \in Seq(Frames) BY <1>0, Pushed, FrameIs DEF Places
    <2>2. Unused(Marked) \in SUBSET Blocks BY DEF Unused, On
    <2> HIDE DEF Unused, Marked
    <2>3. used' \in [Blocks -> {0, 1}] BY <1>1 DEF CollectAll, Types
    <2>4. list' \in [Blocks -> Lists] BY <1>1 DEF CollectAll, Types, Lists
    <2>5. del' \in [Blocks -> BOOLEAN] BY <1>1 DEF CollectAll, Types
    <2>6. frames' \in [Threads -> Seq(Frames)] BY <1>1, <2>1 DEF CollectAll, Types
    <2>7. toClear' \in SUBSET Blocks BY <1>1, <2>2 DEF CollectAll
    <2> QED BY <1>1, <2>3, <2>4, <2>5, <2>6, <2>7 DEF CollectAll, Types
<1>2. CASE FinalClear(t, b)
    <2>1. Push(frames[t], b, "clear") \in Seq(Frames) BY <1>0, Pushed, FrameIs DEF Places
    <2> QED BY <1>2, <2>1 DEF FinalClear, Types
<1>3. CASE FinalRelease(t, b)
    <2>1. used' \in [Blocks -> {0, 1}] BY <1>3 DEF FinalRelease, Release, Types
    <2>a. list' = [list EXCEPT ![b] = "curr"] \/ list' = [list EXCEPT ![b] = "none"]
        BY <1>3 DEF FinalRelease, Release
    <2>2. list' \in [Blocks -> Lists] BY <2>a DEF Types, Lists
    <2>3. locked' \in [Blocks -> Nat] BY <1>3 DEF FinalRelease, Release, Types
    <2>4. del' \in [Blocks -> BOOLEAN] BY <1>3 DEF FinalRelease, Release, Types
    <2> QED BY <1>3, <2>1, <2>2, <2>3, <2>4 DEF FinalRelease, Types
<1>4. CASE CollectReturn(t) BY <1>4, ReturnTypes DEF CollectReturn, Types
<1> QED BY <1>1, <1>2, <1>3, <1>4

-----------------------------------------------------------------------------
(* Blocks that are being destroyed, for any number of threads.             *)

\* Who was being destroyed still is when a function is called, or goes on.
LEMMA DestroyedPush ==
    ASSUME NEW s \in Seq(Frames), NEW c, NEW l, Frame(c, l) \in Frames,
           NEW b \in Blocks, Destroyed(s, b)
    PROVE  Destroyed(Push(s, c, l), b)
<1>1. PICK i \in DOMAIN s : s[i].block = b /\ s[i].at \in Destroying BY DEF Destroyed
<1> DEFINE n == Push(s, c, l)
<1>2. n \in Seq(Frames) /\ Len(n) = Len(s) + 1 /\ \A k \in 1 .. Len(s) : n[k + 1] = s[k]
    BY Pushed
<1> HIDE DEF n
<1>3. i + 1 \in DOMAIN n /\ n[i + 1] = s[i] BY <1>2
<1> QED BY <1>1, <1>3 DEF Destroyed, n

\* Moving the top frame to a destroying place keeps every block that was being destroyed so.
LEMMA DestroyedMove ==
    ASSUME NEW s \in Seq(Frames), s # <<>>, s[1].block \in Blocks,
           NEW l \in Destroying, NEW b \in Blocks,
           Destroyed(s, b) \/ s[1].block = b
    PROVE  Destroyed([s EXCEPT ![1].at = l], b)
<1> DEFINE n == [s EXCEPT ![1].at = l]
<1>0. l \in Places BY DEF Destroying, Places
<1>1. n \in Seq(Frames) /\ Len(n) = Len(s) /\ n[1] = Frame(s[1].block, l)
      /\ \A i \in 2 .. Len(s) : n[i] = s[i]
    BY <1>0, Moved
<1>2. 1 \in DOMAIN s BY DEF Frames
<1> HIDE DEF n
<1>3. CASE s[1].block = b
    <2>1. 1 \in DOMAIN n /\ n[1].block = b /\ n[1].at = l BY <1>1, <1>2, <1>3 DEF Frame
    <2> QED BY <2>1 DEF Destroyed, n
<1>4. CASE s[1].block # b
    <2>1. PICK i \in DOMAIN s : s[i].block = b /\ s[i].at \in Destroying BY <1>4 DEF Destroyed
    <2>2. i \in 2 .. Len(s) BY <2>1, <1>4
    <2>3. i \in DOMAIN n /\ n[i] = s[i] BY <1>1, <2>2
    <2> QED BY <2>1, <2>3 DEF Destroyed, n
<1> QED BY <1>3, <1>4

\* A function that returns was at work on one block.
LEMMA DestroyedPop ==
    ASSUME NEW s \in Seq(Frames), s # <<>>, NEW b \in Blocks, Destroyed(s, b),
           s[1].block # b \/ s[1].at \notin Destroying
    PROVE  Destroyed(Tail(s), b)
<1>1. PICK i \in DOMAIN s : s[i].block = b /\ s[i].at \in Destroying BY DEF Destroyed
<1>2. i \in 2 .. Len(s) BY <1>1
<1>3. i - 1 \in DOMAIN Tail(s) /\ Tail(s)[i - 1] = s[i] BY <1>2, Popped
<1> QED BY <1>1, <1>3 DEF Destroyed

\* What a step of thread t must not do to the blocks on the two lists.
Held(b) == list[b] \in {"curr", "locked"} /\ del[b]

StaysDying(t) ==
    /\ frames' = [frames EXCEPT ![t] = frames'[t]]
    /\ \A b \in Blocks : Held(b)' =>
          \/ Destroyed(frames'[t], b)
          \/ Held(b) /\ ~Destroyed(frames[t], b)
    /\ \A b \in Blocks : list'[b] = "curr" /\ used'[b] # s_uUsedFlag' => del'[b]

\* Such a step keeps the two parts of the invariant.
LEMMA StaysDyingKeeps ==
    ASSUME Types, UnmarkedAreDying, DeletedAreDying, NEW t \in Threads, StaysDying(t)
    PROVE  UnmarkedAreDying' /\ DeletedAreDying'
<1>1. UnmarkedAreDying' BY DEF StaysDying, UnmarkedAreDying, On
<1>2. ASSUME NEW b \in Blocks, Held(b)' PROVE \E u \in Threads : Destroyed(frames'[u], b)
    <2>1. CASE Destroyed(frames'[t], b) BY <2>1
    <2>2. CASE Held(b) /\ ~Destroyed(frames[t], b)
        <3>1. PICK u \in Threads : Destroyed(frames[u], b)
            BY <2>2 DEF DeletedAreDying, Held, On
        <3>2. u # t BY <3>1, <2>2
        <3>3. frames'[u] = frames[u] BY <3>2 DEF StaysDying, Types
        <3> QED BY <3>1, <3>3
    <2> QED BY <1>2, <2>1, <2>2 DEF StaysDying
<1>3. DeletedAreDying' BY <1>2 DEF DeletedAreDying, Held, On
<1> QED BY <1>1, <1>3

\* The frames of t after hb_xRefDec() destroy what they destroyed before.
LEMMA RefDecDestroys ==
    ASSUME Types, NEW t \in Threads, NEW b \in Blocks, NEW s \in Seq(Frames), RefDec(t, b, s),
           NEW c \in Blocks, Destroyed(s, c)
    PROVE  Destroyed(frames'[t], c)
<1>1. Destroyed(Push(s, b, "test"), c) BY DestroyedPush, FrameIs DEF Places
<1>2. frames'[t] = s \/ frames'[t] = Push(s, b, "test") BY DEF RefDec, Types
<1> QED BY <1>1, <1>2

\* The steps of the program.
LEMMA ProgramDying ==
    ASSUME Types, UnmarkedAreDying, NEW t \in Threads, NEW a \in Blocks, NEW b \in Blocks,
           \/ AllocRaw(t, b) \/ Load(t, b) \/ Drop(t, b) \/ GcLock(t, b) \/ GcUnlock(t, b)
           \/ Store(t, a, b) \/ Remove(t, a, b)
    PROVE  StaysDying(t)
<1> USE DEF StaysDying, Held, UnmarkedAreDying, On
<1>0. frames[t] \in Seq(Frames) BY DEF Types
<1>1. CASE AllocRaw(t, b) BY <1>1 DEF AllocRaw, Types
<1>2. CASE Load(t, b) BY <1>2 DEF Load, Types
<1>3. CASE Drop(t, b)
    <2>1. RefDec(t, b, frames[t]) BY <1>3 DEF Drop
    <2>2. \A c \in Blocks : Destroyed(frames[t], c) => Destroyed(frames'[t], c)
        BY <1>0, <2>1, RefDecDestroys
    <2>3. frames' = [frames EXCEPT ![t] = frames'[t]] BY <2>1 DEF RefDec, Types
    <2> QED BY <1>3, <2>2, <2>3 DEF Drop
<1>4. CASE GcLock(t, b) BY <1>4 DEF GcLock, Types
<1>5. CASE GcUnlock(t, b)
    <2>1. CASE locked[b] = 1
        <3>1. used' = [used EXCEPT ![b] = s_uUsedFlag] /\ list' = [list EXCEPT ![b] = "curr"]
            BY <1>5, <2>1 DEF GcUnlock
        <3> QED BY <1>5, <3>1 DEF GcUnlock, Types
    <2>2. CASE locked[b] # 1
        <3>1. used' = used /\ list' = list BY <1>5, <2>2 DEF GcUnlock
        <3> QED BY <1>5, <3>1 DEF GcUnlock, Types
    <2> QED BY <2>1, <2>2
<1>6. CASE Store(t, a, b) BY <1>6 DEF Store, Types
<1>7. CASE Remove(t, a, b)
    <2>1. RefDec(t, b, frames[t]) BY <1>7 DEF Remove
    <2>2. \A c \in Blocks : Destroyed(frames[t], c) => Destroyed(frames'[t], c)
        BY <1>0, <2>1, RefDecDestroys
    <2>3. frames' = [frames EXCEPT ![t] = frames'[t]] BY <2>1 DEF RefDec, Types
    <2> QED BY <1>7, <2>2, <2>3 DEF Remove
<1> QED BY <1>1, <1>2, <1>3, <1>4, <1>5, <1>6, <1>7

\* The frames of a thread after a Goto or a Return.
LEMMA GotoDying ==
    ASSUME Types, NEW t \in Threads, NEW b \in Blocks, NEW l, At(t, b, l),
           NEW m \in Destroying, Goto(t, m)
    PROVE  /\ frames' = [frames EXCEPT ![t] = frames'[t]]
           /\ Destroyed(frames'[t], b)
           /\ \A c \in Blocks : Destroyed(frames[t], c) => Destroyed(frames'[t], c)
<1>1. frames'[t] = [frames[t] EXCEPT ![1].at = m] BY DEF Goto, Types
<1>2. frames' = [frames EXCEPT ![t] = frames'[t]] BY <1>1 DEF Goto, Types
<1>3. frames[t] \in Seq(Frames) /\ frames[t] # <<>> /\ frames[t][1].block = b BY OnTop
<1>4. \A c \in Blocks : Destroyed(frames[t], c) \/ c = b => Destroyed([frames[t] EXCEPT ![1].at = m], c)
    BY <1>3, DestroyedMove
<1> QED BY <1>1, <1>2, <1>4

\* Return() leaves every block in destruction except the one whose frame it pops.
LEMMA ReturnDying ==
    ASSUME Types, NEW t \in Threads, NEW b, NEW l, At(t, b, l), Return(t)
    PROVE  /\ frames' = [frames EXCEPT ![t] = frames'[t]]
           /\ \A c \in Blocks : Destroyed(frames[t], c) /\ (c # b \/ l \notin Destroying)
                 => Destroyed(frames'[t], c)
<1>1. frames'[t] = Tail(frames[t]) BY DEF Return, Types
<1>2. frames' = [frames EXCEPT ![t] = frames'[t]] BY <1>1 DEF Return, Types
<1> QED BY <1>1, <1>2, OnTop, DestroyedPop

\* The steps of hb_gcRefFree() and of a clear function.
LEMMA RefFreeDying ==
    ASSUME Types, UnmarkedAreDying, NEW t \in Threads, NEW b \in Blocks, NEW c \in Blocks,
           \/ RefTest(t, b) \/ Clear(t, b) \/ DestructorReturn(t, b) \/ ReleaseItem(t, b, c)
           \/ ClearReturn(t, b) \/ RefCheck(t, b) \/ Keep(t, b) \/ Free(t, b)
    PROVE  StaysDying(t)
<1> USE DEF StaysDying, Held, UnmarkedAreDying, On
<1>0. frames[t] \in Seq(Frames) BY DEF Types
<1>p. {"clear", "dtor", "items", "check", "keep", "free"} \subseteq Destroying /\ "test" \notin Destroying
    BY DEF Destroying, Places
<1>1. CASE RefTest(t, b)
    <2>1. CASE del[b] /\ Return(t) /\ UNCHANGED del
        <3>1. At(t, b, "test") BY <1>1 DEF RefTest
        <3>2. \A d \in Blocks : Destroyed(frames[t], d) => Destroyed(frames'[t], d)
            BY <2>1, <3>1, <1>p, ReturnDying
        <3>3. frames' = [frames EXCEPT ![t] = frames'[t]] BY <2>1, <3>1, ReturnDying
        <3> QED BY <1>1, <2>1, <3>2, <3>3 DEF RefTest
    <2>2. CASE ~del[b] /\ Goto(t, "clear") /\ del' = [del EXCEPT ![b] = TRUE]
        <3>1. At(t, b, "test") BY <1>1 DEF RefTest
        <3>2. /\ frames' = [frames EXCEPT ![t] = frames'[t]] /\ Destroyed(frames'[t], b)
              /\ \A d \in Blocks : Destroyed(frames[t], d) => Destroyed(frames'[t], d)
            BY <2>2, <3>1, <1>p, GotoDying
        <3> QED BY <1>1, <2>2, <3>2 DEF RefTest, Types
    <2> QED BY <1>1, <2>1, <2>2 DEF RefTest
<1>2. CASE Clear(t, b)
    <2>1. At(t, b, "clear") /\ \E m \in Destroying : Goto(t, m) BY <1>2, <1>p DEF Clear
    <2>2. /\ frames' = [frames EXCEPT ![t] = frames'[t]]
          /\ \A d \in Blocks : Destroyed(frames[t], d) => Destroyed(frames'[t], d)
        BY <2>1, GotoDying
    <2> QED BY <1>2, <2>2 DEF Clear
<1>3. CASE DestructorReturn(t, b)
    <2> DEFINE r == Tail(frames[t])
    <2> DEFINE s == Push(r, b, "items")
    <2>1. At(t, b, "dtor") /\ RefDec(t, b, s) BY <1>3 DEF DestructorReturn
    <2>2. r \in Seq(Frames) BY <2>1, OnTop, Popped
    <2>c. \A d \in Blocks \ {b} : Destroyed(frames[t], d) => Destroyed(r, d)
        BY <2>1, OnTop, DestroyedPop
    <2> HIDE DEF r
    <2>a. s \in Seq(Frames) /\ Len(s) = Len(r) + 1 /\ s[1] = Frame(b, "items")
        BY <2>2, Pushed, FrameIs DEF Places
    <2>b. Len(r) \in Nat BY <2>2
    <2>3. s \in Seq(Frames) /\ s[1] = Frame(b, "items") /\ 1 \in DOMAIN s BY <2>a, <2>b
    <2>4. ASSUME NEW d \in Blocks, Destroyed(frames[t], d) PROVE Destroyed(s, d)
        <3>1. CASE d = b BY <3>1, <2>3, <1>p DEF Destroyed, Frame
        <3>2. CASE d # b
            <4>1. Destroyed(r, d) BY <2>4, <2>c, <3>2
            <4> QED BY <2>2, <4>1, DestroyedPush, FrameIs DEF Places
        <3> QED BY <3>1, <3>2
    <2> HIDE DEF s
    <2>5. \A d \in Blocks : Destroyed(frames[t], d) => Destroyed(frames'[t], d)
        BY <2>1, <2>3, <2>4, RefDecDestroys
    <2>6. frames' = [frames EXCEPT ![t] = frames'[t]] BY <2>1 DEF RefDec, Types
    <2> QED BY <1>3, <2>5, <2>6 DEF DestructorReturn
<1>4. CASE ReleaseItem(t, b, c)
    <2>1. RefDec(t, c, frames[t]) BY <1>4 DEF ReleaseItem
    <2>2. \A d \in Blocks : Destroyed(frames[t], d) => Destroyed(frames'[t], d)
        BY <1>0, <2>1, RefDecDestroys
    <2>3. frames' = [frames EXCEPT ![t] = frames'[t]] BY <2>1 DEF RefDec, Types
    <2> QED BY <1>4, <2>2, <2>3 DEF ReleaseItem
<1>5. CASE ClearReturn(t, b)
    <2>1. At(t, b, "items") BY <1>5 DEF ClearReturn
    <2>2. CASE list[b] = "deleted"
        <3>1. /\ frames' = [frames EXCEPT ![t] = frames'[t]]
              /\ \A d \in Blocks \ {b} : Destroyed(frames[t], d) => Destroyed(frames'[t], d)
            BY <1>5, <2>1, <2>2, ReturnDying DEF ClearReturn
        <3> QED BY <1>5, <2>2, <3>1 DEF ClearReturn
    <2>3. CASE list[b] # "deleted"
        <3>1. /\ frames' = [frames EXCEPT ![t] = frames'[t]]
              /\ \A d \in Blocks : Destroyed(frames[t], d) => Destroyed(frames'[t], d)
            BY <1>5, <1>p, <2>1, <2>3, GotoDying DEF ClearReturn
        <3> QED BY <1>5, <3>1 DEF ClearReturn
    <2> QED BY <2>2, <2>3
<1>6. CASE RefCheck(t, b)
    <2>1. At(t, b, "check") /\ \E m \in Destroying : Goto(t, m) BY <1>6, <1>p DEF RefCheck
    <2>2. /\ frames' = [frames EXCEPT ![t] = frames'[t]]
          /\ \A d \in Blocks : Destroyed(frames[t], d) => Destroyed(frames'[t], d)
        BY <2>1, GotoDying
    <2> QED BY <1>6, <2>2 DEF RefCheck
<1>7. CASE Keep(t, b)
    <2>1. /\ frames' = [frames EXCEPT ![t] = frames'[t]]
          /\ \A d \in Blocks \ {b} : Destroyed(frames[t], d) => Destroyed(frames'[t], d)
        BY <1>7, ReturnDying DEF Keep
    <2> QED BY <1>7, <2>1 DEF Keep, Types
<1>8. CASE Free(t, b)
    <2>1. /\ frames' = [frames EXCEPT ![t] = frames'[t]]
          /\ \A d \in Blocks \ {b} : Destroyed(frames[t], d) => Destroyed(frames'[t], d)
        BY <1>8, ReturnDying DEF Free
    <2> QED BY <1>8, <2>1 DEF Free, Release, Types
<1> QED BY <1>1, <1>2, <1>3, <1>4, <1>5, <1>6, <1>7, <1>8

-----------------------------------------------------------------------------
(* Marking.                                                                *)

\* References that marking begins with are references to blocks.
LEMMA SeedsAreBlocks == Types => Seeds \subseteq Blocks
<1> SUFFICES ASSUME Types PROVE Seeds \subseteq Blocks OBVIOUS
<1>1. \A b \in On("locked") : items[b] \subseteq Blocks BY DEF Types, On
<1>2. ASSUME NEW t \in Threads PROVE Self(t) \subseteq Blocks
    <2> SUFFICES ASSUME NEW i \in DOMAIN frames[t], frames[t][i].at = "dtor"
                 PROVE  frames[t][i].block \in Blocks
        BY DEF Self
    <2>1. frames[t][i] \in Frames BY DEF Types
    <2> QED BY <2>1, FrameIs
<1>3. root \subseteq Blocks BY DEF Types
<1> QED BY <1>1, <1>2, <1>3 DEF Seeds

\* Only blocks whose flag says that they are not marked yet are marked.
LEMMA MarkedAreMarkable == ASSUME Types, NEW b \in Marked PROVE b \in Blocks /\ Markable(b)
<1> DEFINE S == {c \in Blocks : Markable(c)}
<1>1. S \in SUBSET Blocks OBVIOUS
<1>2. ClosedMark(S) BY SeedsAreBlocks DEF ClosedMark, Types
<1> HIDE DEF S
<1>3. b \in S BY <1>1, <1>2 DEF Marked
<1> QED BY <1>3 DEF S

\* What a mark leads to is marked, unless its flag says that it was before.
LEMMA MarkedIsClosed == Types => ClosedMark(Marked)
<1> SUFFICES ASSUME Types PROVE ClosedMark(Marked) OBVIOUS
<1>1. ASSUME NEW b \in Seeds, Markable(b) PROVE b \in Marked
    BY <1>1, SeedsAreBlocks DEF ClosedMark, Marked
<1>2. ASSUME NEW a \in Marked, NEW b \in items[a], Markable(b) PROVE b \in Marked
    <2>1. a \in Blocks /\ b \in Blocks BY DEF Marked, Types
    <2>2. ASSUME NEW S \in SUBSET Blocks, ClosedMark(S) PROVE b \in S
        <3>1. a \in S BY <2>2 DEF Marked
        <3> QED BY <1>2, <2>2, <3>1 DEF ClosedMark
    <2> QED BY <2>1, <2>2 DEF Marked
<1> QED BY <1>1, <1>2 DEF ClosedMark

\* Marking finds nothing but what the references lead to.
LEMMA MarkedIsReachable == Marked \subseteq ReachableFrom(Seeds)
<1> SUFFICES ASSUME NEW b \in Marked, NEW S \in SUBSET Blocks,
                    Seeds \subseteq S, \A a \in S : items[a] \subseteq S
             PROVE  b \in S
    BY DEF ReachableFrom, Marked
<1>1. ClosedMark(S) BY DEF ClosedMark
<1> QED BY <1>1 DEF Marked

\* The steps of hb_gcCollectAll().
LEMMA CollectDying ==
    ASSUME Types, UnmarkedAreDying, NEW t \in Threads, NEW b \in Blocks,
           CollectAll(t) \/ FinalClear(t, b) \/ FinalRelease(t, b) \/ CollectReturn(t)
    PROVE  StaysDying(t)
<1> USE DEF StaysDying, Held, UnmarkedAreDying, On
<1>0. frames[t] \in Seq(Frames) BY DEF Types
<1>1. CASE CollectAll(t)
    <2>1. frames' = [frames EXCEPT ![t] = Push(frames[t], NoBlock, "gc")] BY <1>1 DEF CollectAll
    <2>2. frames'[t] = Push(frames[t], NoBlock, "gc") BY <2>1 DEF Types
    <2>3. \A d \in Blocks : Destroyed(frames[t], d) => Destroyed(frames'[t], d)
        BY <1>0, <2>2, DestroyedPush, FrameIs
    <2>4. \A d \in Unused(Marked) : list'[d] = "deleted" BY <1>1 DEF CollectAll, Unused
    <2>5. \A d \in Blocks \ Unused(Marked) : list'[d] = list[d] /\ del'[d] = del[d]
        BY <1>1 DEF CollectAll, Types
    <2>6. ASSUME NEW d \in Blocks, Held(d)' PROVE Held(d)
        <3>1. d \notin Unused(Marked) BY <2>6, <2>4
        <3> QED BY <2>5, <2>6, <3>1
    <2>7. ASSUME NEW d \in Blocks, list'[d] = "curr", used'[d] # s_uUsedFlag' PROVE del'[d]
        <3>1. d \notin Unused(Marked) BY <2>7, <2>4
        <3>2. list[d] = "curr" /\ del'[d] = del[d] BY <3>1, <2>5, <2>7
        <3>3. used'[d] = (IF d \in Marked THEN 1 - used[d] ELSE used[d]) /\ s_uUsedFlag' = 1 - s_uUsedFlag
            BY <1>1 DEF CollectAll
        <3>4. d \notin Marked
            BY <3>3, <2>7, MarkedAreMarkable DEF Markable, Types
        <3>5. used[d] = s_uUsedFlag BY <3>3, <3>4, <2>7 DEF Types
        <3>6. del[d] BY <3>1, <3>2, <3>4, <3>5 DEF Unused
        <3> QED BY <3>2, <3>6
    <2>8. frames' = [frames EXCEPT ![t] = frames'[t]] BY <2>1, <2>2
    <2> QED BY <2>3, <2>6, <2>7, <2>8
<1>2. CASE FinalClear(t, b)
    <2>1. frames' = [frames EXCEPT ![t] = Push(frames[t], b, "clear")] BY <1>2 DEF FinalClear
    <2>2. frames'[t] = Push(frames[t], b, "clear") BY <2>1 DEF Types
    <2>3. \A d \in Blocks : Destroyed(frames[t], d) => Destroyed(frames'[t], d)
        BY <1>0, <2>2, DestroyedPush, FrameIs DEF Places
    <2>4. frames' = [frames EXCEPT ![t] = frames'[t]] BY <2>1, <2>2
    <2> QED BY <1>2, <2>3, <2>4 DEF FinalClear
<1>3. CASE FinalRelease(t, b)
    <2>1. ~del'[b] BY <1>3 DEF FinalRelease, Release, Types
    <2>2. \A d \in Blocks \ {b} : list'[d] = list[d] /\ del'[d] = del[d] /\ used'[d] = used[d]
        BY <1>3 DEF FinalRelease, Release, Types
    <2>3. list'[b] = "curr" => used'[b] = s_uUsedFlag' BY <1>3 DEF FinalRelease, Release, Types
    <2>4. s_uUsedFlag' = s_uUsedFlag /\ frames' = frames BY <1>3 DEF FinalRelease
    <2> QED BY <2>1, <2>2, <2>3, <2>4 DEF Types
<1>4. CASE CollectReturn(t)
    <2>1. "gc" \notin Destroying BY DEF Destroying, Places
    <2>2. /\ frames' = [frames EXCEPT ![t] = frames'[t]]
          /\ \A d \in Blocks : Destroyed(frames[t], d) => Destroyed(frames'[t], d)
        BY <1>4, <2>1, ReturnDying DEF CollectReturn
    <2> QED BY <1>4, <2>2 DEF CollectReturn
<1> QED BY <1>1, <1>2, <1>3, <1>4

-----------------------------------------------------------------------------
(* A collection is complete, for any number of threads.                    *)

\* What CollectAll has to know of the blocks.
MarkInv == Types /\ UnmarkedAreDying /\ DeletedAreDying

\* It holds at first, and every step of any thread keeps it.
LEMMA MarkInit == Init => MarkInv
<1> SUFFICES ASSUME Init PROVE MarkInv OBVIOUS
<1>1. <<>> \in Seq(Frames) OBVIOUS
<1>a. frames \in [Threads -> Seq(Frames)] BY <1>1 DEF Init
<1>b. list \in [Blocks -> Lists] BY DEF Init, Lists
<1>c. del \in [Blocks -> BOOLEAN] /\ object \in [Blocks -> BOOLEAN] BY DEF Init
<1>d. used \in [Blocks -> {0, 1}] /\ locked \in [Blocks -> Nat] /\ ref \in [Blocks -> Int] BY DEF Init
<1>2. Types BY <1>a, <1>b, <1>c, <1>d DEF Init, Types
<1>3. UnmarkedAreDying /\ DeletedAreDying BY DEF Init, UnmarkedAreDying, DeletedAreDying, On
<1> QED BY <1>2, <1>3 DEF MarkInv

\* A step of any thread.
LEMMA ThreadStep ==
    ASSUME Types, UnmarkedAreDying, NEW t \in Threads, ThreadNext(t), program' = program
    PROVE  Types' /\ StaysDying(t)
<1>1. ASSUME NEW a \in Blocks, NEW b \in Blocks,
             BlockNext(t, b) \/ Store(t, a, b) \/ Remove(t, a, b) \/ ReleaseItem(t, a, b)
      PROVE  Types' /\ StaysDying(t)
    <2>1. CASE \/ AllocRaw(t, b) \/ Load(t, b) \/ Drop(t, b) \/ GcLock(t, b) \/ GcUnlock(t, b)
               \/ Store(t, a, b) \/ Remove(t, a, b)
        BY <2>1, ProgramTypes, ProgramDying
    <2>2. CASE \/ RefTest(t, b) \/ Clear(t, b) \/ DestructorReturn(t, b)
               \/ ClearReturn(t, b) \/ RefCheck(t, b) \/ Keep(t, b) \/ Free(t, b)
        BY <2>2, RefFreeTypes, RefFreeDying
    <2>3. CASE ReleaseItem(t, a, b) BY <2>3, RefFreeTypes, RefFreeDying
    <2>4. CASE FinalClear(t, b) \/ FinalRelease(t, b) BY <2>4, CollectTypes, CollectDying
    <2> QED BY <1>1, <2>1, <2>2, <2>3, <2>4 DEF BlockNext
<1>2. CASE CollectAll(t)
    <2>1. PICK b \in Blocks : list[b] = "curr" BY <1>2 DEF CollectAll, On
    <2> QED BY <1>2, <2>1, CollectTypes, CollectDying
<1>3. CASE CollectReturn(t)
    <2>1. Types' BY <1>3, ReturnTypes DEF CollectReturn, Types
    <2>2. "gc" \notin Destroying BY DEF Destroying, Places
    <2>3. /\ frames' = [frames EXCEPT ![t] = frames'[t]]
          /\ \A d \in Blocks : Destroyed(frames[t], d) => Destroyed(frames'[t], d)
        BY <1>3, <2>2, ReturnDying DEF CollectReturn
    <2>4. StaysDying(t) BY <1>3, <2>3 DEF CollectReturn, StaysDying, Held, UnmarkedAreDying, On
    <2> QED BY <2>1, <2>4
<1>4. CASE \/ \E b \in Blocks : BlockNext(t, b)
           \/ \E a, b \in Blocks : Store(t, a, b) \/ Remove(t, a, b) \/ ReleaseItem(t, a, b)
    BY <1>1, <1>4
<1> QED BY <1>2, <1>3, <1>4 DEF ThreadNext

\* Every step preserves what the mark phase needs.
LEMMA MarkStep == MarkInv /\ [Next]_vars => MarkInv'
<1> SUFFICES ASSUME MarkInv, [Next]_vars PROVE MarkInv' OBVIOUS
<1> USE DEF MarkInv
<1>1. CASE UNCHANGED vars
    BY <1>1 DEF vars, Types, UnmarkedAreDying, DeletedAreDying, On
<1>2. ASSUME NEW t \in program.threads, ThreadNext(t), program' = program PROVE MarkInv'
    <2>1. t \in Threads BY DEF Types, IsProgram
    <2> QED BY <1>2, <2>1, ThreadStep, StaysDyingKeeps
<1> QED BY <1>1, <1>2 DEF Next

\* Only CollectAll begins a collection.
LEMMA CollectionBegins ==
    ASSUME MarkInv, [Next]_vars, s_bCollecting', ~s_bCollecting
    PROVE  \E t \in Threads : CollectAll(t)
<1>1. ASSUME NEW t \in program.threads, ThreadNext(t), ~CollectAll(t)
      PROVE  s_bCollecting' = s_bCollecting \/ ~s_bCollecting'
    BY <1>1 DEF ThreadNext, BlockNext, AllocRaw, Load, Drop, GcLock, GcUnlock, RefTest, Clear,
        DestructorReturn, ClearReturn, RefCheck, Keep, Free, FinalClear, FinalRelease, Store,
        Remove, ReleaseItem, CollectReturn
<1>2. \A t \in program.threads : t \in Threads BY DEF MarkInv, Types, IsProgram
<1> QED BY <1>1, <1>2 DEF Next, vars

\* What nothing leads to goes to s_pDeletedBlock.
LEMMA CollectionTakesAll ==
    ASSUME MarkInv, NEW t \in Threads, CollectAll(t),
           NEW b \in On("curr") \ (ReachableFrom(Seeds) \cup Dying)
    PROVE  list'[b] = "deleted"
<1> USE DEF MarkInv
<1>0. b \in Blocks /\ list[b] = "curr" BY DEF On
<1>1. \A u \in Threads : ~Destroyed(frames[u], b) BY <1>0 DEF Destroyed, Dying
<1>2. ~del[b] BY <1>1 DEF DeletedAreDying
<1>3. used[b] = s_uUsedFlag BY <1>2 DEF UnmarkedAreDying
<1>4. b \notin Marked BY MarkedIsReachable
<1>5. b \in Unused(Marked) BY <1>2, <1>3, <1>4 DEF Unused
<1> QED BY <1>0, <1>5 DEF CollectAll

\* A collection takes all the garbage there is, whatever the threads of the
\* program and their destructors have done before.
THEOREM CollectionCorrect == Spec => CollectionIsComplete
<1>1. ASSUME MarkInv, [Next]_vars, s_bCollecting', ~s_bCollecting
      PROVE  On("curr") \ (ReachableFrom(Seeds) \cup Dying) \subseteq {b \in Blocks : list'[b] = "deleted"}
    BY <1>1, CollectionBegins, CollectionTakesAll DEF On
<1>2. Spec => []MarkInv BY MarkInit, MarkStep, PTL DEF Spec
<1> QED BY <1>1, <1>2, PTL DEF CollectionIsComplete, Spec

-----------------------------------------------------------------------------
(* A program with one thread: its stack.                                   *)

IsPush(n, s, f) ==
    /\ Len(n) = Len(s) + 1 /\ n[1] = f
    /\ \A i \in 1 .. Len(s) : n[i + 1] = s[i]
    /\ \A i \in 2 .. Len(n) : n[i] = s[i - 1]

IsPop(n, s) ==
    /\ Len(s) > 0 /\ Len(n) = Len(s) - 1
    /\ \A i \in 1 .. Len(n) : n[i] = s[i + 1]
    /\ \A i \in 2 .. Len(s) : s[i] = n[i - 1]

IsMove(n, s, l) ==
    /\ Len(s) > 0 /\ Len(n) = Len(s) /\ n[1] = Frame(s[1].block, l)
    /\ \A i \in 2 .. Len(n) : n[i] = s[i]

\* The three ways in which a stack changes.
LEMMA PushIs ==
    ASSUME NEW s \in Seq(Frames), NEW b, NEW l, Frame(b, l) \in Frames
    PROVE  Push(s, b, l) \in Seq(Frames) /\ IsPush(Push(s, b, l), s, Frame(b, l))
<1> DEFINE n == Push(s, b, l)
<1>1. /\ n \in Seq(Frames) /\ Len(n) = Len(s) + 1 /\ n[1] = Frame(b, l)
      /\ \A i \in 1 .. Len(s) : n[i + 1] = s[i]
      /\ \A i \in 2 .. Len(s) + 1 : n[i] = s[i - 1]
    BY Pushed
<1> HIDE DEF n
<1>2. IsPush(n, s, Frame(b, l)) BY <1>1 DEF IsPush
<1> QED BY <1>1, <1>2 DEF n

\* Tail() is a pop of the frame on top.
LEMMA PopIs ==
    ASSUME NEW s \in Seq(Frames), s # <<>>
    PROVE  Tail(s) \in Seq(Frames) /\ IsPop(Tail(s), s)
<1> DEFINE n == Tail(s)
<1>1. /\ n \in Seq(Frames) /\ Len(n) = Len(s) - 1
      /\ \A i \in 1 .. Len(s) - 1 : n[i] = s[i + 1]
      /\ \A i \in 2 .. Len(s) : s[i] = n[i - 1]
    BY Popped
<1>2. Len(s) > 0 OBVIOUS
<1> HIDE DEF n
<1>3. IsPop(n, s) BY <1>1, <1>2 DEF IsPop
<1> QED BY <1>1, <1>3 DEF n

\* Changing the place of the top frame is a move.
LEMMA MoveIs ==
    ASSUME NEW s \in Seq(Frames), s # <<>>, s[1].block \in Blocks, NEW l \in Places
    PROVE  [s EXCEPT ![1].at = l] \in Seq(Frames) /\ IsMove([s EXCEPT ![1].at = l], s, l)
<1> DEFINE n == [s EXCEPT ![1].at = l]
<1>1. /\ n \in Seq(Frames) /\ Len(n) = Len(s) /\ n[1] = Frame(s[1].block, l)
      /\ \A i \in 2 .. Len(s) : n[i] = s[i]
    BY Moved
<1>2. Len(s) > 0 OBVIOUS
<1> HIDE DEF n
<1>3. IsMove(n, s, l) BY <1>1, <1>2 DEF IsMove
<1> QED BY <1>1, <1>3 DEF n

\* The top of the stack lets another function be called.
MayCall(s) == Len(s) > 0 => s[1].at \in {"dtor", "items", "gc"}

\* A call keeps the order of the stack if no function is at work on the block.
LEMMA StackPush ==
    ASSUME NEW s \in Seq(Frames), NEW n \in Seq(Frames), NEW f \in Frames, IsPush(n, s, f),
           StackOK(s), MayCall(s),
           f.at = "test" \/ \A j \in DOMAIN s : s[j].at # "test" => s[j].block # f.block
    PROVE  StackOK(n)
<1>1. ASSUME NEW i \in DOMAIN n, i > 1 PROVE n[i].at \in {"dtor", "items", "gc"}
    <2>1. i - 1 \in DOMAIN s /\ n[i] = s[i - 1] BY <1>1 DEF IsPush
    <2> QED BY <2>1 DEF StackOK, MayCall
<1>2. ASSUME NEW i \in DOMAIN n, NEW j \in DOMAIN n, i < j,
             n[i].block = n[j].block, "test" \notin {n[i].at, n[j].at}
      PROVE  FALSE
    <2>1. j - 1 \in DOMAIN s /\ n[j] = s[j - 1] BY <1>2 DEF IsPush
    <2>2. CASE i = 1 BY <1>2, <2>1, <2>2 DEF IsPush
    <2>3. CASE i > 1
        <3>1. i - 1 \in DOMAIN s /\ n[i] = s[i - 1] BY <1>2, <2>3 DEF IsPush
        <3>2. i - 1 = j - 1 BY <1>2, <2>1, <3>1 DEF StackOK
        <3> QED BY <1>2, <3>2
    <2> QED BY <2>2, <2>3
<1>3. \A i, j \in DOMAIN n : i < j \/ j < i \/ i = j OBVIOUS
<1> QED BY <1>1, <1>2, <1>3 DEF StackOK

\* A return keeps it.
LEMMA StackPop ==
    ASSUME NEW s \in Seq(Frames), NEW n \in Seq(Frames), IsPop(n, s), StackOK(s)
    PROVE  StackOK(n)
<1>1. \A i \in DOMAIN n : i + 1 \in DOMAIN s /\ n[i] = s[i + 1] BY DEF IsPop
<1>2. ASSUME NEW i \in DOMAIN n PROVE n[i].at \in {"dtor", "items", "gc"}
    <2>1. i + 1 \in DOMAIN s /\ n[i] = s[i + 1] /\ i + 1 > 1 BY <1>1
    <2> QED BY <2>1 DEF StackOK
<1>3. ASSUME NEW i \in DOMAIN n, NEW j \in DOMAIN n,
             n[i].block = n[j].block, "test" \notin {n[i].at, n[j].at}
      PROVE  i = j
    <2>1. i + 1 = j + 1 BY <1>1, <1>3 DEF StackOK
    <2> QED BY <2>1
<1> QED BY <1>2, <1>3 DEF StackOK

\* So does a function that goes on, with the block on which it was at work.
LEMMA StackMove ==
    ASSUME NEW s \in Seq(Frames), NEW n \in Seq(Frames), NEW l \in Places, IsMove(n, s, l),
           StackOK(s),
           s[1].at # "test" \/ \A j \in DOMAIN s : s[j].at # "test" => s[j].block # s[1].block
    PROVE  StackOK(n)
<1>0. 1 \in DOMAIN s /\ DOMAIN n = DOMAIN s /\ n[1].block = s[1].block /\ n[1].at = l
    BY DEF IsMove, Frame
<1>1. ASSUME NEW i \in DOMAIN n, i > 1 PROVE i \in DOMAIN s /\ n[i] = s[i]
    BY <1>1 DEF IsMove
<1>2. ASSUME NEW i \in DOMAIN n, NEW j \in DOMAIN n, i < j,
             n[i].block = n[j].block, "test" \notin {n[i].at, n[j].at}
      PROVE  FALSE
    <2>1. n[j] = s[j] BY <1>1, <1>2
    <2>2. CASE i = 1 BY <1>0, <1>2, <2>1, <2>2 DEF StackOK
    <2>3. CASE i > 1 BY <1>0, <1>1, <1>2, <2>1, <2>3 DEF StackOK
    <2> QED BY <2>2, <2>3
<1>3. \A i, j \in DOMAIN n : i < j \/ j < i \/ i = j OBVIOUS
<1> QED BY <1>0, <1>1, <1>2, <1>3 DEF StackOK

\* Which destructors run afterwards.
LEMMA DestructorPush ==
    ASSUME NEW s \in Seq(Frames), NEW n \in Seq(Frames), NEW f \in Frames, IsPush(n, s, f)
    PROVE  \A b \in Blocks : InDestructor(n, b) <=> (InDestructor(s, b) \/ f = Frame(b, "dtor"))
<1> SUFFICES ASSUME NEW b \in Blocks
             PROVE  InDestructor(n, b) <=> (InDestructor(s, b) \/ f = Frame(b, "dtor"))
    OBVIOUS
<1>1. \A i \in DOMAIN s : i + 1 \in DOMAIN n /\ n[i + 1] = s[i] BY DEF IsPush
<1>2. \A i \in DOMAIN n : i # 1 => i - 1 \in DOMAIN s /\ n[i] = s[i - 1] BY DEF IsPush
<1>3. 1 \in DOMAIN n /\ n[1] = f BY DEF IsPush
<1> QED BY <1>1, <1>2, <1>3 DEF InDestructor

\* A pop of a frame outside a destructor changes no destructor reference.
LEMMA DestructorPop ==
    ASSUME NEW s \in Seq(Frames), NEW n \in Seq(Frames), IsPop(n, s), s[1].at # "dtor"
    PROVE  \A b \in Blocks : InDestructor(n, b) <=> InDestructor(s, b)
<1> SUFFICES ASSUME NEW b \in Blocks PROVE InDestructor(n, b) <=> InDestructor(s, b) OBVIOUS
<1>1. \A i \in DOMAIN n : i + 1 \in DOMAIN s /\ n[i] = s[i + 1] BY DEF IsPop
<1>2. \A i \in DOMAIN s : i # 1 => i - 1 \in DOMAIN n /\ s[i] = n[i - 1] BY DEF IsPop
<1>3. s[1] # Frame(b, "dtor") BY DEF Frame
<1> QED BY <1>1, <1>2, <1>3 DEF InDestructor

\* A move changes the destructor reference of the block on top only.
LEMMA DestructorMove ==
    ASSUME NEW s \in Seq(Frames), NEW n \in Seq(Frames), NEW l \in Places, IsMove(n, s, l),
           StackOK(s), s[1].block \in Blocks, s[1].at # "test"
    PROVE  /\ \A b \in Blocks \ {s[1].block} : InDestructor(n, b) <=> InDestructor(s, b)
           /\ InDestructor(s, s[1].block) <=> s[1].at = "dtor"
           /\ InDestructor(n, s[1].block) <=> l = "dtor"
<1>0. 1 \in DOMAIN s /\ DOMAIN n = DOMAIN s /\ n[1] = Frame(s[1].block, l) /\ s[1] \in Frames
    BY DEF IsMove
<1>1. \A i \in DOMAIN s : i # 1 => n[i] = s[i] BY DEF IsMove
<1>2. \A i \in DOMAIN s : i # 1 => s[i].at = "test" \/ s[i].block # s[1].block
    BY <1>0 DEF StackOK
<1>3. s[1] = Frame(s[1].block, s[1].at) BY <1>0, FrameIs
<1>4. \A b, c, k, m : Frame(b, k) = Frame(c, m) <=> b = c /\ k = m BY DEF Frame
<1>5. \A i \in DOMAIN s : i # 1 => s[i] # Frame(s[1].block, "dtor") BY <1>2 DEF Frame
<1> QED BY <1>0, <1>1, <1>3, <1>4, <1>5 DEF InDestructor

\* A move between two places outside a destructor changes no destructor reference.
LEMMA DestructorStays ==
    ASSUME NEW s \in Seq(Frames), NEW n \in Seq(Frames), NEW l \in Places, IsMove(n, s, l),
           s[1].at # "dtor", l # "dtor"
    PROVE  \A b \in Blocks : InDestructor(n, b) <=> InDestructor(s, b)
<1>0. 1 \in DOMAIN s /\ DOMAIN n = DOMAIN s /\ n[1].at = l BY DEF IsMove, Frame
<1>1. \A i \in DOMAIN s : i # 1 => n[i] = s[i] BY DEF IsMove
<1>2. \A b : s[1] # Frame(b, "dtor") /\ n[1] # Frame(b, "dtor") BY <1>0 DEF Frame
<1> QED BY <1>0, <1>1, <1>2 DEF InDestructor

-----------------------------------------------------------------------------
(* A program with one thread: the counters.                                *)

\* The blocks that refer to a block are finitely many.
LEMMA HoldersCount ==
    /\ \A b : IsFiniteSet(Holders(b)) /\ Cardinality(Holders(b)) \in Nat
    /\ \A b : Holders(b) # {} => Cardinality(Holders(b)) > 0
<1>1. IsFiniteSet(Blocks) OBVIOUS
<1>2. \A b : Holders(b) \subseteq Blocks BY DEF Holders, Live
<1>3. \A b : IsFiniteSet(Holders(b)) BY <1>1, <1>2, FS_Subset
<1> QED BY <1>3, FS_CardinalityType, FS_EmptySet

\* The number of references is a number, and not zero if there is one.
LEMMA RefsCount ==
    ASSUME NEW s, NEW b
    PROVE  /\ Refs(s, b) \in Nat
           /\ b \in root => Refs(s, b) > 0
           /\ InDestructor(s, b) => Refs(s, b) > 0
           /\ \A a \in Live : b \in items[a] => Refs(s, b) > 0
<1>1. Cardinality(Holders(b)) \in Nat BY HoldersCount
<1>2. ASSUME NEW a \in Live, b \in items[a] PROVE Cardinality(Holders(b)) > 0
    BY <1>2, HoldersCount DEF Holders
<1> QED BY <1>1, <1>2 DEF Refs

\* A step that leaves the references and the counters alone, or forgets the
\* references of a block that is freed.
LEMMA CountedKeeps ==
    ASSUME NEW s, NEW n, Types, Counted(s), kept => kept',
           \A c \in Live' : /\ c \in Live /\ ref'[c] = ref[c] /\ (c \in root' <=> c \in root)
                            /\ Holders(c)' \subseteq Holders(c)
                            /\ ~kept' => Holders(c)' = Holders(c)
                            /\ InDestructor(n, c) <=> InDestructor(s, c)
    PROVE  Counted(n)'
<1> SUFFICES ASSUME NEW c \in Live'
             PROVE  Refs(n, c)' <= ref'[c] /\ (~kept' => Refs(n, c)' = ref'[c])
    BY DEF Counted
<1>1. Refs(s, c) <= ref[c] /\ (~kept => Refs(s, c) = ref[c]) BY DEF Counted
<1>2. IsFiniteSet(Holders(c)) BY HoldersCount
<1>3. Cardinality(Holders(c)') <= Cardinality(Holders(c)) /\ Cardinality(Holders(c)') \in Nat
    BY <1>2, FS_Subset, FS_CardinalityType
<1>4. Cardinality(Holders(c)) \in Nat BY HoldersCount
<1>5. ref[c] \in Int BY DEF Types, Live
<1>6. Refs(n, c)' <= Refs(s, c) /\ (~kept' => Refs(n, c)' = Refs(s, c))
    BY <1>3, <1>4 DEF Refs
<1>7. Refs(s, c) \in Nat BY RefsCount
<1>8. Refs(n, c)' \in Nat BY <1>3 DEF Refs
<1> QED BY <1>1, <1>5, <1>6, <1>7, <1>8

\* What a step that counts one reference more or less does to all other blocks.
OthersSame(s, n, b) ==
    \A c \in Live' \ {b} : /\ c \in Live /\ ref'[c] = ref[c] /\ (c \in root' <=> c \in root)
                           /\ Holders(c)' = Holders(c)
                           /\ InDestructor(n, c) <=> InDestructor(s, c)

\* One reference to b more, or less, is counted as one.
LEMMA CountedMoves ==
    ASSUME NEW s, NEW n, Types, Counted(s), kept => kept', NEW b \in Live, NEW k \in {-1, 1},
           OthersSame(s, n, b), ref'[b] = ref[b] + k, Refs(n, b)' = Refs(s, b) + k
    PROVE  Counted(n)'
<1> SUFFICES ASSUME NEW c \in Live'
             PROVE  Refs(n, c)' <= ref'[c] /\ (~kept' => Refs(n, c)' = ref'[c])
    BY DEF Counted
<1>1. CASE c # b
    <2>1. c \in Live /\ Refs(s, c) <= ref[c] /\ (~kept => Refs(s, c) = ref[c])
        BY <1>1 DEF Counted, OthersSame
    <2>2. Refs(n, c)' = Refs(s, c) BY <1>1 DEF Refs, OthersSame
    <2> QED BY <1>1, <2>1, <2>2 DEF OthersSame
<1>2. CASE c = b
    <2>1. Refs(s, b) <= ref[b] /\ (~kept => Refs(s, b) = ref[b]) BY DEF Counted
    <2>2. Refs(s, b) \in Nat /\ ref[b] \in Int BY RefsCount DEF Types, Live
    <2> QED BY <1>2, <2>1, <2>2
<1> QED BY <1>1, <1>2

\* The number of references after one is stored or removed.
LEMMA HolderAdded ==
    ASSUME NEW s, NEW a \in Live, NEW b, b \notin items[a], Holders(b)' = Holders(b) \cup {a},
           b \in root' <=> b \in root
    PROVE  Refs(s, b)' = Refs(s, b) + 1
<1>1. IsFiniteSet(Holders(b)) /\ a \notin Holders(b) BY HoldersCount DEF Holders
<1>2. Cardinality(Holders(b) \cup {a}) = Cardinality(Holders(b)) + 1 BY <1>1, FS_AddElement
<1>3. Cardinality(Holders(b)) \in Nat BY HoldersCount
<1> QED BY <1>2, <1>3 DEF Refs

\* A block that leaves the items of a has one reference less.
LEMMA HolderRemoved ==
    ASSUME NEW s, NEW a \in Live, NEW b, b \in items[a], Holders(b)' = Holders(b) \ {a},
           b \in root' <=> b \in root
    PROVE  Refs(s, b)' = Refs(s, b) - 1
<1>1. IsFiniteSet(Holders(b)) /\ a \in Holders(b) BY HoldersCount DEF Holders
<1>2. Cardinality(Holders(b) \ {a}) = Cardinality(Holders(b)) - 1 BY <1>1, FS_RemoveElement
<1>3. Cardinality(Holders(b)) \in Nat BY HoldersCount
<1> QED BY <1>2, <1>3 DEF Refs

\* Entering or leaving the variables changes the references of a block by one.
LEMMA RootChanged ==
    ASSUME NEW s, NEW b, Holders(b)' = Holders(b)
    PROVE  /\ b \notin root /\ b \in root' => Refs(s, b)' = Refs(s, b) + 1
           /\ b \in root /\ b \notin root' => Refs(s, b)' = Refs(s, b) - 1
<1>1. Cardinality(Holders(b)) \in Nat BY HoldersCount
<1> QED BY <1>1 DEF Refs

\* Entering or leaving its destructor changes the references of a block by one.
LEMMA DestructorChanged ==
    ASSUME NEW s, NEW n, NEW b, Holders(b)' = Holders(b), b \in root' <=> b \in root
    PROVE  /\ ~InDestructor(s, b) /\ InDestructor(n, b) => Refs(n, b)' = Refs(s, b) + 1
           /\ InDestructor(s, b) /\ ~InDestructor(n, b) => Refs(n, b)' = Refs(s, b) - 1
<1>1. Cardinality(Holders(b)) \in Nat BY HoldersCount
<1> QED BY <1>1 DEF Refs

-----------------------------------------------------------------------------
(* A program with one thread: the steps of the program.                    *)

\* While the program runs no hb_gcRefFree() is between two of its own steps.
LEMMA ProgramStack ==
    ASSUME NEW t \in Threads, NEW s \in Seq(Frames), s = frames[t], StackOK(s), InProgram(t)
    PROVE  /\ \A i \in DOMAIN s : s[i].at \in {"dtor", "items", "gc"}
           /\ MayCall(s)
<1>1. CASE s = <<>> BY <1>1 DEF MayCall
<1>2. CASE s # <<>>
    <2>1. s[1].at = "dtor" BY <1>2 DEF InProgram
    <2> QED BY <2>1 DEF StackOK, MayCall
<1> QED BY <1>1, <1>2

\* What the program can name is there, and is not dying unless it is the object
\* of the destructor or was kept.
LEMMA KnownIsLive ==
    ASSUME NEW t \in Threads, NEW s \in Seq(Frames), s = frames[t], NothingDangles(s), DyingIsApart(s),
           NEW a \in Known(t), Types
    PROVE  /\ a \in Live /\ a \in Blocks
           /\ ~kept => ~del[a] \/ Destroyed(s, a)
<1>0. a \in Blocks BY DEF Known, Types
<1>1. CASE a \in root BY <1>0, <1>1 DEF NothingDangles, DyingIsApart
<1>2. CASE At(t, a, "dtor")
    <2>1. 1 \in DOMAIN s /\ s[1] = Frame(a, "dtor") BY <1>2, OnTop
    <2>2. InDestructor(s, a) BY <2>1 DEF InDestructor
    <2>3. Destroyed(s, a) BY <2>1 DEF Destroyed, Frame, Destroying, Places
    <2> QED BY <1>0, <2>2, <2>3 DEF NothingDangles
<1> QED BY <1>1, <1>2 DEF Known

\* hb_gcAllocRaw(): the new block is known only to its variable.
LEMMA AllocSafe ==
    ASSUME NEW t \in Threads, NEW s \in Seq(Frames), s = frames[t], NEW b \in Blocks,
           Types, Types', SequentialInv(s), AllocRaw(t, b)
    PROVE  SequentialInv(s)'
<1> USE DEF SequentialInv
<1>0. /\ InProgram(t) /\ b \notin Live /\ list' = [list EXCEPT ![b] = "curr"]
      /\ del' = [del EXCEPT ![b] = FALSE] /\ ref' = [ref EXCEPT ![b] = 1]
      /\ items' = [items EXCEPT ![b] = {}] /\ root' = root \cup {b}
      /\ toClear' = toClear /\ s_bCollecting' = s_bCollecting /\ kept' = kept
    BY DEF AllocRaw, Live
<1>1. Live' = Live \cup {b} BY <1>0 DEF Live, Types
<1>2. On("deleted")' = On("deleted") /\ b \notin On("deleted") BY <1>0 DEF On, Types, Live
<1>3. StackOK(s)' BY DEF StackOK
<1>4. \A i \in DOMAIN s : s[i].block # b BY <1>0 DEF DyingOK
<1>5. DyingOK(s)'
    <2> SUFFICES ASSUME NEW i \in DOMAIN s, NEW c \in Blocks, s[i].block = c
                 PROVE  /\ c \in Live'
                        /\ s[i].at \in Destroying => del'[c] /\ c \notin toClear'
                        /\ s[i].at \in {"check", "keep", "free"} => items'[c] = {} /\ list'[c] # "deleted"
                        /\ s[i].at \in {"test", "free"} => ref'[c] = 0
        BY DEF DyingOK
    <2>1. c # b BY <1>4
    <2>2. del'[c] = del[c] /\ items'[c] = items[c] /\ list'[c] = list[c] /\ ref'[c] = ref[c]
        BY <1>0, <2>1 DEF Types
    <2> QED BY <1>0, <1>1, <2>2 DEF DyingOK
<1>6. FinalOK(s)' BY <1>0, <1>2 DEF FinalOK, Types
<1>7. ~InDestructor(s, b) BY <1>4 DEF InDestructor, Frame
<1>8. \A c \in Live : Holders(c)' = Holders(c) BY <1>0, <1>1 DEF Holders, Types, Live
<1>9. Holders(b)' = {} BY <1>0, <1>1 DEF Holders, Types, NothingDangles, Live
<1>10. Counted(s)'
    <2> SUFFICES ASSUME NEW c \in Live'
                 PROVE  Refs(s, c)' <= ref'[c] /\ (~kept' => Refs(s, c)' = ref'[c])
        BY DEF Counted
    <2>1. CASE c = b
        <3>1. Refs(s, b)' = 1
            BY <1>0, <1>7, <1>9, FS_EmptySet DEF Refs
        <3> QED BY <1>0, <2>1, <3>1 DEF Types
    <2>2. CASE c # b
        <3>1. c \in Live /\ ref'[c] = ref[c] BY <1>0, <1>1, <2>2 DEF Types
        <3>2. Refs(s, c)' = Refs(s, c) BY <1>0, <1>8, <2>2, <3>1 DEF Refs
        <3> QED BY <1>0, <3>1, <3>2 DEF Counted
    <2> QED BY <2>1, <2>2
<1>11. NothingDangles(s)' BY <1>0, <1>1 DEF NothingDangles, Types, InDestructor
<1>12. DyingIsApart(s)'
    <2>1. \A c \in root' : ~kept => ~del'[c] BY <1>0 DEF DyingIsApart, Types
    <2>2. ASSUME NEW a \in Live', ~kept, ~del'[a], NEW c \in items'[a] PROVE ~del'[c]
        <3>1. a # b /\ a \in Live /\ c \in items[a] BY <1>0, <1>1, <2>2 DEF Types
        <3>2. c # b BY <1>0, <3>1 DEF NothingDangles
        <3>3. ~del[c] BY <1>0, <2>2, <3>1 DEF DyingIsApart, Types, Live
        <3> QED BY <1>0, <3>2, <3>3 DEF Types, Live
    <2>3. \A c \in On("deleted") : items'[c] = items[c] BY <1>0, <1>2 DEF Types, On
    <2> QED BY <1>0, <1>2, <2>1, <2>2, <2>3 DEF DyingIsApart, Destroyed
<1> QED BY <1>3, <1>5, <1>6, <1>10, <1>11, <1>12

\* The parts of the invariant that a change of references and counters does not
\* touch while the program runs.
LEMMA ProgramParts ==
    ASSUME NEW t \in Threads, NEW s \in Seq(Frames), s = frames[t], Types, Types', SequentialInv(s),
           InProgram(t), list' = list, del' = del, toClear' = toClear, s_bCollecting' = s_bCollecting
    PROVE  /\ StackOK(s)' /\ DyingOK(s)' /\ FinalOK(s)'
           /\ Live' = Live /\ On("deleted")' = On("deleted")
<1> USE DEF SequentialInv
<1>1. Live' = Live /\ On("deleted")' = On("deleted") BY DEF Live, On
<1>2. \A i \in DOMAIN s : s[i].at \in {"dtor", "items", "gc"} BY ProgramStack
<1>3. DyingOK(s)' BY <1>1, <1>2 DEF DyingOK
<1>4. StackOK(s)' BY DEF StackOK
<1>5. FinalOK(s)' BY <1>1 DEF FinalOK
<1> QED BY <1>1, <1>3, <1>4, <1>5

\* Storing a reference: the counter and the holders grow together.
LEMMA StoreSafe ==
    ASSUME NEW t \in Threads, NEW s \in Seq(Frames), s = frames[t], NEW a \in Blocks, NEW b \in Blocks,
           Types, Types', SequentialInv(s), Store(t, a, b)
    PROVE  SequentialInv(s)'
<1> USE DEF SequentialInv
<1>0. /\ InProgram(t) /\ a \in Known(t) /\ b \in Known(t) /\ b \notin items[a]
      /\ list' = list /\ del' = del /\ ref' = [ref EXCEPT ![b] = @ + 1]
      /\ items' = [items EXCEPT ![a] = @ \cup {b}] /\ root' = root
      /\ toClear' = toClear /\ s_bCollecting' = s_bCollecting /\ kept' = (kept \/ del[b])
    BY DEF Store, RefInc
<1>1. StackOK(s)' /\ DyingOK(s)' /\ FinalOK(s)' /\ Live' = Live /\ On("deleted")' = On("deleted")
    BY <1>0, ProgramParts
<1>2. a \in Live /\ b \in Live BY <1>0, KnownIsLive
<1>3. Counted(s)'
    <2>1. Holders(b)' = Holders(b) \cup {a} BY <1>0, <1>1, <1>2 DEF Holders, Types
    <2>2. OthersSame(s, s, b) BY <1>0, <1>1 DEF OthersSame, Holders, Types, Live
    <2>3. Refs(s, b)' = Refs(s, b) + 1 BY <1>0, <1>2, <2>1, HolderAdded
    <2>4. ref'[b] = ref[b] + 1 BY <1>0 DEF Types
    <2> QED BY <1>0, <1>2, <2>2, <2>3, <2>4, CountedMoves
<1>4. NothingDangles(s)' BY <1>0, <1>1, <1>2, SMTT(30) DEF NothingDangles, Types, Live
<1>5. DyingIsApart(s)'
    <2> SUFFICES ASSUME ~kept' PROVE
          /\ \A c \in root' : ~del'[c]
          /\ \A d \in Live' : ~del'[d] => \A c \in items'[d] : ~del'[c]
          /\ \A c \in On("deleted")' \ toClear' : items'[c] = {} \/ Destroyed(s, c)
        BY DEF DyingIsApart, Destroyed
    <2>1. ~kept /\ ~del[b] BY <1>0 DEF Types
    <2>2. \A c \in On("deleted") \ toClear : items'[c] = {} \/ Destroyed(s, c)
        <3> SUFFICES ASSUME NEW c \in On("deleted") \ toClear PROVE items'[c] = {} \/ Destroyed(s, c)
            OBVIOUS
        <3>1. CASE c # a BY <1>0, <2>1, <3>1 DEF DyingIsApart, Types, On
        <3>2. CASE c = a
            <4>1. del[a] BY <3>2 DEF FinalOK
            <4> QED BY <1>0, <2>1, <3>2, <4>1, KnownIsLive
        <3> QED BY <3>1, <3>2
    <2>3. \A d \in Live : ~del[d] => \A c \in items'[d] : ~del[c]
        BY <1>0, <2>1 DEF DyingIsApart, Types, Live
    <2> QED BY <1>0, <1>1, <2>1, <2>2, <2>3 DEF DyingIsApart
<1> QED BY <1>1, <1>3, <1>4, <1>5

\* Copying an item to a variable: the counter and the variables grow together.
LEMMA LoadSafe ==
    ASSUME NEW t \in Threads, NEW s \in Seq(Frames), s = frames[t], NEW b \in Blocks,
           Types, Types', SequentialInv(s), Load(t, b)
    PROVE  SequentialInv(s)'
<1> USE DEF SequentialInv
<1>0. /\ InProgram(t) /\ b \notin root /\ b \in Known(t) \cup (UNION {items[a] : a \in Known(t)})
      /\ list' = list /\ del' = del /\ ref' = [ref EXCEPT ![b] = @ + 1]
      /\ items' = items /\ root' = root \cup {b}
      /\ toClear' = toClear /\ s_bCollecting' = s_bCollecting /\ kept' = (kept \/ del[b])
    BY DEF Load, RefInc
<1>1. StackOK(s)' /\ DyingOK(s)' /\ FinalOK(s)' /\ Live' = Live /\ On("deleted")' = On("deleted")
    BY <1>0, ProgramParts
<1>2. b \in Live BY <1>0, KnownIsLive DEF NothingDangles
<1>3. Counted(s)'
    <2>1. \A c : Holders(c)' = Holders(c) BY <1>0, <1>1 DEF Holders
    <2>2. OthersSame(s, s, b) BY <1>0, <1>1, <2>1 DEF OthersSame, Types, Live
    <2>3. Refs(s, b)' = Refs(s, b) + 1 BY <1>0, <2>1, RootChanged
    <2>4. ref'[b] = ref[b] + 1 BY <1>0 DEF Types
    <2> QED BY <1>0, <1>2, <2>2, <2>3, <2>4, CountedMoves
<1>4. NothingDangles(s)' BY <1>0, <1>1, <1>2 DEF NothingDangles
<1>5. DyingIsApart(s)' BY <1>0, <1>1 DEF DyingIsApart, Types
<1> QED BY <1>1, <1>3, <1>4, <1>5

\* hb_gcLock() and hb_gcUnlock() move a block between two lists and touch no reference.
LEMMA LockSafe ==
    ASSUME NEW t \in Threads, NEW s \in Seq(Frames), s = frames[t], NEW b \in Blocks,
           Types, Types', SequentialInv(s), GcLock(t, b) \/ GcUnlock(t, b)
    PROVE  SequentialInv(s)'
<1> USE DEF SequentialInv
<1>0. /\ InProgram(t) /\ del' = del /\ ref' = ref /\ items' = items /\ root' = root
      /\ toClear' = toClear /\ s_bCollecting' = s_bCollecting /\ kept' = kept /\ ~del[b]
      /\ \A c \in Blocks \ {b} : list'[c] = list[c]
      /\ list'[b] \in {"curr", "locked"}
    BY DEF GcLock, GcUnlock, Types
<1>1. b \in Live /\ b \notin On("deleted")
    BY <1>0 DEF GcLock, GcUnlock, NothingDangles, FinalOK, On, Live
<1>2. Live' = Live /\ On("deleted")' = On("deleted") BY <1>0, <1>1 DEF Live, On
<1>3. \A i \in DOMAIN s : s[i].at \in {"dtor", "items", "gc"} BY <1>0, ProgramStack
<1>4. DyingOK(s)' BY <1>0, <1>2, <1>3 DEF DyingOK
<1>5. StackOK(s)' BY DEF StackOK
<1>6. FinalOK(s)' BY <1>0, <1>2 DEF FinalOK
<1>7. \A c : Holders(c)' = Holders(c) BY <1>0, <1>2 DEF Holders
<1>8. Counted(s)' BY <1>0, <1>2, <1>7, CountedKeeps
<1>9. NothingDangles(s)' BY <1>0, <1>2 DEF NothingDangles
<1>10. DyingIsApart(s)' BY <1>0, <1>2 DEF DyingIsApart
<1> QED BY <1>4, <1>5, <1>6, <1>8, <1>9, <1>10

-----------------------------------------------------------------------------
(* A program with one thread: references that go.                          *)

\* All frames of a stack that may call let other functions be called.
LEMMA CallStack ==
    ASSUME NEW s \in Seq(Frames), StackOK(s), MayCall(s)
    PROVE  \A i \in DOMAIN s : s[i].at \in {"dtor", "items", "gc"}
BY DEF StackOK, MayCall

\* hb_gcRefFree() goes on for a block whose counter is zero.
LEMMA TestPushed ==
    ASSUME NEW s \in Seq(Frames), NEW n \in Seq(Frames), NEW b \in Blocks, Types', SequentialInv(s)',
           IsPush(n, s, Frame(b, "test")), MayCall(s), b \in Live', ref'[b] = 0
    PROVE  SequentialInv(n)'
<1> USE DEF SequentialInv
<1>0. StackOK(s) /\ Frame(b, "test") \in Frames /\ Frame(b, "test").at = "test"
    BY FrameIs DEF StackOK, Frame, Places
<1>1. StackOK(n) BY <1>0, StackPush
<1>2. \A c \in Blocks : InDestructor(n, c) <=> InDestructor(s, c)
    BY <1>0, DestructorPush DEF Frame
<1>3. \A i \in DOMAIN n : i = 1 \/ (i > 1 /\ i - 1 \in DOMAIN s /\ n[i] = s[i - 1]) BY DEF IsPush
<1>4. n[1].block = b /\ n[1].at = "test" BY DEF IsPush, Frame
<1>5. DyingOK(n)'
    <2> SUFFICES ASSUME NEW i \in DOMAIN n, NEW c \in Blocks, n[i].block = c
                 PROVE  /\ c \in Live'
                        /\ n[i].at \in Destroying => del'[c] /\ c \notin toClear'
                        /\ n[i].at \in {"check", "keep", "free"} => items'[c] = {} /\ list'[c] # "deleted"
                        /\ n[i].at \in {"test", "free"} => ref'[c] = 0
        BY DEF DyingOK
    <2>1. CASE i = 1 BY <2>1, <1>4 DEF Destroying
    <2>2. CASE i > 1
        <3>1. i - 1 \in DOMAIN s /\ n[i] = s[i - 1] BY <1>3, <2>2
        <3>2. s[i - 1].block = c BY <3>1
        <3> QED BY <3>1, <3>2, ZenonT(60) DEF DyingOK
    <2> QED BY <2>1, <2>2, <1>3
<1>6. FinalOK(n)'
    <2>1. (\E i \in DOMAIN n : n[i].at = "gc") <=> (\E i \in DOMAIN s : s[i].at = "gc")
        <3>1. \A i \in DOMAIN s : i + 1 \in DOMAIN n /\ n[i + 1] = s[i] BY DEF IsPush
        <3> QED BY <1>3, <1>4, <3>1
    <2>2. ASSUME NEW i \in DOMAIN n, NEW j \in DOMAIN n, n[i].at = "gc", i < j
          PROVE  n[j].block \notin On("deleted")'
        <3>1. i > 1 /\ j > 1 BY <2>2, <1>3, <1>4
        <3>2. i - 1 \in DOMAIN s /\ j - 1 \in DOMAIN s /\ n[i] = s[i - 1] /\ n[j] = s[j - 1] /\ i - 1 < j - 1
            BY <1>3, <2>2, <3>1
        <3> QED BY <2>2, <3>2 DEF FinalOK
    <2> QED BY <2>1, <2>2 DEF FinalOK
<1>7. Counted(n)' BY <1>2 DEF Counted, Refs, Live
<1>8. NothingDangles(n)' BY <1>2 DEF NothingDangles
<1>9. \A c \in Blocks : Destroyed(s, c) => Destroyed(n, c)
    <2> SUFFICES ASSUME NEW c \in Blocks, NEW i \in DOMAIN s, s[i].block = c, s[i].at \in Destroying
                 PROVE  Destroyed(n, c)
        BY DEF Destroyed
    <2>1. i + 1 \in DOMAIN n /\ n[i + 1] = s[i] BY DEF IsPush
    <2> QED BY <2>1 DEF Destroyed
<1>10. DyingIsApart(n)' BY <1>9 DEF DyingIsApart, On
<1> QED BY <1>1, <1>5, <1>6, <1>7, <1>8, <1>10 DEF StackOK

\* hb_xRefDec() and the frame that is pushed if the counter is zero.
LEMMA RefDecSafe ==
    ASSUME NEW t \in Threads, NEW s \in Seq(Frames), NEW n \in Seq(Frames), n = frames'[t],
           NEW b \in Blocks, Types, Types', SequentialInv(s)', MayCall(s), b \in Live', RefDec(t, b, s)
    PROVE  SequentialInv(n)'
<1>1. CASE ref[b] = 1
    <2>1. n = Push(s, b, "test") /\ ref'[b] = 0 BY <1>1 DEF RefDec, Types
    <2>2. IsPush(n, s, Frame(b, "test")) BY <2>1, PushIs, FrameIs DEF Places
    <2> QED BY <2>1, <2>2, TestPushed
<1>2. CASE ref[b] # 1
    <2>1. n = s BY <1>2 DEF RefDec, Types
    <2> QED BY <2>1
<1> QED BY <1>1, <1>2

\* A step that only forgets references.  n is the stack without the frame of
\* hb_gcRefFree().
LEMMA ForgetSafe ==
    ASSUME NEW s \in Seq(Frames), NEW n \in Seq(Frames), Types, Types', SequentialInv(s),
           StackOK(n), MayCall(n), Len(n) = Len(s),
           \A i \in DOMAIN s : n[i].block = s[i].block /\ (n[i].at \in Destroying <=> s[i].at \in Destroying)
                               /\ (n[i].at = "gc" <=> s[i].at = "gc"),
           \A c \in Blocks : InDestructor(n, c) => InDestructor(s, c),
           list' = list, del' = del, toClear' = toClear, s_bCollecting' = s_bCollecting, kept' = kept,
           root' \subseteq root, \A c \in Blocks : items'[c] \subseteq items[c], Counted(n)'
    PROVE  SequentialInv(n)'
<1> USE DEF SequentialInv
<1>1. Live' = Live /\ On("deleted")' = On("deleted") BY DEF Live, On
<1>2. DOMAIN n = DOMAIN s OBVIOUS
<1>3. \A i \in DOMAIN n : n[i].at \in {"dtor", "items", "gc"} BY CallStack
<1>4. DyingOK(n)' BY <1>1, <1>2, <1>3 DEF DyingOK
<1>5. FinalOK(n)' BY <1>1, <1>2 DEF FinalOK
<1>6. NothingDangles(n)' BY <1>1 DEF NothingDangles, Live
<1>7. \A c : Destroyed(n, c) <=> Destroyed(s, c) BY <1>2 DEF Destroyed
<1>8. DyingIsApart(n)' BY <1>1, <1>7 DEF DyingIsApart, Live, On
<1> QED BY <1>4, <1>5, <1>6, <1>8 DEF StackOK

\* Clearing a variable: the counter falls with the references, and was not 0.
LEMMA DropSafe ==
    ASSUME NEW t \in Threads, NEW s \in Seq(Frames), s = frames[t], NEW n \in Seq(Frames), n = frames'[t],
           NEW b \in Blocks, Types, Types', SequentialInv(s), Drop(t, b)
    PROVE  SequentialInv(n)' /\ ref[b] > 0
<1>0. /\ InProgram(t) /\ b \in root /\ RefDec(t, b, s) /\ ref' = [ref EXCEPT ![b] = @ - 1]
      /\ list' = list /\ del' = del /\ items' = items /\ root' = root \ {b}
      /\ toClear' = toClear /\ s_bCollecting' = s_bCollecting /\ kept' = kept
    BY DEF Drop, RefDec
<1>1. StackOK(s) /\ Counted(s) /\ b \in Live BY <1>0 DEF SequentialInv, NothingDangles
<1>2. MayCall(s) BY <1>0, <1>1, ProgramStack
<1>3. Live' = Live BY <1>0 DEF Live
<1>4. Counted(s)'
    <2>1. \A c : Holders(c)' = Holders(c) BY <1>0, <1>3 DEF Holders
    <2>2. OthersSame(s, s, b) BY <1>0, <1>3, <2>1 DEF OthersSame, Types, Live
    <2>3. Refs(s, b)' = Refs(s, b) + (-1) BY <1>0, <2>1, RootChanged, RefsCount
    <2>4. ref'[b] = ref[b] + (-1) BY <1>0 DEF Types
    <2> QED BY <1>0, <1>1, <2>2, <2>3, <2>4, CountedMoves
<1>5. SequentialInv(s)' BY <1>0, <1>1, <1>2, <1>4, ForgetSafe
<1>6. ref[b] > 0 BY <1>0, <1>1, RefsCount DEF Counted, Types
<1> QED BY <1>0, <1>1, <1>2, <1>3, <1>5, <1>6, RefDecSafe

\* hb_itemClear() of an item of a, by the program or by the clear function.
LEMMA RemoveSafe ==
    ASSUME NEW t \in Threads, NEW s \in Seq(Frames), s = frames[t], NEW n \in Seq(Frames), n = frames'[t],
           NEW a \in Blocks, NEW b \in Blocks, Types, Types', SequentialInv(s),
           Remove(t, a, b) \/ ReleaseItem(t, a, b)
    PROVE  SequentialInv(n)' /\ ref[b] > 0
<1>0. /\ b \in items[a] /\ RefDec(t, b, s) /\ ref' = [ref EXCEPT ![b] = @ - 1]
      /\ list' = list /\ del' = del /\ items' = [items EXCEPT ![a] = @ \ {b}] /\ root' = root
      /\ toClear' = toClear /\ s_bCollecting' = s_bCollecting /\ kept' = kept
    BY DEF Remove, ReleaseItem, RefDec
<1>1. StackOK(s) /\ Counted(s) BY DEF SequentialInv
<1>2. MayCall(s) /\ a \in Live
    <2>1. CASE Remove(t, a, b)
        BY <1>1, <2>1, ProgramStack, KnownIsLive DEF Remove, SequentialInv
    <2>2. CASE ReleaseItem(t, a, b)
        <3>1. 1 \in DOMAIN s /\ s[1].block = a /\ s[1].at = "items"
            BY <2>2, OnTop DEF ReleaseItem
        <3> QED BY <3>1 DEF MayCall, SequentialInv, DyingOK
    <2> QED BY <2>1, <2>2
<1>3. Live' = Live /\ b \in Live BY <1>0, <1>2 DEF Live, SequentialInv, NothingDangles
<1>4. Counted(s)'
    <2>1. Holders(b)' = Holders(b) \ {a} BY <1>0, <1>3 DEF Holders, Types
    <2>2. OthersSame(s, s, b) BY <1>0, <1>3 DEF OthersSame, Holders, Types, Live
    <2>3. Refs(s, b)' = Refs(s, b) + (-1) BY <1>0, <1>2, <2>1, HolderRemoved, RefsCount
    <2>4. ref'[b] = ref[b] + (-1) BY <1>0 DEF Types
    <2> QED BY <1>0, <1>1, <1>3, <2>2, <2>3, <2>4, CountedMoves
<1>5. \A c \in Blocks : items'[c] \subseteq items[c] BY <1>0 DEF Types
<1>6. SequentialInv(s)' BY <1>0, <1>1, <1>2, <1>4, <1>5, ForgetSafe
<1>7. ref[b] > 0 BY <1>0, <1>1, <1>2, <1>3, RefsCount DEF Counted, Types
<1> QED BY <1>0, <1>1, <1>2, <1>3, <1>6, <1>7, RefDecSafe

\* The destructor returns: the object is popped.
LEMMA DestructorSafe ==
    ASSUME NEW t \in Threads, NEW s \in Seq(Frames), s = frames[t], NEW n \in Seq(Frames), n = frames'[t],
           NEW b \in Blocks, Types, Types', SequentialInv(s), DestructorReturn(t, b)
    PROVE  SequentialInv(n)' /\ ref[b] > 0
<1>0. PICK m : m = Push(Tail(s), b, "items") OBVIOUS
<1>1. /\ At(t, b, "dtor") /\ RefDec(t, b, m) /\ ref' = [ref EXCEPT ![b] = @ - 1]
      /\ list' = list /\ del' = del /\ items' = items /\ root' = root
      /\ toClear' = toClear /\ s_bCollecting' = s_bCollecting /\ kept' = kept
    BY <1>0 DEF DestructorReturn, RefDec
<1>2. StackOK(s) /\ Counted(s) BY DEF SequentialInv
<1>3. s # <<>> /\ 1 \in DOMAIN s /\ s[1] = Frame(b, "dtor") /\ s[1].block = b /\ s[1].at = "dtor"
    BY <1>1, OnTop
<1>4. m \in Seq(Frames) /\ IsMove(m, s, "items")
    <2>1. PICK r \in Seq(Frames) : r = Tail(s) /\ IsPop(r, s) BY <1>3, PopIs
    <2>2. m \in Seq(Frames) /\ IsPush(m, r, Frame(b, "items")) BY <1>0, <2>1, PushIs, FrameIs DEF Places
    <2>3. Len(s) > 0 /\ Len(m) = Len(s) /\ m[1] = Frame(s[1].block, "items")
        BY <1>3, <2>1, <2>2 DEF IsPop, IsPush
    <2>4. ASSUME NEW i \in 2 .. Len(m) PROVE m[i] = s[i]
        <3>1. m[i] = r[i - 1] BY <2>2 DEF IsPush
        <3>2. s[i] = r[i - 1] BY <2>1, <2>3 DEF IsPop
        <3> QED BY <3>1, <3>2
    <2> QED BY <2>2, <2>3, <2>4 DEF IsMove
<1>5. StackOK(m) BY <1>2, <1>3, <1>4, StackMove DEF Places
<1>6. MayCall(m) /\ Len(m) = Len(s) BY <1>4 DEF MayCall, IsMove, Frame
<1>7. /\ \A c \in Blocks \ {b} : InDestructor(m, c) <=> InDestructor(s, c)
      /\ InDestructor(s, b) /\ ~InDestructor(m, b)
    BY <1>2, <1>3, <1>4, DestructorMove DEF Places
<1>8. Live' = Live /\ b \in Live BY <1>1, <1>7 DEF Live, SequentialInv, NothingDangles
<1>9. Counted(m)'
    <2>1. \A c : Holders(c)' = Holders(c) BY <1>1, <1>8 DEF Holders
    <2>2. OthersSame(s, m, b) BY <1>1, <1>7, <1>8, <2>1 DEF OthersSame, Types, Live
    <2>3. Refs(m, b)' = Refs(s, b) + (-1) BY <1>1, <1>7, <2>1, DestructorChanged, RefsCount
    <2>4. ref'[b] = ref[b] + (-1) BY <1>1 DEF Types
    <2> QED BY <1>1, <1>2, <1>8, <2>2, <2>3, <2>4, CountedMoves
<1>10. \A i \in DOMAIN s : m[i].block = s[i].block /\ (m[i].at \in Destroying <=> s[i].at \in Destroying)
                           /\ (m[i].at = "gc" <=> s[i].at = "gc")
    BY <1>3, <1>4 DEF IsMove, Frame, Destroying, Places
<1>11. SequentialInv(m)' BY <1>1, <1>4, <1>5, <1>6, <1>7, <1>9, <1>10, ForgetSafe
<1>12. ref[b] > 0 BY <1>2, <1>7, <1>8, RefsCount DEF Counted, Types
<1> QED BY <1>1, <1>4, <1>6, <1>8, <1>11, <1>12, RefDecSafe

-----------------------------------------------------------------------------
(* A program with one thread: hb_gcRefFree() and the clear function.       *)

\* The frames of a stack that lost its top were on it before.
LEMMA PopFrames ==
    ASSUME NEW s \in Seq(Frames), NEW n \in Seq(Frames), IsPop(n, s)
    PROVE  /\ \A i \in DOMAIN n : i + 1 \in DOMAIN s /\ n[i] = s[i + 1]
           /\ s[1].at # "gc" =>
                ((\E i \in DOMAIN n : n[i].at = "gc") <=> (\E i \in DOMAIN s : s[i].at = "gc"))
           /\ \A c : Destroyed(s, c) /\ s[1].block # c => Destroyed(n, c)
           /\ \A c : Destroyed(s, c) /\ s[1].at \notin Destroying => Destroyed(n, c)
<1>1. \A i \in DOMAIN n : i + 1 \in DOMAIN s /\ n[i] = s[i + 1] BY DEF IsPop
<1>2. \A i \in DOMAIN s : i # 1 => i - 1 \in DOMAIN n /\ s[i] = n[i - 1] BY DEF IsPop
<1>3. s[1].at # "gc" =>
          ((\E i \in DOMAIN n : n[i].at = "gc") <=> (\E i \in DOMAIN s : s[i].at = "gc"))
    BY <1>1, <1>2
<1>4. ASSUME NEW c, Destroyed(s, c), s[1].block # c \/ s[1].at \notin Destroying PROVE Destroyed(n, c)
    <2>1. PICK i \in DOMAIN s : s[i].block = c /\ s[i].at \in Destroying BY <1>4 DEF Destroyed
    <2>2. i # 1 BY <1>4, <2>1
    <2>3. i - 1 \in DOMAIN n /\ s[i] = n[i - 1] BY <1>2, <2>2
    <2> QED BY <2>1, <2>3 DEF Destroyed
<1> QED BY <1>1, <1>3, <1>4

\* The order of s_pDeletedBlock and of the stack survives a return.
LEMMA PopFinal ==
    ASSUME NEW s \in Seq(Frames), NEW n \in Seq(Frames), IsPop(n, s),
           \A i, j \in DOMAIN s : s[i].at = "gc" /\ i < j => s[j].block \notin On("deleted"),
           On("deleted")' \subseteq On("deleted")
    PROVE  \A i, j \in DOMAIN n : n[i].at = "gc" /\ i < j => n[j].block \notin On("deleted")'
<1> SUFFICES ASSUME NEW i \in DOMAIN n, NEW j \in DOMAIN n, n[i].at = "gc", i < j
             PROVE  n[j].block \notin On("deleted")
    OBVIOUS
<1>1. i + 1 \in DOMAIN s /\ j + 1 \in DOMAIN s /\ n[i] = s[i + 1] /\ n[j] = s[j + 1] /\ i + 1 < j + 1
    BY PopFrames
<1> QED BY <1>1

\* A function that is done with an empty block, or has nothing to do, returns.
LEMMA PopSafe ==
    ASSUME NEW s \in Seq(Frames), NEW n \in Seq(Frames), Types, Types', SequentialInv(s), IsPop(n, s),
           s[1].at \notin {"dtor", "gc"}, s[1].at \in Destroying => items[s[1].block] = {},
           UNCHANGED <<list, del, ref, items, root, toClear, s_bCollecting, kept>>
    PROVE  SequentialInv(n)'
<1> USE DEF SequentialInv
<1>1. Live' = Live /\ On("deleted")' = On("deleted") BY DEF Live, On
<1>2. StackOK(n) BY StackPop
<1>3. DyingOK(n)'
    <2> SUFFICES ASSUME NEW i \in DOMAIN n, NEW c \in Blocks, n[i].block = c
                 PROVE  /\ c \in Live
                        /\ n[i].at \in Destroying => del[c] /\ c \notin toClear
                        /\ n[i].at \in {"check", "keep", "free"} => items[c] = {} /\ list[c] # "deleted"
                        /\ n[i].at \in {"test", "free"} => ref[c] = 0
        BY <1>1 DEF DyingOK
    <2>1. PICK j \in DOMAIN s : n[i] = s[j] BY PopFrames
    <2>2. s[j].block = c BY <2>1
    <2> QED BY <2>1, <2>2, ZenonT(60) DEF DyingOK
<1>4. FinalOK(n)'
    <2>1. (\E i \in DOMAIN n : n[i].at = "gc") <=> (\E i \in DOMAIN s : s[i].at = "gc") BY PopFrames
    <2>2. FinalOK(s) OBVIOUS
    <2>3. \A i, j \in DOMAIN n : n[i].at = "gc" /\ i < j => n[j].block \notin On("deleted")'
        BY <1>1, <2>2, PopFinal DEF FinalOK
    <2>4. \A c \in On("deleted")' : del'[c] BY <1>1, <2>2 DEF FinalOK
    <2> QED BY <1>1, <2>1, <2>2, <2>3, <2>4 DEF FinalOK
<1>5. \A c \in Blocks : InDestructor(n, c) <=> InDestructor(s, c) BY DestructorPop
<1>6. \A c : Holders(c)' = Holders(c) BY <1>1 DEF Holders
<1>7. Counted(n)' BY <1>1, <1>5, <1>6, CountedKeeps DEF Live
<1>8. NothingDangles(n)' BY <1>1, <1>5 DEF NothingDangles
<1>9. \A c : Destroyed(s, c) => Destroyed(n, c) \/ items[c] = {} BY PopFrames
<1>10. DyingIsApart(n)' BY <1>1, <1>9 DEF DyingIsApart
<1> QED BY <1>2, <1>3, <1>4, <1>7, <1>8, <1>10 DEF StackOK

\* What stays as it was when a function goes on.
LEMMA MoveFrames ==
    ASSUME NEW s \in Seq(Frames), NEW n \in Seq(Frames), NEW l \in Destroying, IsMove(n, s, l),
           s[1].at # "gc"
    PROVE  /\ DOMAIN n = DOMAIN s /\ 1 \in DOMAIN s /\ n[1].at = l
           /\ \A i \in DOMAIN s : n[i].block = s[i].block /\ (n[i].at = "gc" <=> s[i].at = "gc")
           /\ \A i \in DOMAIN s : i # 1 => n[i] = s[i]
           /\ \A c : Destroyed(s, c) => Destroyed(n, c)
<1>1. DOMAIN n = DOMAIN s /\ 1 \in DOMAIN s /\ n[1].at = l /\ n[1].block = s[1].block
    BY DEF IsMove, Frame
<1>2. \A i \in DOMAIN s : i # 1 => n[i] = s[i] BY DEF IsMove
<1>3. l # "gc" BY DEF Destroying, Places
<1> QED BY <1>1, <1>2, <1>3 DEF Destroyed

\* A function goes on with its block.
LEMMA MoveSafe ==
    ASSUME NEW s \in Seq(Frames), NEW n \in Seq(Frames), Types, Types', SequentialInv(s),
           NEW l \in Destroying, IsMove(n, s, l), l # "dtor", s[1].block \in Blocks,
           s[1].at \in Destroying \ {"dtor"},
           l \in {"check", "keep", "free"} => items[s[1].block] = {} /\ list[s[1].block] # "deleted",
           l = "free" => ref[s[1].block] = 0,
           UNCHANGED <<list, del, ref, items, root, toClear, s_bCollecting, kept>>
    PROVE  SequentialInv(n)'
<1> USE DEF SequentialInv
<1>0. l \in Places /\ l # "test" /\ s[1].at \notin {"gc", "test"} BY DEF Destroying, Places
<1>1. Live' = Live /\ On("deleted")' = On("deleted") BY DEF Live, On
<1>2. StackOK(n) BY <1>0, StackMove
<1>3. /\ DOMAIN n = DOMAIN s /\ 1 \in DOMAIN s /\ n[1].at = l
      /\ \A i \in DOMAIN s : n[i].block = s[i].block /\ (n[i].at = "gc" <=> s[i].at = "gc")
      /\ \A i \in DOMAIN s : i # 1 => n[i] = s[i]
      /\ \A c : Destroyed(s, c) => Destroyed(n, c)
    BY <1>0, MoveFrames
<1>4. DyingOK(n)'
    <2> SUFFICES ASSUME NEW i \in DOMAIN n, NEW c \in Blocks, n[i].block = c
                 PROVE  /\ c \in Live
                        /\ n[i].at \in Destroying => del[c] /\ c \notin toClear
                        /\ n[i].at \in {"check", "keep", "free"} => items[c] = {} /\ list[c] # "deleted"
                        /\ n[i].at \in {"test", "free"} => ref[c] = 0
        BY <1>1 DEF DyingOK
    <2>1. CASE i = 1 BY <1>0, <1>3, <2>1 DEF DyingOK
    <2>2. CASE i # 1 BY <1>3, <2>2 DEF DyingOK
    <2> QED BY <2>1, <2>2
<1>5. FinalOK(n)' BY <1>1, <1>3 DEF FinalOK
<1>6. \A c \in Blocks : InDestructor(n, c) <=> InDestructor(s, c) BY <1>0, DestructorStays
<1>7. \A c : Holders(c)' = Holders(c) BY <1>1 DEF Holders
<1>8. Counted(n)' BY <1>1, <1>6, <1>7, CountedKeeps DEF Live
<1>9. NothingDangles(n)' BY <1>1, <1>6 DEF NothingDangles
<1>10. DyingIsApart(n)' BY <1>1, <1>3 DEF DyingIsApart
<1> QED BY <1>2, <1>4, <1>5, <1>8, <1>9, <1>10 DEF StackOK

\* Nothing refers to a block whose counter is zero.
LEMMA ZeroMeansNone ==
    ASSUME NEW s, Types, Counted(s), NEW b \in Live, ref[b] = 0
    PROVE  b \notin root /\ (\A a \in Live : b \notin items[a]) /\ ~InDestructor(s, b)
<1>1. Refs(s, b) <= 0 /\ Refs(s, b) \in Nat BY RefsCount DEF Counted
<1> QED BY <1>1, RefsCount

\* hb_gcRefFree(): at zero the block is marked HB_GC_DELETE and its clear function begins.
LEMMA RefTestSafe ==
    ASSUME NEW t \in Threads, NEW s \in Seq(Frames), s = frames[t], NEW n \in Seq(Frames), n = frames'[t],
           NEW b \in Blocks, Types, Types', SequentialInv(s), RefTest(t, b)
    PROVE  SequentialInv(n)'
<1> USE DEF SequentialInv
<1>0. /\ At(t, b, "test")
      /\ UNCHANGED <<list, ref, items, root, toClear, s_bCollecting, kept>>
    BY DEF RefTest
<1>1. s # <<>> /\ 1 \in DOMAIN s /\ s[1].block = b /\ s[1].at = "test" BY <1>0, OnTop
<1>2. CASE del[b] /\ Return(t) /\ UNCHANGED del
    <2>1. n = Tail(s) BY <1>2 DEF Return, Types
    <2>2. IsPop(n, s) BY <1>1, <2>1, PopIs
    <2>3. "test" \notin Destroying BY DEF Destroying
    <2> QED BY <1>0, <1>1, <1>2, <2>2, <2>3, PopSafe
<1>3. CASE ~del[b] /\ Goto(t, "clear") /\ del' = [del EXCEPT ![b] = TRUE]
    <2>1. n = [s EXCEPT ![1].at = "clear"] BY <1>3 DEF Goto, Types
    <2>2. "clear" \in Places /\ "clear" \in Destroying BY DEF Destroying, Places
    <2>3. IsMove(n, s, "clear") BY <1>1, <2>1, <2>2, MoveIs
    <2>4. \A j \in DOMAIN s : s[j].at # "test" => s[j].block # b
        <3> SUFFICES ASSUME NEW j \in DOMAIN s, s[j].at # "test", s[j].block = b PROVE FALSE OBVIOUS
        <3>1. s[j] \in Frames OBVIOUS
        <3>2. s[j].at \in Destroying BY <3>1, FrameIs DEF Destroying
        <3> QED BY <1>3, <3>2 DEF DyingOK
    <2>5. StackOK(n) BY <1>1, <2>2, <2>3, <2>4, StackMove
    <2>6. /\ DOMAIN n = DOMAIN s /\ n[1].at = "clear"
          /\ \A i \in DOMAIN s : n[i].block = s[i].block /\ (n[i].at = "gc" <=> s[i].at = "gc")
          /\ \A i \in DOMAIN s : i # 1 => n[i] = s[i]
          /\ \A c : Destroyed(s, c) => Destroyed(n, c)
        BY <1>1, <2>2, <2>3, MoveFrames
    <2>7. Live' = Live /\ On("deleted")' = On("deleted") BY <1>0 DEF Live, On
    <2>8. b \in Live /\ ref[b] = 0 BY <1>1 DEF DyingOK
    <2>9. b \notin root /\ (\A a \in Live : b \notin items[a]) BY <2>8, ZeroMeansNone
    <2>10. \A c \in Blocks : del'[c] <=> (del[c] \/ c = b) BY <1>3 DEF Types
    <2>11. b \notin toClear BY <1>3 DEF FinalOK
    <2>12. DyingOK(n)'
        <3> SUFFICES ASSUME NEW i \in DOMAIN n, NEW c \in Blocks, n[i].block = c
                     PROVE  /\ c \in Live
                            /\ n[i].at \in Destroying => del'[c] /\ c \notin toClear
                            /\ n[i].at \in {"check", "keep", "free"} => items[c] = {} /\ list[c] # "deleted"
                            /\ n[i].at \in {"test", "free"} => ref[c] = 0
            BY <1>0, <2>7, ZenonT(60) DEF DyingOK
        <3>1. CASE i = 1 BY <1>1, <2>6, <2>8, <2>10, <2>11, <3>1
        <3>2. CASE i # 1
            <4>1. i \in DOMAIN s /\ n[i] = s[i] BY <2>6, <3>2
            <4>2. s[i].block = c BY <4>1
            <4>3. s[i].at \in Destroying => del[c] BY <4>1, <4>2 DEF DyingOK
            <4> QED BY <2>10, <4>1, <4>2, <4>3, ZenonT(60) DEF DyingOK
        <3> QED BY <3>1, <3>2
    <2>13. FinalOK(n)' BY <1>0, <2>6, <2>7, <2>10 DEF FinalOK, On
    <2>14. \A c \in Blocks : InDestructor(n, c) <=> InDestructor(s, c)
        BY <1>1, <2>2, <2>3, DestructorStays
    <2>15. \A c : Holders(c)' = Holders(c) BY <1>0, <2>7 DEF Holders
    <2>16. Counted(n)' BY <1>0, <2>7, <2>14, <2>15, CountedKeeps DEF Live
    <2>17. NothingDangles(n)' BY <1>0, <2>7, <2>14 DEF NothingDangles
    <2>18. DyingIsApart(n)' BY <1>0, <2>6, <2>7, <2>9, <2>10 DEF DyingIsApart, Types, Live
    <2> QED BY <2>5, <2>12, <2>13, <2>16, <2>17, <2>18 DEF StackOK
<1> QED BY <1>2, <1>3 DEF RefTest

\* An object is pushed for its destructor; an array goes on with its items.
LEMMA ClearSafe ==
    ASSUME NEW t \in Threads, NEW s \in Seq(Frames), s = frames[t], NEW n \in Seq(Frames), n = frames'[t],
           NEW b \in Blocks, Types, Types', SequentialInv(s), Clear(t, b)
    PROVE  SequentialInv(n)'
<1> USE DEF SequentialInv
<1>0. At(t, b, "clear") /\ UNCHANGED <<list, del, items, root, toClear, s_bCollecting, kept>>
    BY DEF Clear
<1>1. s # <<>> /\ 1 \in DOMAIN s /\ s[1].block = b /\ s[1].at = "clear" BY <1>0, OnTop
<1>p. {"clear", "dtor", "items"} \subseteq Places /\ {"clear", "dtor", "items"} \subseteq Destroying
    BY DEF Destroying, Places
<1>2. CASE object[b] /\ ref' = [ref EXCEPT ![b] = @ + 1] /\ Goto(t, "dtor")
    <2>1. n = [s EXCEPT ![1].at = "dtor"] BY <1>2 DEF Goto, Types
    <2>2. IsMove(n, s, "dtor") BY <1>1, <1>p, <2>1, MoveIs
    <2>3. StackOK(n) BY <1>1, <1>p, <2>2, StackMove
    <2>4. /\ DOMAIN n = DOMAIN s /\ n[1].at = "dtor"
          /\ \A i \in DOMAIN s : n[i].block = s[i].block /\ (n[i].at = "gc" <=> s[i].at = "gc")
          /\ \A i \in DOMAIN s : i # 1 => n[i] = s[i]
          /\ \A c : Destroyed(s, c) => Destroyed(n, c)
        BY <1>1, <1>p, <2>2, MoveFrames
    <2>5. Live' = Live /\ On("deleted")' = On("deleted") BY <1>0 DEF Live, On
    <2>6. b \in Live /\ del[b] /\ b \notin toClear BY <1>1, <1>p DEF DyingOK
    <2>7. \A i \in DOMAIN n : n[i].at \in {"dtor", "items", "gc"} BY <2>3, <2>4 DEF StackOK
    <2>8. DyingOK(n)'
        <3> SUFFICES ASSUME NEW i \in DOMAIN n, NEW c \in Blocks, n[i].block = c
                     PROVE  c \in Live /\ (n[i].at \in Destroying => del[c] /\ c \notin toClear)
            BY <1>0, <2>5, <2>7 DEF DyingOK
        <3>1. CASE i = 1 BY <1>1, <2>4, <2>6, <3>1
        <3>2. CASE i # 1 BY <2>4, <3>2 DEF DyingOK
        <3> QED BY <3>1, <3>2
    <2>9. FinalOK(n)' BY <1>0, <2>4, <2>5 DEF FinalOK
    <2>10. /\ \A c \in Blocks \ {b} : InDestructor(n, c) <=> InDestructor(s, c)
           /\ ~InDestructor(s, b) /\ InDestructor(n, b)
        BY <1>1, <1>p, <2>2, DestructorMove
    <2>11. Counted(n)'
        <3>1. \A c : Holders(c)' = Holders(c) BY <1>0, <2>5 DEF Holders
        <3>2. OthersSame(s, n, b) BY <1>0, <1>2, <2>5, <2>10, <3>1 DEF OthersSame, Types, Live
        <3>3. Refs(n, b)' = Refs(s, b) + 1 BY <1>0, <2>10, <3>1, DestructorChanged
        <3>4. ref'[b] = ref[b] + 1 BY <1>2 DEF Types
        <3> QED BY <1>0, <2>6, <3>2, <3>3, <3>4, CountedMoves
    <2>12. NothingDangles(n)' BY <1>0, <2>5, <2>6, <2>10 DEF NothingDangles
    <2>13. DyingIsApart(n)' BY <1>0, <2>4, <2>5 DEF DyingIsApart
    <2> QED BY <2>3, <2>8, <2>9, <2>11, <2>12, <2>13 DEF StackOK
<1>3. CASE ~object[b] /\ Goto(t, "items") /\ UNCHANGED ref
    <2>1. n = [s EXCEPT ![1].at = "items"] BY <1>3 DEF Goto, Types
    <2>2. IsMove(n, s, "items") BY <1>1, <1>p, <2>1, MoveIs
    <2> QED BY <1>0, <1>1, <1>3, <1>p, <2>2, MoveSafe
<1> QED BY <1>2, <1>3 DEF Clear

\* The clear function returns, and hb_gcRefFree() looks at the counter.
LEMMA ReturnSafe ==
    ASSUME NEW t \in Threads, NEW s \in Seq(Frames), s = frames[t], NEW n \in Seq(Frames), n = frames'[t],
           NEW b \in Blocks, Types, Types', SequentialInv(s), ClearReturn(t, b) \/ RefCheck(t, b)
    PROVE  SequentialInv(n)'
<1>0. UNCHANGED <<list, del, ref, items, root, toClear, s_bCollecting, kept>>
    BY DEF ClearReturn, RefCheck
<1>p. {"items", "check", "keep", "free"} \subseteq Places /\ {"items", "check", "keep", "free"} \subseteq Destroying
    BY DEF Destroying, Places
<1>1. CASE ClearReturn(t, b)
    <2>1. At(t, b, "items") /\ items[b] = {} BY <1>1 DEF ClearReturn
    <2>2. s # <<>> /\ 1 \in DOMAIN s /\ s[1].block = b /\ s[1].at = "items" BY <2>1, OnTop
    <2>3. CASE list[b] = "deleted"
        <3>1. n = Tail(s) BY <1>1, <2>3 DEF ClearReturn, Return, Types
        <3>2. IsPop(n, s) BY <2>2, <3>1, PopIs
        <3> QED BY <1>0, <2>1, <2>2, <3>2, PopSafe
    <2>4. CASE list[b] # "deleted"
        <3>1. n = [s EXCEPT ![1].at = "check"] BY <1>1, <2>4 DEF ClearReturn, Goto, Types
        <3>2. IsMove(n, s, "check") BY <1>p, <2>2, <3>1, MoveIs, SMTT(30)
        <3> QED BY <1>0, <1>p, <2>1, <2>2, <2>4, <3>2, MoveSafe
    <2> QED BY <2>3, <2>4
<1>2. CASE RefCheck(t, b)
    <2>1. At(t, b, "check") BY <1>2 DEF RefCheck
    <2>2. s # <<>> /\ 1 \in DOMAIN s /\ s[1].block = b /\ s[1].at = "check" BY <2>1, OnTop
    <2>3. items[b] = {} /\ list[b] # "deleted" BY <2>2 DEF SequentialInv, DyingOK
    <2>4. PICK l \in {"keep", "free"} : Goto(t, l) /\ (l = "free" => ref[b] = 0)
        BY <1>2 DEF RefCheck
    <2>5. n = [s EXCEPT ![1].at = l] BY <2>4 DEF Goto, Types
    <2>a. l \in Places /\ s[1].block \in Blocks BY <1>p, <2>2
    <2>6. IsMove(n, s, l) BY <2>a, <2>2, <2>5, MoveIs
    <2> QED BY <1>0, <1>p, <2>2, <2>3, <2>4, <2>6, MoveSafe
<1> QED BY <1>1, <1>2

\* The block lives on, or is freed.
LEMMA KeepSafe ==
    ASSUME NEW t \in Threads, NEW s \in Seq(Frames), s = frames[t], NEW n \in Seq(Frames), n = frames'[t],
           NEW b \in Blocks, Types, Types', SequentialInv(s), Keep(t, b) \/ Free(t, b)
    PROVE  SequentialInv(n)'
<1> USE DEF SequentialInv
<1>0. /\ UNCHANGED <<ref, items, root, toClear, s_bCollecting, kept>>
      /\ del' = [del EXCEPT ![b] = FALSE] /\ Return(t)
    BY DEF Keep, Free, Release
<1>p. {"keep", "free"} \subseteq Destroying BY DEF Destroying, Places
<1>1. s # <<>> /\ 1 \in DOMAIN s /\ s[1].block = b /\ s[1].at \in {"keep", "free"}
    BY OnTop DEF Keep, Free
<1>2. b \in Live /\ items[b] = {} /\ list[b] # "deleted" BY <1>1 DEF DyingOK
<1>3. /\ \A c \in Blocks \ {b} : list'[c] = list[c] /\ del'[c] = del[c]
      /\ ~del'[b] /\ list'[b] # "deleted"
    BY <1>0, <1>2 DEF Keep, Free, Release, Types
<1>4. IsPop(n, s)
    <2>1. n = Tail(s) BY <1>0 DEF Return, Types
    <2> QED BY <1>1, <2>1, PopIs
<1>5. StackOK(n) BY <1>4, StackPop
<1>6. \A i \in DOMAIN n : n[i].block # b
    <2> SUFFICES ASSUME NEW i \in DOMAIN n, n[i].block = b PROVE FALSE OBVIOUS
    <2>1. i + 1 \in DOMAIN s /\ n[i] = s[i + 1] /\ i + 1 > 1 BY <1>4, PopFrames
    <2>2. s[i + 1].at # "test" BY <2>1 DEF StackOK
    <2>3. i + 1 = 1 BY <1>1, <2>1, <2>2 DEF StackOK
    <2> QED BY <2>1, <2>3
<1>7. On("deleted")' = On("deleted") BY <1>2, <1>3 DEF On
<1>8. \A c \in Live' : c \in Live BY <1>2, <1>3 DEF Live
<1>9. \A c \in Live : c # b => c \in Live' BY <1>3 DEF Live
<1>10. b \in Live' \/ (b \notin root /\ (\A a \in Live : b \notin items[a]) /\ ~InDestructor(s, b))
    <2>1. CASE Keep(t, b) BY <2>1, <1>2 DEF Keep, Live
    <2>2. CASE Free(t, b)
        <3>1. s[1].at = "free" BY <2>2, OnTop DEF Free
        <3>2. ref[b] = 0 BY <1>1, <3>1 DEF DyingOK
        <3> QED BY <1>2, <3>2, ZeroMeansNone
    <2> QED BY <2>1, <2>2
<1>11. DyingOK(n)'
    <2> SUFFICES ASSUME NEW i \in DOMAIN n, NEW c \in Blocks, n[i].block = c
                 PROVE  /\ c \in Live'
                        /\ n[i].at \in Destroying => del'[c] /\ c \notin toClear
                        /\ n[i].at \in {"check", "keep", "free"} => items[c] = {} /\ list'[c] # "deleted"
                        /\ n[i].at \in {"test", "free"} => ref[c] = 0
        BY <1>0, ZenonT(60) DEF DyingOK
    <2>1. PICK j \in DOMAIN s : n[i] = s[j] BY <1>4, PopFrames
    <2>2. s[j].block = c /\ c # b BY <1>6, <2>1
    <2>3. del'[c] = del[c] /\ list'[c] = list[c] BY <1>3, <2>2
    <2> QED BY <1>9, <2>1, <2>2, <2>3, ZenonT(60) DEF DyingOK
<1>12. s[1].at \notin {"gc", "dtor"} BY <1>1
<1>13. FinalOK(n)'
    <2>1. \A c \in On("deleted")' : del'[c] BY <1>2, <1>3, <1>7 DEF FinalOK, On
    <2>2. \A i, j \in DOMAIN n : n[i].at = "gc" /\ i < j => n[j].block \notin On("deleted")'
        BY <1>4, <1>7, PopFinal DEF FinalOK
    <2>3. (\E i \in DOMAIN n : n[i].at = "gc") <=> (\E i \in DOMAIN s : s[i].at = "gc")
        BY <1>4, <1>12, PopFrames
    <2> QED BY <1>0, <1>7, <2>1, <2>2, <2>3 DEF FinalOK
<1>14. \A c \in Blocks : InDestructor(n, c) <=> InDestructor(s, c) BY <1>4, <1>12, DestructorPop
<1>15. \A c : Holders(c)' = Holders(c) BY <1>0, <1>2, <1>8, <1>9 DEF Holders
<1>16. Counted(n)' BY <1>0, <1>8, <1>14, <1>15, CountedKeeps DEF Live
<1>17. NothingDangles(n)'
    BY <1>0, <1>8, <1>9, <1>10, <1>14 DEF NothingDangles
<1>18. DyingIsApart(n)'
    <2> SUFFICES ASSUME ~kept
                 PROVE  /\ \A c \in root : ~del'[c]
                        /\ \A a \in Live' : ~del'[a] => \A c \in items[a] : ~del'[c]
                        /\ \A c \in On("deleted") \ toClear : items[c] = {} \/ Destroyed(n, c)
        BY <1>0, <1>7 DEF DyingIsApart
    <2>1. \A c \in Blocks : ~del[c] => ~del'[c] BY <1>3
    <2>2. \A c \in root : ~del'[c] BY <2>1 DEF DyingIsApart, Types
    <2>3. ASSUME NEW a \in Live', ~del'[a], NEW c \in items[a] PROVE ~del'[c]
        <3>1. a # b /\ a \in Live BY <1>2, <1>8, <2>3
        <3>2. ~del[a] BY <1>3, <2>3, <3>1 DEF Live
        <3>3. ~del[c] /\ c \in Blocks BY <3>1, <3>2, <2>3 DEF DyingIsApart, Types, Live
        <3> QED BY <2>1, <3>3
    <2>4. ASSUME NEW c \in On("deleted") \ toClear PROVE items[c] = {} \/ Destroyed(n, c)
        <3>1. c # b BY <1>2 DEF On
        <3> QED BY <1>1, <1>4, <3>1, PopFrames DEF DyingIsApart
    <2> QED BY <2>2, <2>3, <2>4
<1> QED BY <1>5, <1>11, <1>13, <1>16, <1>17, <1>18 DEF StackOK

-----------------------------------------------------------------------------
(* A program with one thread: hb_gcCollectAll().                           *)

\* The frames of a stack with a new top.
LEMMA PushFrames ==
    ASSUME NEW s \in Seq(Frames), NEW n \in Seq(Frames), NEW f \in Frames, IsPush(n, s, f)
    PROVE  /\ 1 \in DOMAIN n /\ n[1] = f
           /\ \A i \in DOMAIN n : i = 1 \/ (i > 1 /\ i - 1 \in DOMAIN s /\ n[i] = s[i - 1])
           /\ (\E i \in DOMAIN n : n[i].at = "gc") <=> ((\E i \in DOMAIN s : s[i].at = "gc") \/ f.at = "gc")
           /\ \A c : Destroyed(s, c) => Destroyed(n, c)
<1>1. \A i \in DOMAIN s : i + 1 \in DOMAIN n /\ n[i + 1] = s[i] BY DEF IsPush
<1>2. 1 \in DOMAIN n /\ n[1] = f BY DEF IsPush
<1>3. \A i \in DOMAIN n : i = 1 \/ (i > 1 /\ i - 1 \in DOMAIN s /\ n[i] = s[i - 1]) BY DEF IsPush
<1>4. (\E i \in DOMAIN n : n[i].at = "gc") <=> ((\E i \in DOMAIN s : s[i].at = "gc") \/ f.at = "gc")
    BY <1>1, <1>2, <1>3
<1>5. \A c : Destroyed(s, c) => Destroyed(n, c) BY <1>1 DEF Destroyed
<1> QED BY <1>2, <1>3, <1>4, <1>5

\* The frame of hb_gcCollectAll() on top.
LEMMA CollectorOnTop ==
    ASSUME NEW t \in Threads, NEW s \in Seq(Frames), s = frames[t], Types, StackOK(s), At(t, NoBlock, "gc")
    PROVE  /\ s # <<>> /\ 1 \in DOMAIN s /\ s[1].block = NoBlock /\ s[1].at = "gc"
           /\ \A i \in DOMAIN s : i # 1 => s[i].at # "gc"
           /\ MayCall(s)
<1>1. s # <<>> /\ 1 \in DOMAIN s /\ s[1].block = NoBlock /\ s[1].at = "gc" BY OnTop
<1>2. ASSUME NEW i \in DOMAIN s, s[i].at = "gc" PROVE i = 1
    <2>1. s[i] \in Frames OBVIOUS
    <2>2. s[i].block = NoBlock BY <1>2, <2>1, FrameIs DEF Places
    <2> QED BY <1>1, <1>2, <2>2 DEF StackOK
<1> QED BY <1>1, <1>2 DEF MayCall

\* Each block on s_pDeletedBlock is freed, or put back if something refers to it.
LEMMA FinalReleaseSafe ==
    ASSUME NEW t \in Threads, NEW s \in Seq(Frames), s = frames[t], NEW b \in Blocks,
           Types, Types', SequentialInv(s), FinalRelease(t, b)
    PROVE  SequentialInv(s)'
<1> USE DEF SequentialInv
<1>0. /\ UNCHANGED <<ref, items, root, toClear, s_bCollecting, kept>>
      /\ del' = [del EXCEPT ![b] = FALSE] /\ At(t, NoBlock, "gc") /\ toClear = {} /\ list[b] = "deleted"
    BY DEF FinalRelease, Release
<1>1. /\ 1 \in DOMAIN s /\ s[1].block = NoBlock /\ s[1].at = "gc"
      /\ \A i \in DOMAIN s : i # 1 => s[i].at # "gc"
    BY <1>0, CollectorOnTop
<1>2. b \in Live /\ b \in On("deleted") BY <1>0 DEF Live, On
<1>3. \A i \in DOMAIN s : s[i].block # b
    <2> SUFFICES ASSUME NEW i \in DOMAIN s, s[i].block = b PROVE FALSE OBVIOUS
    <2>1. i # 1 BY <1>1
    <2>2. 1 < i BY <2>1
    <2> QED BY <1>1, <1>2, <2>2 DEF FinalOK
<1>4. /\ \A c \in Blocks \ {b} : list'[c] = list[c] /\ del'[c] = del[c]
      /\ ~del'[b] /\ list'[b] # "deleted"
    BY <1>0 DEF FinalRelease, Release, Types
<1>5. On("deleted")' = On("deleted") \ {b} BY <1>4 DEF On
<1>6. \A c \in Live' : c \in Live BY <1>2, <1>4 DEF Live
<1>7. \A c \in Live : c # b => c \in Live' BY <1>4 DEF Live
<1>8. b \in Live' \/ (b \notin root /\ (\A a \in Live : b \notin items[a]) /\ ~InDestructor(s, b))
    <2>1. CASE ref[b] # 0 BY <2>1 DEF FinalRelease, Live, Types
    <2>2. CASE ref[b] = 0 BY <1>2, <2>2, ZeroMeansNone
    <2> QED BY <2>1, <2>2
<1>9. ~kept => items[b] = {} BY <1>0, <1>2, <1>3 DEF DyingIsApart, Destroyed
<1>10. DyingOK(s)'
    <2> SUFFICES ASSUME NEW i \in DOMAIN s, NEW c \in Blocks, s[i].block = c
                 PROVE  /\ c \in Live'
                        /\ s[i].at \in Destroying => del'[c] /\ c \notin toClear
                        /\ s[i].at \in {"check", "keep", "free"} => items[c] = {} /\ list'[c] # "deleted"
                        /\ s[i].at \in {"test", "free"} => ref[c] = 0
        BY <1>0, ZenonT(60) DEF DyingOK
    <2>1. c # b BY <1>3
    <2>2. del'[c] = del[c] /\ list'[c] = list[c] BY <1>4, <2>1
    <2> QED BY <1>7, <2>1, <2>2 DEF DyingOK
<1>11. FinalOK(s)'
    <2>1. \A c \in On("deleted")' : del'[c] BY <1>4, <1>5 DEF FinalOK, On
    <2> QED BY <1>0, <1>1, <1>5, <2>1 DEF FinalOK
<1>12. \A c : Holders(c)' \subseteq Holders(c) /\ (~kept => Holders(c)' = Holders(c))
    BY <1>0, <1>6, <1>7, <1>9 DEF Holders
<1>13. Counted(s)' BY <1>0, <1>6, <1>12, CountedKeeps
<1>14. NothingDangles(s)' BY <1>0, <1>6, <1>7, <1>8 DEF NothingDangles
<1>15. DyingIsApart(s)'
    <2> SUFFICES ASSUME ~kept
                 PROVE  /\ \A c \in root : ~del'[c]
                        /\ \A a \in Live' : ~del'[a] => \A c \in items[a] : ~del'[c]
                        /\ \A c \in On("deleted")' \ toClear : items[c] = {} \/ Destroyed(s, c)
        BY <1>0 DEF DyingIsApart
    <2>1. \A c \in Blocks : ~del[c] => ~del'[c] BY <1>4
    <2>2. \A c \in root : ~del'[c] BY <2>1 DEF DyingIsApart, Types
    <2>3. ASSUME NEW a \in Live', ~del'[a], NEW c \in items[a] PROVE ~del'[c]
        <3>1. a # b /\ a \in Live BY <1>6, <1>9, <2>3
        <3>2. ~del[a] BY <1>4, <2>3, <3>1 DEF Live
        <3>3. ~del[c] /\ c \in Blocks BY <3>1, <3>2, <2>3 DEF DyingIsApart, Types, Live
        <3> QED BY <2>1, <3>3
    <2> QED BY <1>5, <2>2, <2>3 DEF DyingIsApart
<1> QED BY <1>10, <1>11, <1>13, <1>14, <1>15 DEF StackOK

\* "call a cleanup function"
LEMMA FinalClearSafe ==
    ASSUME NEW t \in Threads, NEW s \in Seq(Frames), s = frames[t], NEW n \in Seq(Frames), n = frames'[t],
           NEW b \in Blocks, Types, Types', SequentialInv(s), FinalClear(t, b)
    PROVE  SequentialInv(n)'
<1> USE DEF SequentialInv
<1>0. /\ UNCHANGED <<list, del, ref, items, root, s_bCollecting, kept>>
      /\ At(t, NoBlock, "gc") /\ b \in toClear /\ toClear' = toClear \ {b}
    BY DEF FinalClear
<1>p. "clear" \in Places /\ "clear" \in Destroying BY DEF Places, Destroying
<1>1. IsPush(n, s, Frame(b, "clear"))
    <2>1. n = Push(s, b, "clear") BY DEF FinalClear, Types
    <2> QED BY <1>p, <2>1, PushIs, FrameIs, ZenonT(60)
<1>2. MayCall(s) BY <1>0, CollectorOnTop
<1>3. b \in On("deleted") /\ del[b] /\ b \in Live BY <1>0 DEF FinalOK, On, Live
<1>4. \A j \in DOMAIN s : s[j].at # "test" => s[j].block # b
    <2> SUFFICES ASSUME NEW j \in DOMAIN s, s[j].at # "test", s[j].block = b PROVE FALSE OBVIOUS
    <2>1. s[j] \in Frames OBVIOUS
    <2>2. s[j].at \in Destroying BY <2>1, FrameIs DEF Destroying
    <2> QED BY <1>0, <2>2 DEF DyingOK
<1>5. Frame(b, "clear") \in Frames /\ Frame(b, "clear").block = b /\ Frame(b, "clear").at = "clear"
    BY <1>p, FrameIs DEF Frame
<1>6. StackOK(n) BY <1>1, <1>2, <1>4, <1>5, StackPush
<1>7. \A i \in DOMAIN n : i = 1 \/ (i > 1 /\ i - 1 \in DOMAIN s /\ n[i] = s[i - 1])
    BY <1>1, <1>5, PushFrames
<1>8. 1 \in DOMAIN n /\ n[1].block = b /\ n[1].at = "clear" BY <1>1, <1>5, PushFrames
<1>9. Live' = Live /\ On("deleted")' = On("deleted") BY <1>0 DEF Live, On
<1>10. DyingOK(n)'
    <2> SUFFICES ASSUME NEW i \in DOMAIN n, NEW c \in Blocks, n[i].block = c
                 PROVE  /\ c \in Live
                        /\ n[i].at \in Destroying => del[c] /\ c \notin toClear'
                        /\ n[i].at \in {"check", "keep", "free"} => items[c] = {} /\ list[c] # "deleted"
                        /\ n[i].at \in {"test", "free"} => ref[c] = 0
        BY <1>0, <1>9, ZenonT(60) DEF DyingOK
    <2>1. CASE i = 1 BY <1>0, <1>3, <1>8, <2>1
    <2>2. CASE i > 1
        <3>1. i - 1 \in DOMAIN s /\ n[i] = s[i - 1] BY <1>7, <2>2
        <3>2. s[i - 1].block = c BY <3>1
        <3> QED BY <1>0, <3>1, <3>2, ZenonT(60) DEF DyingOK
    <2> QED BY <1>7, <2>1, <2>2
<1>11. FinalOK(n)'
    <2>1. (\E i \in DOMAIN n : n[i].at = "gc") <=> (\E i \in DOMAIN s : s[i].at = "gc")
        BY <1>1, <1>5, PushFrames
    <2>2. ASSUME NEW i \in DOMAIN n, NEW j \in DOMAIN n, n[i].at = "gc", i < j
          PROVE  n[j].block \notin On("deleted")
        <3>1. i > 1 /\ j > 1 BY <2>2, <1>7, <1>8
        <3>2. i - 1 \in DOMAIN s /\ j - 1 \in DOMAIN s /\ n[i] = s[i - 1] /\ n[j] = s[j - 1] /\ i - 1 < j - 1
            BY <1>7, <2>2, <3>1
        <3> QED BY <2>2, <3>2 DEF FinalOK
    <2> QED BY <1>0, <1>9, <2>1, <2>2 DEF FinalOK
<1>12. \A c \in Blocks : InDestructor(n, c) <=> InDestructor(s, c)
    <2>1. \A c : Frame(b, "clear") # Frame(c, "dtor") BY DEF Frame
    <2> QED BY <1>1, <1>5, <2>1, DestructorPush
<1>13. \A c : Holders(c)' = Holders(c) BY <1>0, <1>9 DEF Holders
<1>14. Counted(n)' BY <1>0, <1>9, <1>12, <1>13, CountedKeeps DEF Live
<1>15. NothingDangles(n)' BY <1>0, <1>9, <1>12 DEF NothingDangles
<1>16. \A c \in Blocks : Destroyed(s, c) \/ c = b => Destroyed(n, c)
    <2>1. Destroyed(n, b) BY <1>p, <1>8 DEF Destroyed
    <2> QED BY <1>1, <1>5, <2>1, PushFrames
<1>17. DyingIsApart(n)' BY <1>0, <1>9, <1>16 DEF DyingIsApart, On
<1> QED BY <1>6, <1>10, <1>11, <1>14, <1>15, <1>17 DEF StackOK

\* The collection is over.
LEMMA CollectReturnSafe ==
    ASSUME NEW t \in Threads, NEW s \in Seq(Frames), s = frames[t], NEW n \in Seq(Frames), n = frames'[t],
           Types, Types', SequentialInv(s), CollectReturn(t)
    PROVE  SequentialInv(n)'
<1> USE DEF SequentialInv
<1>0. /\ UNCHANGED <<list, del, ref, items, root, toClear, kept>> /\ s_bCollecting' = FALSE
      /\ At(t, NoBlock, "gc") /\ On("deleted") = {}
    BY DEF CollectReturn
<1>1. /\ s # <<>> /\ 1 \in DOMAIN s /\ s[1].block = NoBlock /\ s[1].at = "gc"
      /\ \A i \in DOMAIN s : i # 1 => s[i].at # "gc"
    BY <1>0, CollectorOnTop
<1>2. IsPop(n, s)
    <2>1. n = Tail(s) BY DEF CollectReturn, Return, Types
    <2> QED BY <1>1, <2>1, PopIs
<1>3. Live' = Live /\ On("deleted")' = {} BY <1>0 DEF Live, On
<1>4. StackOK(n) BY <1>2, StackPop
<1>5. \A i \in DOMAIN n : n[i].at # "gc"
    <2> SUFFICES ASSUME NEW i \in DOMAIN n PROVE n[i].at # "gc" OBVIOUS
    <2>1. i + 1 \in DOMAIN s /\ n[i] = s[i + 1] /\ i + 1 # 1 BY <1>2, PopFrames
    <2> QED BY <1>1, <2>1
<1>6. DyingOK(n)'
    <2> SUFFICES ASSUME NEW i \in DOMAIN n, NEW c \in Blocks, n[i].block = c
                 PROVE  /\ c \in Live
                        /\ n[i].at \in Destroying => del[c] /\ c \notin toClear
                        /\ n[i].at \in {"check", "keep", "free"} => items[c] = {} /\ list[c] # "deleted"
                        /\ n[i].at \in {"test", "free"} => ref[c] = 0
        BY <1>0, <1>3, ZenonT(60) DEF DyingOK
    <2>1. PICK j \in DOMAIN s : n[i] = s[j] BY <1>2, PopFrames
    <2>2. s[j].block = c BY <2>1
    <2> QED BY <2>1, <2>2, ZenonT(60) DEF DyingOK
<1>7. FinalOK(n)' BY <1>0, <1>3, <1>5 DEF FinalOK
<1>8. \A c \in Blocks : InDestructor(n, c) <=> InDestructor(s, c) BY <1>1, <1>2, DestructorPop
<1>9. \A c : Holders(c)' = Holders(c) BY <1>0, <1>3 DEF Holders
<1>10. Counted(n)' BY <1>0, <1>3, <1>8, <1>9, CountedKeeps DEF Live
<1>11. NothingDangles(n)' BY <1>0, <1>3, <1>8 DEF NothingDangles
<1>12. DyingIsApart(n)' BY <1>0, <1>3 DEF DyingIsApart
<1> QED BY <1>4, <1>6, <1>7, <1>10, <1>11, <1>12 DEF StackOK

\* Mark, sweep and flip.
LEMMA CollectAllSafe ==
    ASSUME NEW t \in Threads, NEW s \in Seq(Frames), s = frames[t], NEW n \in Seq(Frames), n = frames'[t],
           Types, Types', UnmarkedAreDying, SequentialInv(s), CollectAll(t)
    PROVE  SequentialInv(n)'
<1> USE DEF SequentialInv
<1>0. /\ UNCHANGED <<ref, items, root, kept>> /\ InProgram(t)
      /\ ~s_bCollecting /\ s_bCollecting' = TRUE /\ toClear' = Unused(Marked)
    BY DEF CollectAll
<1>1. PICK U : U = Unused(Marked) OBVIOUS
<1>2. /\ U \subseteq Blocks
      /\ \A c \in U : list[c] = "curr" /\ ~del[c] /\ used[c] = s_uUsedFlag /\ c \notin Marked
      /\ \A c \in Blocks : list'[c] = (IF c \in U THEN "deleted" ELSE list[c]) /\ del'[c] = (del[c] \/ c \in U)
    BY <1>1 DEF Unused, On, CollectAll
<1>3. Live' = Live BY <1>2 DEF Live
<1>4. On("deleted") = {} /\ On("deleted")' = U
    <2>1. On("deleted") = {} BY <1>0 DEF FinalOK
    <2> QED BY <1>2, <2>1 DEF On
<1>5. Frame(NoBlock, "gc") \in Frames /\ Frame(NoBlock, "gc").at = "gc" /\ Frame(NoBlock, "gc").block = NoBlock
    BY FrameIs DEF Frame
<1>6. IsPush(n, s, Frame(NoBlock, "gc"))
    <2>1. n = Push(s, NoBlock, "gc") BY DEF CollectAll, Types
    <2> QED BY <1>5, <2>1, PushIs
<1>7. /\ 1 \in DOMAIN n /\ n[1] = Frame(NoBlock, "gc")
      /\ \A i \in DOMAIN n : i = 1 \/ (i > 1 /\ i - 1 \in DOMAIN s /\ n[i] = s[i - 1])
      /\ \E i \in DOMAIN n : n[i].at = "gc"
      /\ \A c : Destroyed(s, c) => Destroyed(n, c)
    BY <1>5, <1>6, PushFrames
<1>8. MayCall(s) /\ \A i \in DOMAIN s : s[i].at \in {"dtor", "items", "gc"} BY <1>0, ProgramStack
<1>9. \A i \in DOMAIN s : s[i].at \in {"dtor", "items"} /\ s[i].block \in Blocks /\ del[s[i].block]
    <2> SUFFICES ASSUME NEW i \in DOMAIN s
                 PROVE  s[i].at \in {"dtor", "items"} /\ s[i].block \in Blocks /\ del[s[i].block]
        OBVIOUS
    <2>1. s[i].at \in {"dtor", "items"} BY <1>0, <1>8 DEF FinalOK
    <2>2. s[i] \in Frames OBVIOUS
    <2>3. s[i].block \in Blocks BY <2>1, <2>2, FrameIs
    <2>4. s[i].at \in Destroying BY <2>1 DEF Destroying, Places
    <2> QED BY <2>1, <2>3, <2>4 DEF DyingOK
<1>10. \A i \in DOMAIN s : s[i].block \notin U BY <1>2, <1>9
<1>11. StackOK(n)
    <2>1. \A j \in DOMAIN s : s[j].at # "test" => s[j].block # NoBlock BY <1>9
    <2> QED BY <1>5, <1>6, <1>8, <2>1, StackPush
<1>12. DyingOK(n)'
    <2> SUFFICES ASSUME NEW i \in DOMAIN n, NEW c \in Blocks, n[i].block = c
                 PROVE  /\ c \in Live
                        /\ n[i].at \in Destroying => del'[c] /\ c \notin U
                        /\ n[i].at \notin {"check", "keep", "free", "test"}
        BY <1>0, <1>1, <1>3 DEF DyingOK
    <2>0. i # 1 BY <1>5, <1>7
    <2>1. i - 1 \in DOMAIN s /\ n[i] = s[i - 1] BY <1>7, <2>0
    <2>2. s[i - 1].block = c /\ s[i - 1].at \in {"dtor", "items"} BY <1>9, <2>1
    <2>3. c \in Live BY <2>1, <2>2 DEF DyingOK
    <2>4. del[c] /\ c \notin U BY <1>9, <1>10, <2>1, <2>2
    <2>5. del'[c] BY <1>2, <2>4
    <2> QED BY <2>1, <2>2, <2>3, <2>4, <2>5
<1>13. FinalOK(n)'
    <2>1. \A c \in On("deleted")' : del'[c] BY <1>2, <1>4
    <2>2. ASSUME NEW i \in DOMAIN n, NEW j \in DOMAIN n, i < j PROVE n[j].block \notin U
        <3>1. j # 1 BY <2>2
        <3>2. j - 1 \in DOMAIN s /\ n[j] = s[j - 1] BY <1>7, <3>1
        <3> QED BY <1>10, <3>2
    <2>3. s_bCollecting' <=> \E i \in DOMAIN n : n[i].at = "gc" BY <1>0, <1>7
    <2> QED BY <1>0, <1>1, <1>4, <2>1, <2>2, <2>3 DEF FinalOK
<1>14. \A c \in Blocks : InDestructor(n, c) <=> InDestructor(s, c)
    <2>1. \A c : Frame(NoBlock, "gc") # Frame(c, "dtor") BY DEF Frame
    <2> QED BY <1>5, <1>6, <2>1, DestructorPush
<1>15. \A c : Holders(c)' = Holders(c) BY <1>0, <1>3 DEF Holders
<1>16. Counted(n)' BY <1>0, <1>3, <1>14, <1>15, CountedKeeps DEF Live
<1>17. NothingDangles(n)' BY <1>0, <1>3, <1>14 DEF NothingDangles
<1>18. \A c \in U : Markable(c) BY <1>2 DEF Markable
<1>19. root \cap U = {}
    <2>1. root \subseteq Seeds BY DEF Seeds
    <2> QED BY <1>2, <1>18, <2>1, MarkedIsClosed DEF ClosedMark
<1>20. ASSUME NEW a \in Live, ~del[a], a \notin U, NEW c \in items[a] PROVE c \notin U
    <2> SUFFICES ASSUME c \in U PROVE FALSE OBVIOUS
    <2>0. a \in Blocks /\ list[a] \in {"curr", "locked"}
        BY <1>4, <1>20 DEF Live, On, Types, Lists
    <2>1. CASE list[a] = "locked"
        <3>1. c \in Seeds BY <2>0, <2>1 DEF Seeds, On
        <3> QED BY <1>2, <1>18, <3>1, MarkedIsClosed DEF ClosedMark
    <2>2. CASE list[a] = "curr"
        <3>1. used[a] = s_uUsedFlag BY <1>20, <2>0, <2>2 DEF UnmarkedAreDying, On
        <3>2. a \in Marked BY <1>1, <1>20, <2>0, <2>2, <3>1 DEF Unused, On
        <3> QED BY <1>2, <1>18, <3>2, MarkedIsClosed DEF ClosedMark
    <2> QED BY <2>0, <2>1, <2>2
<1>21. DyingIsApart(n)'
    <2> SUFFICES ASSUME ~kept
                 PROVE  /\ \A c \in root : ~del'[c]
                        /\ \A a \in Live : ~del'[a] => \A c \in items[a] : ~del'[c]
        BY <1>0, <1>1, <1>3, <1>4 DEF DyingIsApart
    <2>1. \A c \in root : ~del'[c] BY <1>2, <1>19 DEF DyingIsApart, Types
    <2>2. ASSUME NEW a \in Live, ~del'[a], NEW c \in items[a] PROVE ~del'[c]
        <3>1. ~del[a] /\ a \notin U BY <1>2, <2>2 DEF Live
        <3>2. ~del[c] /\ c \in Blocks BY <2>2, <3>1 DEF DyingIsApart, Types, Live
        <3> QED BY <1>2, <1>20, <2>2, <3>1, <3>2
    <2> QED BY <2>1, <2>2
<1> QED BY <1>11, <1>12, <1>13, <1>16, <1>17, <1>21 DEF StackOK

-----------------------------------------------------------------------------
(* The memory of a program with one thread is safe.                        *)

\* A step of the thread keeps the invariant, and no counter gets negative.
LEMMA SequentialStep ==
    ASSUME NEW t \in Threads, TypeOK, UnmarkedAreDying, SequentialInv(frames[t]),
           ThreadNext(t), program' = program
    PROVE  TypeOK' /\ SequentialInv(frames[t])'
<1>1. Types /\ ref \in [Blocks -> Nat] BY DEF TypeOK, Types
<1>2. Types' BY <1>1, ThreadStep
<1>3. PICK s \in Seq(Frames) : s = frames[t] BY <1>1 DEF Types
<1>4. PICK n \in Seq(Frames) : n = frames'[t] BY <1>2 DEF Types
<1>5. SequentialInv(s) BY <1>3
<1>6. SUFFICES ref' \in [Blocks -> Nat] /\ SequentialInv(n)' BY <1>2, <1>4 DEF TypeOK, Types
<1>7. ASSUME NEW b \in Blocks, BlockNext(t, b) PROVE ref' \in [Blocks -> Nat] /\ SequentialInv(n)'
    <2>1. CASE AllocRaw(t, b)
        <3>1. n = s BY <1>3, <1>4, <2>1 DEF AllocRaw
        <3> QED BY <1>1, <1>2, <1>3, <1>5, <2>1, <3>1, AllocSafe DEF AllocRaw
    <2>2. CASE Load(t, b)
        <3>1. n = s BY <1>3, <1>4, <2>2 DEF Load
        <3>2. SequentialInv(s)' BY <1>1, <1>2, <1>3, <1>5, <2>2, LoadSafe
        <3>3. ref' \in [Blocks -> Nat] BY <1>1, <2>2 DEF Load, RefInc
        <3> QED BY <3>1, <3>2, <3>3
    <2>3. CASE Drop(t, b)
        <3>1. SequentialInv(n)' /\ ref[b] > 0 BY <1>1, <1>2, <1>3, <1>4, <1>5, <2>3, DropSafe
        <3> QED BY <1>1, <2>3, <3>1 DEF Drop, RefDec
    <2>4. CASE GcLock(t, b) \/ GcUnlock(t, b)
        <3>1. n = s BY <1>3, <1>4, <2>4 DEF GcLock, GcUnlock
        <3> QED BY <1>1, <1>2, <1>3, <1>5, <2>4, <3>1, LockSafe DEF GcLock, GcUnlock
    <2>5. CASE RefTest(t, b)
        BY <1>1, <1>2, <1>3, <1>4, <1>5, <2>5, RefTestSafe DEF RefTest
    <2>6. CASE Clear(t, b)
        <3>1. SequentialInv(n)' BY <1>1, <1>2, <1>3, <1>4, <1>5, <2>6, ClearSafe
        <3> QED BY <1>1, <2>6, <3>1 DEF Clear
    <2>7. CASE DestructorReturn(t, b)
        <3>1. SequentialInv(n)' /\ ref[b] > 0 BY <1>1, <1>2, <1>3, <1>4, <1>5, <2>7, DestructorSafe
        <3> QED BY <1>1, <2>7, <3>1 DEF DestructorReturn, RefDec
    <2>8. CASE ClearReturn(t, b) \/ RefCheck(t, b)
        BY <1>1, <1>2, <1>3, <1>4, <1>5, <2>8, ReturnSafe DEF ClearReturn, RefCheck
    <2>9. CASE Keep(t, b) \/ Free(t, b)
        BY <1>1, <1>2, <1>3, <1>4, <1>5, <2>9, KeepSafe DEF Keep, Free
    <2>10. CASE FinalClear(t, b)
        BY <1>1, <1>2, <1>3, <1>4, <1>5, <2>10, FinalClearSafe DEF FinalClear
    <2>11. CASE FinalRelease(t, b)
        <3>1. n = s BY <1>3, <1>4, <2>11 DEF FinalRelease
        <3> QED BY <1>1, <1>2, <1>3, <1>5, <2>11, <3>1, FinalReleaseSafe DEF FinalRelease
    <2> QED BY <1>7, <2>1, <2>2, <2>3, <2>4, <2>5, <2>6, <2>7, <2>8, <2>9, <2>10, <2>11 DEF BlockNext
<1>8. ASSUME NEW a \in Blocks, NEW b \in Blocks, Store(t, a, b)
      PROVE  ref' \in [Blocks -> Nat] /\ SequentialInv(n)'
    <2>1. n = s BY <1>3, <1>4, <1>8 DEF Store
    <2>2. SequentialInv(s)' BY <1>1, <1>2, <1>3, <1>5, <1>8, StoreSafe
    <2>3. ref' \in [Blocks -> Nat] BY <1>1, <1>8 DEF Store, RefInc
    <2> QED BY <2>1, <2>2, <2>3
<1>9. ASSUME NEW a \in Blocks, NEW b \in Blocks, Remove(t, a, b) \/ ReleaseItem(t, a, b)
      PROVE  ref' \in [Blocks -> Nat] /\ SequentialInv(n)'
    <2>1. SequentialInv(n)' /\ ref[b] > 0 BY <1>1, <1>2, <1>3, <1>4, <1>5, <1>9, RemoveSafe
    <2>2. ref' = [ref EXCEPT ![b] = @ - 1] BY <1>9 DEF Remove, ReleaseItem, RefDec
    <2> QED BY <1>1, <2>1, <2>2
<1>10. CASE CollectAll(t)
    BY <1>1, <1>2, <1>3, <1>4, <1>5, <1>10, CollectAllSafe DEF CollectAll
<1>11. CASE CollectReturn(t)
    BY <1>1, <1>2, <1>3, <1>4, <1>5, <1>11, CollectReturnSafe DEF CollectReturn
<1> QED BY <1>7, <1>8, <1>9, <1>10, <1>11 DEF ThreadNext

\* The invariant holds at first.
LEMMA GcInit == Init /\ OneThread => GcInv
<1> SUFFICES ASSUME Init, OneThread PROVE GcInv OBVIOUS
<1>1. Types /\ UnmarkedAreDying BY MarkInit DEF MarkInv
<1>2. TypeOK BY <1>1 DEF Types, TypeOK, Init
<1>3. OthersAreIdle BY DEF OthersAreIdle, Init
<1>4. ASSUME NEW t \in program.threads PROVE SequentialInv(frames[t])
    <2>1. t \in Threads BY <1>1 DEF Types, IsProgram
    <2>2. frames[t] = <<>> BY <2>1 DEF Init
    <2>3. Live = {} /\ On("deleted") = {} BY DEF Init, Live, On
    <2>4. DOMAIN <<>> = {} OBVIOUS
    <2>5. StackOK(<<>>) /\ DyingOK(<<>>) BY DEF StackOK, DyingOK
    <2>6. FinalOK(<<>>) BY <2>3 DEF FinalOK, Init
    <2>7. Counted(<<>>) BY <2>3 DEF Counted
    <2>8. NothingDangles(<<>>) BY DEF NothingDangles, Init, InDestructor, Live
    <2>9. DyingIsApart(<<>>) BY <2>3 DEF DyingIsApart, Init
    <2> QED BY <2>2, <2>5, <2>6, <2>7, <2>8, <2>9 DEF SequentialInv
<1> QED BY <1>1, <1>2, <1>3, <1>4 DEF GcInv

\* Every step keeps it.
LEMMA GcStep == GcInv /\ [Next]_vars => GcInv'
<1> SUFFICES ASSUME GcInv, [Next]_vars PROVE GcInv' OBVIOUS
<1>0. TypeOK /\ UnmarkedAreDying /\ OneThread /\ OthersAreIdle
      /\ \A t \in program.threads : SequentialInv(frames[t])
    BY DEF GcInv
<1>1. CASE UNCHANGED vars
    <2> USE <1>0, <1>1 DEF vars
    <2>1. TypeOK' BY DEF TypeOK
    <2>2. UnmarkedAreDying' BY DEF UnmarkedAreDying, On
    <2>3. OneThread' /\ OthersAreIdle' BY DEF OneThread, OthersAreIdle
    <2>4. \A s : SequentialInv(s)' <=> SequentialInv(s)
        BY DEF SequentialInv, StackOK, DyingOK, FinalOK, Counted, NothingDangles, DyingIsApart, Live, On,
            Refs, Holders, InDestructor
    <2>5. ASSUME NEW t \in program.threads PROVE SequentialInv(frames[t])'
        <3>1. PICK s : s = frames[t] OBVIOUS
        <3>2. SequentialInv(s)' BY <3>1, <2>4
        <3> QED BY <3>1, <3>2
    <2> QED BY <2>1, <2>2, <2>3, <2>5 DEF GcInv
<1>2. ASSUME NEW t \in program.threads, ThreadNext(t), program' = program PROVE GcInv'
    <2>1. t \in Threads /\ program.threads = {t} BY <1>0 DEF OneThread
    <2>2. Types BY <1>0 DEF TypeOK, Types
    <2>3. TypeOK' /\ SequentialInv(frames[t])' BY <1>0, <1>2, <2>1, SequentialStep
    <2>4. Types' /\ StaysDying(t) BY <1>0, <1>2, <2>1, <2>2, ThreadStep
    <2>5. UnmarkedAreDying' BY <2>4 DEF StaysDying, UnmarkedAreDying, On
    <2>6. OneThread' BY <1>0, <1>2 DEF OneThread
    <2>7. OthersAreIdle' BY <1>0, <1>2, <2>1, <2>2, <2>4 DEF OthersAreIdle, StaysDying, Types
    <2>8. \A u \in program'.threads : u = t BY <1>2, <2>1
    <2> QED BY <2>3, <2>5, <2>6, <2>7, <2>8 DEF GcInv
<1> QED BY <1>1, <1>2 DEF Next

\* The invariant of a program with one thread.
THEOREM Invariance == Spec /\ OneThread => []GcInv
BY GcInit, GcStep, PTL DEF Spec

\* The frame of a function is that of the one thread.
LEMMA FramesAreOnes ==
    ASSUME GcInv
    PROVE  \E t \in Threads : /\ program.threads = {t} /\ SequentialInv(frames[t])
                              /\ frames[t] \in Seq(Frames)
                              /\ \A u \in Threads \ {t} : frames[u] = <<>>
<1>1. PICK t \in Threads : program.threads = {t} BY DEF GcInv, OneThread
<1> QED BY <1>1 DEF GcInv, OthersAreIdle, TypeOK

\* Whatever a program with one thread and its destructors do, hb_gcRefFree() and
\* hb_gcCollectAll() touch no block that has been freed.
THEOREM NoUseAfterFreeCorrect == Spec /\ OneThread => []NoUseAfterFree
<1>1. ASSUME GcInv PROVE NoUseAfterFree
    <2>1. PICK t \in Threads : /\ SequentialInv(frames[t]) /\ frames[t] \in Seq(Frames)
                               /\ \A u \in Threads \ {t} : frames[u] = <<>>
        BY <1>1, FramesAreOnes
    <2> SUFFICES ASSUME NEW i \in DOMAIN frames[t], frames[t][i].at # "gc"
                 PROVE  frames[t][i].block \in Live
        BY <2>1 DEF NoUseAfterFree
    <2>2. frames[t][i] \in Frames BY <2>1
    <2>3. frames[t][i].block \in Blocks BY <2>2, FrameIs
    <2> QED BY <2>1, <2>3 DEF SequentialInv, DyingOK
<1> QED BY <1>1, Invariance, PTL

\* In a program with one thread no reference dangles, and nothing the program can
\* use is given to the finalizer unless a destructor kept it.
THEOREM NoDanglingCorrect == Spec /\ OneThread => []NoDanglingReference
<1>1. ASSUME GcInv PROVE NoDanglingReference
    <2>1. PICK t \in Threads : /\ SequentialInv(frames[t]) /\ frames[t] \in Seq(Frames)
                               /\ \A u \in Threads \ {t} : frames[u] = <<>>
        BY <1>1, FramesAreOnes
    <2>t. TypeOK BY <1>1 DEF GcInv
    <2>2. root \subseteq Live /\ \A a \in Live : items[a] \subseteq Live
        BY <2>1 DEF SequentialInv, NothingDangles
    <2>3. ASSUME NEW u \in Threads PROVE Self(u) \subseteq Live
        <3> SUFFICES ASSUME NEW i \in DOMAIN frames[u], frames[u][i].at = "dtor"
                     PROVE  frames[u][i].block \in Live
            BY DEF Self
        <3>1. u = t BY <2>1
        <3>2. frames[t][i] \in Frames BY <2>1, <3>1
        <3>3. frames[t][i].block \in Blocks BY <3>1, <3>2, FrameIs
        <3> QED BY <2>1, <3>1, <3>3 DEF SequentialInv, DyingOK
    <2>4. ASSUME ~kept PROVE ReachableFrom(root) \cap On("deleted") = {}
        <3> DEFINE S == {b \in Live : ~del[b]}
        <3>1. S \in SUBSET Blocks BY DEF Live
        <3>2. root \subseteq S BY <2>1, <2>2, <2>4 DEF SequentialInv, DyingIsApart
        <3>3. \A a \in S : items[a] \subseteq S BY <2>1, <2>2, <2>4 DEF SequentialInv, DyingIsApart
        <3>4. ReachableFrom(root) \subseteq S BY <3>1, <3>2, <3>3 DEF ReachableFrom
        <3>5. \A b \in On("deleted") : del[b] BY <2>1 DEF SequentialInv, FinalOK
        <3> QED BY <3>4, <3>5
    <2> QED BY <2>2, <2>3, <2>4 DEF NoDanglingReference
<1> QED BY <1>1, Invariance, PTL

\* The counter that RefCountExact compares with.
LEMMA DestructorFrames ==
    ASSUME NEW t \in Threads, frames[t] \in Seq(Frames), StackOK(frames[t]),
           \A u \in Threads \ {t} : frames[u] = <<>>, NEW b \in Blocks
    PROVE  Cardinality(UNION {{u} \X {i \in DOMAIN frames[u] : frames[u][i] = Frame(b, "dtor")} : u \in Threads})
             = IF InDestructor(frames[t], b) THEN 1 ELSE 0
<1> DEFINE P == UNION {{u} \X {i \in DOMAIN frames[u] : frames[u][i] = Frame(b, "dtor")} : u \in Threads}
<1>0. DOMAIN <<>> = {} OBVIOUS
<1>1. ASSUME NEW p \in P PROVE \E i \in DOMAIN frames[t] : p = <<t, i>> /\ frames[t][i] = Frame(b, "dtor")
    <2>1. PICK u \in Threads : p \in {u} \X {i \in DOMAIN frames[u] : frames[u][i] = Frame(b, "dtor")}
        OBVIOUS
    <2>2. u = t BY <1>0, <2>1
    <2> QED BY <2>1, <2>2
<1>2. CASE ~InDestructor(frames[t], b)
    <2>1. P = {} BY <1>1, <1>2 DEF InDestructor
    <2> QED BY <1>2, <2>1, FS_EmptySet
<1>3. CASE InDestructor(frames[t], b)
    <2>1. PICK i \in DOMAIN frames[t] : frames[t][i] = Frame(b, "dtor") BY <1>3 DEF InDestructor
    <2>2. \A j \in DOMAIN frames[t] : frames[t][j] = Frame(b, "dtor") => j = i
        BY <2>1 DEF StackOK, Frame
    <2>3. P = {<<t, i>>} BY <1>1, <2>1, <2>2
    <2> QED BY <1>3, <2>3, FS_Singleton
<1> QED BY <1>2, <1>3

\* In a program with one thread the counter of a block is the number of references
\* to it, as long as no destructor keeps what is being destroyed.
THEOREM RefCountCorrect == Spec /\ OneThread => []RefCountExact
<1>1. ASSUME GcInv PROVE RefCountExact
    <2>1. PICK t \in Threads : /\ SequentialInv(frames[t]) /\ frames[t] \in Seq(Frames)
                               /\ \A u \in Threads \ {t} : frames[u] = <<>>
        BY <1>1, FramesAreOnes
    <2>2. ASSUME ~kept, NEW b \in Live
          PROVE  ref[b] = (IF b \in root THEN 1 ELSE 0)
                   + Cardinality({a \in Live : b \in items[a]})
                   + Cardinality(UNION {{u} \X {i \in DOMAIN frames[u] : frames[u][i] = Frame(b, "dtor")} :
                                        u \in Threads})
        <3>1. ref[b] = Refs(frames[t], b) BY <2>1, <2>2 DEF SequentialInv, Counted
        <3>2. b \in Blocks BY DEF Live
        <3> QED BY <2>1, <3>1, <3>2, DestructorFrames DEF Refs, Holders, SequentialInv
    <2> QED BY <1>1, <2>2 DEF RefCountExact, GcInv
<1> QED BY <1>1, Invariance, PTL
=============================================================================
