-------------------------- MODULE GarbageCollector --------------------------
(***************************************************************************)
(* The memory of Harbour arrays and objects (src/src/vm/garbage.c with the *)
(* clear function of src/src/vm/arrays.c): reference counts free a block   *)
(* as soon as nobody refers to it, a mark-and-sweep collector frees cycles.*)
(* Both run destructors, which are programs of their own, and both take    *)
(* care not to free a block twice: HB_GC_DELETE and HB_GC_DELETELST.       *)
(*                                                                         *)
(* A thread that runs C code of the memory manager has a stack of frames:  *)
(* hb_gcRefFree() calls a clear function, which calls hb_gcRefFree() for   *)
(* each item, and so on.  A thread without a frame, or with a destructor on*)
(* top, runs the program.  Marking is one step: HvmLock shows that nobody  *)
(* else is inside the VM (StopTheWorld).  The items of a block are a set:  *)
(* the program keeps at most one reference to a block in each array, and   *)
(* at most one in its variables.                                           *)
(*                                                                         *)
(* A definition X_Y is a broken variant of X: it stands for a mistake the  *)
(* properties must notice and is no part of the specification.             *)
(***************************************************************************)
EXTENDS Integers, FiniteSets, Sequences

CONSTANTS
    Threads,
    Blocks,      \* the memory blocks there are
    NoBlock,     \* the frame of hb_gcCollectAll() is not about one block
    Programs     \* the programs that are run, see IsProgram

\* A program: its threads, the blocks it allocates, which of them are objects
\* with a destructor, a bound on the nesting of hb_gcLock(), and whether its
\* destructors may store a reference to a block that is dying.
IsProgram(p) ==
    /\ p.threads \subseteq Threads /\ p.blocks \subseteq Blocks
    /\ p.objects \subseteq p.blocks
    /\ p.maxLocked \in Nat /\ p.keepDying \in BOOLEAN

ASSUME GcAssumption ==
    /\ IsFiniteSet(Blocks) /\ NoBlock \notin Blocks
    /\ \A p \in Programs : IsProgram(p)

VARIABLES
    program,       \* the program that runs, chosen in Init
    list,          \* the list each block is on: s_pCurrBlock, ..., or free memory
    used,          \* HB_GC_USED_FLAG of each block
    del,           \* HB_GC_DELETE of each block
    locked,        \* the locking counter of each block
    ref,           \* the reference counter hb_xgrab() keeps with each block
    items,         \* the blocks that the items of each block refer to
    object,        \* uiClass: the block has a destructor to run
    root,          \* the blocks that variables of the program refer to
    frames,        \* what each thread does in the memory manager
    s_uUsedFlag,
    s_bCollecting,
    toClear,       \* blocks on s_pDeletedBlock whose clear function is not called
    kept           \* a destructor stored a reference to a dying block (history)

vars == <<program, list, used, del, locked, ref, items, object, root, frames,
          s_uUsedFlag, s_bCollecting, toClear, kept>>

Lists == {"none", "curr", "locked", "deleted"}

\* The places in the code: "test" is behind hb_xRefDec() in hb_gcRefFree(),
\* "clear", "dtor" and "items" are in hb_arrayGarbageRelease(), "check", "keep"
\* and "free" behind it; "gc" is behind hb_vmResumeThreads() in hb_gcCollectAll().
Places == {"test", "clear", "dtor", "items", "check", "keep", "free"}

Frames == [block : Blocks, at : Places] \cup {[block |-> NoBlock, at |-> "gc"]}

\* The type invariant.
TypeOK ==
    /\ program \in Programs
    /\ list \in [Blocks -> Lists]
    /\ used \in [Blocks -> {0, 1}]
    /\ del \in [Blocks -> BOOLEAN] /\ object \in [Blocks -> BOOLEAN]
    /\ locked \in [Blocks -> Nat] /\ ref \in [Blocks -> Nat]
    /\ items \in [Blocks -> SUBSET Blocks]
    /\ root \in SUBSET Blocks /\ toClear \in SUBSET Blocks
    /\ frames \in [Threads -> Seq(Frames)]
    /\ s_uUsedFlag \in {0, 1} /\ s_bCollecting \in BOOLEAN
    /\ kept \in BOOLEAN

Init ==
    /\ program \in Programs
    /\ list = [b \in Blocks |-> "none"]
    /\ used = [b \in Blocks |-> 0]
    /\ del = [b \in Blocks |-> FALSE] /\ object = [b \in Blocks |-> FALSE]
    /\ locked = [b \in Blocks |-> 0] /\ ref = [b \in Blocks |-> 0]
    /\ items = [b \in Blocks |-> {}]
    /\ root = {} /\ toClear = {}
    /\ frames = [t \in Threads |-> <<>>]
    /\ s_uUsedFlag = 1 /\ s_bCollecting = FALSE
    /\ kept = FALSE

-----------------------------------------------------------------------------
(* Frames and references.                                                  *)

Frame(b, l) == [block |-> b, at |-> l]
Push(s, b, l) == <<Frame(b, l)>> \o s
Return(t) == frames' = [frames EXCEPT ![t] = Tail(@)]
Goto(t, l) == frames' = [frames EXCEPT ![t][1].at = l]

At(t, b, l) == frames[t] # <<>> /\ Head(frames[t]) = Frame(b, l)

\* The thread executes program code: its own, or that of a destructor.
InProgram(t) == frames[t] # <<>> => Head(frames[t]).at = "dtor"

\* The object whose destructor is executed is on the HVM stack (hb_arrayPushBase()).
Self(t) == {frames[t][i].block : i \in {j \in DOMAIN frames[t] : frames[t][j].at = "dtor"}}

\* What the program can name in thread t.
Known(t) ==
    root \cup {b \in Blocks : At(t, b, "dtor")}

RefInc_Uncounted(b) == (del[b] => program.keepDying) /\ UNCHANGED <<ref, kept>>

\* A reference to b is stored.
RefInc(b) ==
    /\ del[b] => program.keepDying
    /\ ref' = [ref EXCEPT ![b] = @ + 1]
    /\ kept' = (kept \/ del[b])

\* hb_gcRefFree() begins with hb_xRefDec(): the thread that finds zero goes on.
\* s are the thread's frames when it returns.
RefDec(t, b, s) ==
    /\ ref' = [ref EXCEPT ![b] = @ - 1]
    /\ frames' = [frames EXCEPT ![t] = IF ref[b] = 1 THEN Push(s, b, "test") ELSE s]

-----------------------------------------------------------------------------
(* The program.                                                            *)

\* hb_gcAllocRaw(), the block stored in a variable.
AllocRaw(t, b) ==
    /\ InProgram(t) /\ b \in program.blocks /\ list[b] = "none"
    /\ list' = [list EXCEPT ![b] = "curr"]
    /\ used' = [used EXCEPT ![b] = s_uUsedFlag]
    /\ del' = [del EXCEPT ![b] = FALSE]
    /\ locked' = [locked EXCEPT ![b] = 0]
    /\ ref' = [ref EXCEPT ![b] = 1]
    /\ items' = [items EXCEPT ![b] = {}]
    /\ object' = [object EXCEPT ![b] = b \in program.objects]
    /\ root' = root \cup {b}
    /\ UNCHANGED <<frames, s_uUsedFlag, s_bCollecting, toClear, kept>>

\* A reference to b is copied into array a.
Store(t, a, b) ==
    /\ InProgram(t) /\ a \in Known(t) /\ b \in Known(t) /\ b \notin items[a]
    /\ items' = [items EXCEPT ![a] = @ \cup {b}]
    /\ RefInc(b)
    /\ UNCHANGED <<list, used, del, locked, object, root, frames, s_uUsedFlag,
                   s_bCollecting, toClear>>

\* A reference to b, in array a or the Self of a destructor, is copied into a
\* variable.
Load(t, b) ==
    /\ InProgram(t) /\ b \notin root
    /\ b \in Known(t) \cup (UNION {items[a] : a \in Known(t)})
    /\ root' = root \cup {b}
    /\ RefInc(b)
    /\ UNCHANGED <<list, used, del, locked, items, object, frames, s_uUsedFlag,
                   s_bCollecting, toClear>>

\* hb_itemClear() of an item of array a, and of a variable.
Remove(t, a, b) ==
    /\ InProgram(t) /\ a \in Known(t) /\ b \in items[a]
    /\ items' = [items EXCEPT ![a] = @ \ {b}]
    /\ RefDec(t, b, frames[t])
    /\ UNCHANGED <<list, used, del, locked, object, root, s_uUsedFlag, s_bCollecting, toClear, kept>>

Drop(t, b) ==
    /\ InProgram(t) /\ b \in root
    /\ root' = root \ {b}
    /\ RefDec(t, b, frames[t])
    /\ UNCHANGED <<list, used, del, locked, items, object, s_uUsedFlag, s_bCollecting, toClear, kept>>

\* hb_gcLock() and hb_gcUnlock(), by C code that keeps a pointer to b.
GcLock(t, b) ==
    /\ InProgram(t) /\ b \in root /\ ~del[b] /\ locked[b] < program.maxLocked
    /\ locked' = [locked EXCEPT ![b] = @ + 1]
    /\ list' = [list EXCEPT ![b] = "locked"]
    /\ UNCHANGED <<used, del, ref, items, object, root, frames, s_uUsedFlag,
                   s_bCollecting, toClear, kept>>

GcUnlock(t, b) ==
    /\ InProgram(t) /\ list[b] = "locked" /\ ~del[b]
    /\ locked' = [locked EXCEPT ![b] = @ - 1]
    /\ \/ /\ locked[b] = 1
          /\ used' = [used EXCEPT ![b] = s_uUsedFlag]
          /\ list' = [list EXCEPT ![b] = "curr"]
       \/ locked[b] > 1 /\ UNCHANGED <<used, list>>
    /\ UNCHANGED <<del, ref, items, object, root, frames, s_uUsedFlag, s_bCollecting, toClear, kept>>

-----------------------------------------------------------------------------
(* hb_gcRefFree() of the last reference.                                   *)

\* hb_gcUnlink() and HB_GARBAGE_FREE(): what the block contained is lost.
Release(b) ==
    /\ list' = [list EXCEPT ![b] = "none"]
    /\ used' = [used EXCEPT ![b] = 0]
    /\ del' = [del EXCEPT ![b] = FALSE]
    /\ locked' = [locked EXCEPT ![b] = 0]

RefTest_Always(t, b) ==
    /\ At(t, b, "test")
    /\ Goto(t, "clear")
    /\ del' = [del EXCEPT ![b] = TRUE]
    /\ UNCHANGED <<list, used, locked, ref, items, object, root, s_uUsedFlag,
                   s_bCollecting, toClear, kept>>

\* "Don't release the block that will be deleted during finalization"
RefTest(t, b) ==
    /\ At(t, b, "test")
    /\ \/ del[b] /\ Return(t) /\ UNCHANGED del
       \/ ~del[b] /\ Goto(t, "clear") /\ del' = [del EXCEPT ![b] = TRUE]
    /\ UNCHANGED <<list, used, locked, ref, items, object, root, s_uUsedFlag,
                   s_bCollecting, toClear, kept>>

\* hb_arrayGarbageRelease(): an object is pushed and its destructor called.
Clear(t, b) ==
    /\ At(t, b, "clear")
    /\ \/ object[b] /\ ref' = [ref EXCEPT ![b] = @ + 1] /\ Goto(t, "dtor")
       \/ ~object[b] /\ Goto(t, "items") /\ UNCHANGED ref
    /\ UNCHANGED <<list, used, del, locked, items, object, root, s_uUsedFlag,
                   s_bCollecting, toClear, kept>>

\* The destructor returns: the object is popped, uiClass = 0.
DestructorReturn(t, b) ==
    /\ At(t, b, "dtor")
    /\ object' = [object EXCEPT ![b] = FALSE]
    /\ RefDec(t, b, Push(Tail(frames[t]), b, "items"))
    /\ UNCHANGED <<list, used, del, locked, items, root, s_uUsedFlag, s_bCollecting, toClear, kept>>

\* hb_arrayReleaseItems(), one item.
ReleaseItem(t, b, c) ==
    /\ At(t, b, "items") /\ c \in items[b]
    /\ items' = [items EXCEPT ![b] = @ \ {c}]
    /\ RefDec(t, c, frames[t])
    /\ UNCHANGED <<list, used, del, locked, object, root, s_uUsedFlag, s_bCollecting, toClear, kept>>

\* The clear function returns, to hb_gcCollectAll() or to hb_gcRefFree().
ClearReturn(t, b) ==
    /\ At(t, b, "items") /\ items[b] = {}
    /\ IF list[b] = "deleted" THEN Return(t) ELSE Goto(t, "check")
    /\ UNCHANGED <<list, used, del, locked, ref, items, object, root, s_uUsedFlag,
                   s_bCollecting, toClear, kept>>

\* "if( hb_xRefCount( pAlloc ) != 0 )"
RefCheck(t, b) ==
    /\ At(t, b, "check")
    /\ Goto(t, IF ref[b] # 0 THEN "keep" ELSE "free")
    /\ UNCHANGED <<list, used, del, locked, ref, items, object, root, s_uUsedFlag,
                   s_bCollecting, toClear, kept>>

\* The block lives on; error 1301.
Keep(t, b) ==
    /\ At(t, b, "keep")
    /\ used' = [used EXCEPT ![b] = IF del[b] THEN s_uUsedFlag ELSE @]
    /\ del' = [del EXCEPT ![b] = FALSE]
    /\ Return(t)
    /\ UNCHANGED <<list, locked, ref, items, object, root, s_uUsedFlag, s_bCollecting,
                   toClear, kept>>

Free(t, b) ==
    /\ At(t, b, "free")
    /\ Release(b)
    /\ Return(t)
    /\ UNCHANGED <<ref, items, object, root, s_uUsedFlag, s_bCollecting, toClear, kept>>

-----------------------------------------------------------------------------
(* hb_gcCollectAll()                                                       *)

On(l) == {b \in Blocks : list[b] = l}

\* hb_gcItemRef() and hb_gcMark() mark a block, and go on to its items, unless
\* its flag says that they were there already.
Markable(b) == used[b] = s_uUsedFlag /\ list[b] # "deleted"

\* The references hb_vmIsStackRef(), hb_vmIsStaticRef(), hb_clsIsClassRef() and
\* the mark functions of the locked blocks begin with.
Seeds == root \cup (UNION {Self(t) : t \in Threads}) \cup (UNION {items[b] : b \in On("locked")})

ClosedMark(S) ==
    /\ \A b \in Seeds : Markable(b) => b \in S
    /\ \A a \in S : \A b \in items[a] : Markable(b) => b \in S

Marked == {b \in Blocks : \A S \in SUBSET Blocks : ClosedMark(S) => b \in S}

\* "Release all blocks that are still marked as unused": they go to s_pDeletedBlock.
Unused(M) == {b \in On("curr") : used[b] = s_uUsedFlag /\ ~del[b] /\ b \notin M}

\* Mark, sweep and flip, between hb_vmSuspendThreads() and hb_vmResumeThreads().
CollectAll(t) ==
    /\ \A u \in Threads : InProgram(u)
    /\ ~s_bCollecting /\ On("curr") # {}
    /\ s_bCollecting' = TRUE
    /\ LET M == Marked
           U == Unused(M)
       IN  /\ used' = [b \in Blocks |-> IF b \in M THEN 1 - used[b] ELSE used[b]]
           /\ list' = [b \in Blocks |-> IF b \in U THEN "deleted" ELSE list[b]]
           /\ del' = [b \in Blocks |-> del[b] \/ b \in U]
           /\ toClear' = U
    /\ s_uUsedFlag' = 1 - s_uUsedFlag
    /\ frames' = [frames EXCEPT ![t] = Push(@, NoBlock, "gc")]
    /\ UNCHANGED <<locked, ref, items, object, root, kept>>

\* "call a cleanup function"
FinalClear(t, b) ==
    /\ At(t, NoBlock, "gc") /\ b \in toClear
    /\ toClear' = toClear \ {b}
    /\ frames' = [frames EXCEPT ![t] = Push(@, b, "clear")]
    /\ UNCHANGED <<list, used, del, locked, ref, items, object, root, s_uUsedFlag, s_bCollecting, kept>>

FinalRelease_NoTest(t, b) ==
    /\ At(t, NoBlock, "gc") /\ toClear = {} /\ list[b] = "deleted"
    /\ Release(b)
    /\ UNCHANGED <<ref, items, object, root, frames, s_uUsedFlag, s_bCollecting, toClear, kept>>

FinalRelease_KeepsFlag(t, b) ==
    /\ At(t, NoBlock, "gc") /\ toClear = {} /\ list[b] = "deleted"
    /\ \/ ref[b] # 0 /\ list' = [list EXCEPT ![b] = "curr"] /\ UNCHANGED <<used, del, locked>>
       \/ ref[b] = 0 /\ Release(b)
    /\ UNCHANGED <<ref, items, object, root, frames, s_uUsedFlag, s_bCollecting, toClear, kept>>

\* "release all deleted blocks": one with references lives on; error 1302.
FinalRelease(t, b) ==
    /\ At(t, NoBlock, "gc") /\ toClear = {} /\ list[b] = "deleted"
    /\ \/ /\ ref[b] # 0
          /\ used' = [used EXCEPT ![b] = s_uUsedFlag]
          /\ del' = [del EXCEPT ![b] = FALSE]
          /\ locked' = [locked EXCEPT ![b] = 0]
          /\ list' = [list EXCEPT ![b] = "curr"]
       \/ /\ ref[b] = 0
          /\ Release(b)
    /\ UNCHANGED <<ref, items, object, root, frames, s_uUsedFlag, s_bCollecting, toClear, kept>>

CollectReturn(t) ==
    /\ At(t, NoBlock, "gc") /\ On("deleted") = {}
    /\ s_bCollecting' = FALSE
    /\ Return(t)
    /\ UNCHANGED <<list, used, del, locked, ref, items, object, root, s_uUsedFlag, toClear, kept>>

-----------------------------------------------------------------------------
BlockNext(t, b) ==
    \/ AllocRaw(t, b) \/ Load(t, b) \/ Drop(t, b) \/ GcLock(t, b) \/ GcUnlock(t, b)
    \/ RefTest(t, b) \/ Clear(t, b) \/ DestructorReturn(t, b) \/ ClearReturn(t, b)
    \/ RefCheck(t, b) \/ Keep(t, b) \/ Free(t, b)
    \/ FinalClear(t, b) \/ FinalRelease(t, b)

ThreadNext(t) ==
    \/ \E b \in Blocks : BlockNext(t, b)
    \/ \E a, b \in Blocks : Store(t, a, b) \/ Remove(t, a, b) \/ ReleaseItem(t, a, b)
    \/ CollectAll(t) \/ CollectReturn(t)

Next == (\E t \in program.threads : ThreadNext(t)) /\ UNCHANGED program

Spec == Init /\ [][Next]_vars

-----------------------------------------------------------------------------
(* Properties.                                                             *)

Live == {b \in Blocks : list[b] # "none"}

ReachableFrom(R) ==
    LET Closed(S) == R \subseteq S /\ \A a \in S : items[a] \subseteq S
    IN  {b \in Blocks : \A S \in SUBSET Blocks : Closed(S) => b \in S}

\* No reference dangles: what a variable, an item of a live block or the Self
\* of a destructor refers to has not been freed.  And nothing the program can
\* still use is given to the finalizer: no variable leads to a block on
\* s_pDeletedBlock, unless a destructor kept it.
NoDanglingReference ==
    /\ root \cup (UNION {items[b] : b \in Live}) \cup (UNION {Self(t) : t \in Threads}) \subseteq Live
    /\ ~kept => ReachableFrom(root) \cap On("deleted") = {}

\* The counter of a live block is the number of references to it, those of
\* destructors included: neither path forgets one or drops one twice, as long
\* as no destructor keeps what is being destroyed.  The types of the state are
\* part of it.
RefCountExact ==
    /\ TypeOK
    /\ ~kept => \A b \in Live :
          ref[b] = (IF b \in root THEN 1 ELSE 0)
                   + Cardinality({a \in Live : b \in items[a]})
                   + Cardinality(UNION {{t} \X {i \in DOMAIN frames[t] :
                                                    frames[t][i] = Frame(b, "dtor")} :
                                        t \in Threads})

\* hb_gcRefFree() and hb_gcCollectAll() touch no block that has been freed.
NoUseAfterFree ==
    \A t \in Threads : \A i \in DOMAIN frames[t] :
        frames[t][i].at # "gc" => frames[t][i].block \in Live

Dying == {b \in Blocks : \E t \in Threads : \E i \in DOMAIN frames[t] : frames[t][i].block = b}

\* A collection takes all the garbage there is: of the blocks that nothing
\* leads to only locked ones and those that are being destroyed stay.
CollectionIsComplete ==
    [][s_bCollecting' /\ ~s_bCollecting =>
         On("curr") \ (ReachableFrom(Seeds) \cup Dying) \subseteq {b \in Blocks : list'[b] = "deleted"}]_vars

-----------------------------------------------------------------------------
(***************************************************************************)
(* What makes the properties inductive.  The first two hold whatever the   *)
(* threads do; the rest is about a program with one thread, which never    *)
(* loses a block between two of its own steps.                             *)
(***************************************************************************)
Destroying == Places \ {"test"}
Destroyed(s, b) == \E i \in DOMAIN s : s[i].block = b /\ s[i].at \in Destroying

\* A block in use that the last collection did not mark is being destroyed.
UnmarkedAreDying == \A b \in On("curr") : used[b] # s_uUsedFlag => del[b]

\* A block with HB_GC_DELETE is on s_pDeletedBlock or in a clear function.
DeletedAreDying ==
    \A b \in On("curr") \cup On("locked") : del[b] => \E t \in Threads : Destroyed(frames[t], b)

OneThread == \E t \in Threads : program.threads = {t}

OthersAreIdle == \A t \in Threads \ program.threads : frames[t] = <<>>

\* Functions that wait for another one to return are a clear function or
\* hb_gcCollectAll(), and each works on another block.
StackOK(s) ==
    \A i \in DOMAIN s :
        /\ i > 1 => s[i].at \in {"dtor", "items", "gc"}
        /\ \A j \in DOMAIN s : s[i].block = s[j].block /\ "test" \notin {s[i].at, s[j].at} => i = j

\* What the functions on the stack know of their blocks.
DyingOK(s) ==
    \A i \in DOMAIN s : \A b \in Blocks : s[i].block = b =>
        /\ b \in Live
        /\ s[i].at \in Destroying => del[b] /\ b \notin toClear
        /\ s[i].at \in {"check", "keep", "free"} => items[b] = {} /\ list[b] # "deleted"
        /\ s[i].at \in {"test", "free"} => ref[b] = 0

\* s_pDeletedBlock is the list of the collection that runs, and what was being
\* destroyed before is not on it.
FinalOK(s) ==
    /\ \A b \in On("deleted") : del[b]
    /\ toClear \subseteq On("deleted")
    /\ s_bCollecting <=> \E i \in DOMAIN s : s[i].at = "gc"
    /\ ~s_bCollecting => On("deleted") = {}
    /\ \A i, j \in DOMAIN s : s[i].at = "gc" /\ i < j => s[j].block \notin On("deleted")

\* The references to b: in variables, in other blocks, and that of its destructor.
Holders(b) == {a \in Live : b \in items[a]}
InDestructor(s, b) == \E i \in DOMAIN s : s[i] = Frame(b, "dtor")
Refs(s, b) ==
    (IF b \in root THEN 1 ELSE 0) + Cardinality(Holders(b)) + (IF InDestructor(s, b) THEN 1 ELSE 0)

\* A destructor that keeps what is being destroyed can make a counter too large,
\* never too small.
Counted(s) ==
    \A b \in Live : Refs(s, b) <= ref[b] /\ (~kept => Refs(s, b) = ref[b])

NothingDangles(s) ==
    /\ root \subseteq Live /\ \A a \in Live : items[a] \subseteq Live
    /\ \A b \in Blocks : InDestructor(s, b) => b \in Live

\* What is not being destroyed refers to nothing that is, and a block that has
\* been cleared is empty.
DyingIsApart(s) ==
    ~kept =>
      /\ \A b \in root : ~del[b]
      /\ \A a \in Live : ~del[a] => \A b \in items[a] : ~del[b]
      /\ \A b \in On("deleted") \ toClear :
            items[b] = {} \/ Destroyed(s, b)

SequentialInv(s) ==
    StackOK(s) /\ DyingOK(s) /\ FinalOK(s) /\ Counted(s) /\ NothingDangles(s) /\ DyingIsApart(s)

GcInv ==
    /\ TypeOK /\ UnmarkedAreDying /\ OneThread /\ OthersAreIdle
    /\ \A t \in program.threads : SequentialInv(frames[t])
=============================================================================
