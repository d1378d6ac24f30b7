---------------------------- MODULE DetachedAreas ---------------------------
(***************************************************************************)
(* The workareas of each thread and their way from one thread to another   *)
(* (src/src/rdd/wacore.c).                                                 *)
(*                                                                         *)
(* A thread has a sorted list of its areas, a table from area numbers to   *)
(* places in the list, a current area and the area numbers of the aliases. *)
(* hb_dbDetach() takes an area out of them and puts it into one list for   *)
(* all threads; hb_dbRequest() takes one out of that list, or waits for    *)
(* one.  What a thread does to its own tables is one step; the list of     *)
(* detached areas is used under s_waMtx, in one step too.  The mutex is    *)
(* entered outside the VM (hb_threadEnterCriticalSectionGC), so that       *)
(* waiting for it does not hold up a collection.                           *)
(*                                                                         *)
(* A definition X_Y is a broken variant of X: it stands for a mistake the  *)
(* properties must notice and is no part of the specification.             *)
(***************************************************************************)
EXTENDS Integers, Sequences, FiniteSets, FiniteSetsExt, SequencesExt

CONSTANTS
    Threads,
    Main,       \* the main thread, which ends as the last one
    Areas,      \* the AREAs
    NULL,       \* no area, no alias
    Programs    \* see IsProgram

\* A program: its threads, the alias each area is opened with, HB_RDD_MAX_AREA_NUM,
\* and what it calls.
IsProgram(p) ==
    /\ Main \in p.threads /\ p.threads \subseteq Threads
    /\ \A a \in DOMAIN p.alias : a \in Areas /\ p.alias[a] # NULL
    /\ p.maxArea \in Nat \ {0, 1} /\ IsFiniteSet(p.calls)

ASSUME AreaAssumption ==
    /\ Main \in Threads /\ IsFiniteSet(Threads) /\ IsFiniteSet(Areas) /\ NULL \notin Areas
    /\ \A p \in Programs : IsProgram(p)

VARIABLES
    program,   \* the program, chosen in Init
    rdd,       \* HB_STACKRDD of each thread
    handle,    \* the area number of each alias in each thread
    uiArea,    \* the number an area knows of itself
    detached,  \* s_pDetachedAreas
    pc,        \* what each thread is doing
    quit,      \* threads that were asked to quit
    ended,     \* threads that ended
    dup        \* not in the code: threads that got an area whose alias they use

vars == <<program, rdd, handle, uiArea, detached, pc, quit, ended, dup>>

Aliases == {program.alias[a] : a \in DOMAIN program.alias}
Alias(a) == program.alias[a]
Numbers == 0 .. program.maxArea

NoAreas == [waList |-> <<>>, waNums |-> [n \in Numbers |-> 0], uiCurrArea |-> 1, pCurrArea |-> NULL]
Idle == [at |-> "idle"]
At(t, p) == pc[t].at = p

\* The type invariant.
TypeOK ==
    /\ program \in Programs
    /\ \A t \in program.threads :
          /\ rdd[t].waList \in Seq(Areas) /\ rdd[t].waNums \in [Numbers -> 0 .. Cardinality(Areas)]
          /\ rdd[t].uiCurrArea \in Numbers /\ rdd[t].pCurrArea \in Areas \cup {NULL}
    /\ handle \in [Threads -> [Aliases -> Numbers]]
    /\ uiArea \in [DOMAIN program.alias -> Numbers]
    /\ detached \in Seq(Areas)
    /\ \A t \in program.threads : pc[t].at \in {"idle", "push", "look", "wait", "attach", "shutDown"}
    /\ {quit, ended, dup} \subseteq SUBSET program.threads

Init ==
    /\ program \in Programs
    /\ rdd = [t \in Threads |-> NoAreas]
    /\ handle = [t \in Threads |-> [al \in Aliases |-> 0]]
    /\ uiArea = [a \in DOMAIN program.alias |-> 0]
    /\ detached = <<>>
    /\ pc = [t \in Threads |-> Idle]
    /\ quit = {} /\ ended = {} /\ dup = {}

-----------------------------------------------------------------------------
(* The tables of a thread, as functions of them.                           *)

\* HB_SET_WA()
Select(r, n) ==
    [r EXCEPT !.uiCurrArea = n, !.pCurrArea = IF r.waNums[n] = 0 THEN NULL ELSE r.waList[r.waNums[n]]]

\* waNums of the areas of a list
Renumber(nums, list, from) ==
    [n \in Numbers |-> IF \E i \in from .. Len(list) : uiArea[list[i]] = n
                       THEN CHOOSE i \in from .. Len(list) : uiArea[list[i]] = n
                       ELSE nums[n]]

NodeInsert_Last(r, a) ==
    [r EXCEPT !.waList = Append(r.waList, a),
              !.waNums = [r.waNums EXCEPT ![r.uiCurrArea] = Len(r.waList) + 1],
              !.pCurrArea = a]

\* hb_waNodeInsert(): areas with higher numbers move up by one place.
NodeInsert(r, a) ==
    LET pos == 1 + Max({0} \cup {i \in DOMAIN r.waList : uiArea[r.waList[i]] < r.uiCurrArea})
        list == InsertAt(r.waList, pos, a)
    IN  [r EXCEPT !.waList = list,
                  !.waNums = [Renumber(r.waNums, list, pos + 1) EXCEPT ![r.uiCurrArea] = pos],
                  !.pCurrArea = a]

\* hb_waNodeDelete(): the current area is taken out.
NodeDelete(r) ==
    LET pos == r.waNums[r.uiCurrArea]
        list == RemoveAt(r.waList, pos)
    IN  [r EXCEPT !.waList = list,
                  !.waNums = Renumber([r.waNums EXCEPT ![r.uiCurrArea] = 0], list, pos),
                  !.pCurrArea = NULL]

\* hb_rddSelectFirstAvailable()
FreeNumbers(r) == {n \in 1 .. program.maxArea - 1 : r.waNums[n] = 0}
SelectFirst(r) == Select(r, Min(FreeNumbers(r)))

\* hb_rddReleaseCurrentArea(), and what hb_waClose() does to the aliases
Released(r) == IF r.pCurrArea = NULL THEN r ELSE NodeDelete(r)
WithoutAlias(h, r) == IF r.pCurrArea = NULL THEN h ELSE [h EXCEPT ![Alias(r.pCurrArea)] = 0]

SetRdd(t, r) == rdd' = [rdd EXCEPT ![t] = r]
SetHandle(t, h) == handle' = [handle EXCEPT ![t] = h]
Number(a, n) == uiArea' = [uiArea EXCEPT ![a] = n]
Go(t, p) == pc' = [pc EXCEPT ![t] = p]

MayCall(t, c) == c \in program.calls /\ At(t, "idle") /\ t \notin ended \cup quit

OpenAreas == (UNION {ToSet(rdd[t].waList) : t \in program.threads}) \cup ToSet(detached)
             \cup {pc[t].area : t \in {u \in program.threads : At(u, "push") \/ At(u, "attach")}}

-----------------------------------------------------------------------------
(* Areas of one thread.                                                    *)

SelectArea(t, n) ==
    /\ MayCall(t, "select")
    /\ SetRdd(t, Select(rdd[t], n))
    /\ UNCHANGED <<handle, uiArea, detached, pc, quit, ended, dup>>

\* hb_rddOpenTable(), of a new area or of the current one.  If the alias is in
\* use in this thread, hb_waOpen() fails and the area is released again.
OpenTable(t, a, new) ==
    /\ MayCall(t, "use") /\ a \notin OpenAreas
    /\ new => FreeNumbers(rdd[t]) # {}
    /\ LET r == IF new THEN SelectFirst(rdd[t]) ELSE Released(rdd[t])
           h == IF new THEN handle[t] ELSE WithoutAlias(handle[t], rdd[t])
       IN  \/ /\ h[Alias(a)] = 0
              /\ SetRdd(t, NodeInsert(r, a))
              /\ Number(a, r.uiCurrArea)
              /\ SetHandle(t, [h EXCEPT ![Alias(a)] = r.uiCurrArea])
           \/ /\ h[Alias(a)] # 0
              /\ SetRdd(t, r) /\ SetHandle(t, h)
              /\ UNCHANGED uiArea
    /\ UNCHANGED <<detached, pc, quit, ended, dup>>

CloseArea(t) ==
    /\ MayCall(t, "close")
    /\ SetRdd(t, Released(rdd[t])) /\ SetHandle(t, WithoutAlias(handle[t], rdd[t]))
    /\ UNCHANGED <<uiArea, detached, pc, quit, ended, dup>>

\* hb_rddCloseAll(): all aliases of the areas are cleared.
CloseAll(t) ==
    /\ rdd[t].waList # <<>> => SetRdd(t, NoAreas)
    /\ rdd[t].waList = <<>> => UNCHANGED rdd
    /\ SetHandle(t, [al \in Aliases |->
          IF \E i \in DOMAIN rdd[t].waList : Alias(rdd[t].waList[i]) = al THEN 0 ELSE handle[t][al]])

\* The end of a thread, hb_vmThreadQuit(), and below that of the program,
\* hb_vmQuit(), which comes after all threads have ended.
ThreadQuit(t) ==
    /\ t # Main /\ At(t, "idle") /\ t \in quit \ ended
    /\ CloseAll(t)
    /\ ended' = ended \cup {t}
    /\ UNCHANGED <<uiArea, detached, pc, quit, dup>>

\* hb_vmDoExitFunctions(): the EXIT procedures run although the main thread was
\* asked to quit.  They are not told apart from the rest of the program.
ExitFunctions ==
    /\ At(Main, "idle") /\ Main \in quit \ ended /\ ended = program.threads \ {Main}
    /\ quit' = quit \ {Main}
    /\ UNCHANGED <<rdd, handle, uiArea, detached, pc, ended, dup>>

VmQuit ==
    /\ At(Main, "idle") /\ Main \notin ended /\ ended = program.threads \ {Main}
    /\ CloseAll(Main)
    /\ Go(Main, [at |-> "shutDown", areas |-> detached]) /\ detached' = <<>>
    /\ UNCHANGED <<uiArea, quit, ended, dup>>

\* hb_rddCloseDetachedAreas(): hb_waHolderDestructor() for each area
CloseDetached ==
    /\ At(Main, "shutDown")
    /\ \/ /\ pc[Main].areas # <<>>
          /\ LET a == Head(pc[Main].areas)
                 iArea == rdd[Main].uiCurrArea
                 free == FreeNumbers(rdd[Main])
                 r == IF free # {} THEN SelectFirst(rdd[Main]) ELSE Select(rdd[Main], program.maxArea)
                 in == NodeInsert(r, a)
             IN  /\ SetRdd(Main, Select(Released(in), iArea))
                 /\ SetHandle(Main, WithoutAlias(handle[Main], in))
          /\ Go(Main, [pc[Main] EXCEPT !.areas = Tail(@)])
          /\ UNCHANGED ended
       \/ /\ pc[Main].areas = <<>>
          /\ Go(Main, Idle) /\ ended' = ended \cup {Main}
          /\ UNCHANGED <<rdd, handle>>
    /\ UNCHANGED <<uiArea, detached, quit, dup>>

-----------------------------------------------------------------------------
(* hb_rddDetachArea()                                                      *)

DetachArea(t, a) ==
    /\ MayCall(t, "detach") /\ a \in ToSet(rdd[t].waList)
    /\ SetRdd(t, Select(NodeDelete(Select(rdd[t], uiArea[a])), rdd[t].uiCurrArea))
    /\ Number(a, 0)
    /\ SetHandle(t, [handle[t] EXCEPT ![Alias(a)] = 0])
    /\ Go(t, [at |-> "push", area |-> a])
    /\ UNCHANGED <<detached, quit, ended, dup>>

DetachPush_FirstOnly(t) ==
    /\ At(t, "push")
    /\ detached' = Append(detached, pc[t].area)
    /\ pc' = [u \in Threads |->
          CASE u = t -> Idle
            [] At(u, "wait") -> [pc[u] EXCEPT !.woken = @ \/ detached = <<>>]
            [] OTHER -> pc[u]]
    /\ UNCHANGED <<rdd, handle, uiArea, quit, ended, dup>>

\* The area is put into the list and s_waCond is broadcast.
DetachPush(t) ==
    /\ At(t, "push")
    /\ detached' = Append(detached, pc[t].area)
    /\ pc' = [u \in Threads |-> CASE u = t -> Idle
                                          [] At(u, "wait") -> [pc[u] EXCEPT !.woken = TRUE]
                                          [] OTHER -> pc[u]]
    /\ UNCHANGED <<rdd, handle, uiArea, quit, ended, dup>>

-----------------------------------------------------------------------------
(* hb_rddRequestArea()                                                     *)

Matches(al) == {i \in DOMAIN detached : al \in {NULL, Alias(detached[i])}}

\* The alias may be NULL.  "wait" tells how long to wait: "no", "timed", "forever".
RequestArea(t, al, new, wait) ==
    /\ MayCall(t, "request")
    /\ new => FreeNumbers(rdd[t]) # {}
    /\ LET r == IF new THEN SelectFirst(rdd[t]) ELSE Released(rdd[t])
           h == IF new THEN handle[t] ELSE WithoutAlias(handle[t], rdd[t])
       IN  /\ SetRdd(t, r) /\ SetHandle(t, h)
           /\ \/ /\ al \in Aliases /\ h[al] # 0
                 /\ UNCHANGED pc
              \/ /\ al \in Aliases => h[al] = 0
                 /\ Go(t, [at |-> "look", alias |-> al, wait |-> wait])
    /\ UNCHANGED <<uiArea, detached, quit, ended, dup>>

RequestLook_Keeps(t) ==
    LET match == Matches(pc[t].alias)
    IN  /\ At(t, "look") /\ match # {}
        /\ Go(t, [at |-> "attach", area |-> detached[Min(match)]])
        /\ UNCHANGED <<rdd, handle, uiArea, detached, quit, ended, dup>>

\* The search, and the wait if nothing was found.
RequestLook(t) ==
    LET match == Matches(pc[t].alias)
    IN  /\ At(t, "look")
        /\ \/ /\ match # {}
              /\ detached' = RemoveAt(detached, Min(match))
              /\ Go(t, [at |-> "attach", area |-> detached[Min(match)]])
           \/ /\ match = {} /\ pc[t].wait = "no"
              /\ Go(t, Idle) /\ UNCHANGED detached
           \/ /\ match = {} /\ pc[t].wait # "no"
              /\ Go(t, [at |-> "wait", alias |-> pc[t].alias, wait |-> pc[t].wait, woken |-> FALSE])
              /\ UNCHANGED detached
        /\ UNCHANGED <<rdd, handle, uiArea, quit, ended, dup>>

RequestWake_NoTimeout(t) ==
    /\ At(t, "wait") /\ pc[t].woken
    /\ Go(t, IF t \in quit THEN Idle
             ELSE [at |-> "look", alias |-> pc[t].alias, wait |-> pc[t].wait])
    /\ UNCHANGED <<rdd, handle, uiArea, detached, quit, ended, dup>>

\* "if( ulMilliSec == 0 || hb_vmRequestQuery() != 0 ) break": after a timeout the
\* list is not searched again.
RequestWake(t) ==
    /\ At(t, "wait")
    /\ \/ /\ pc[t].woken /\ t \notin quit
          /\ Go(t, [at |-> "look", alias |-> pc[t].alias, wait |-> pc[t].wait])
       \/ /\ (pc[t].woken /\ t \in quit) \/ pc[t].wait = "timed"
          /\ Go(t, Idle)
    /\ UNCHANGED <<rdd, handle, uiArea, detached, quit, ended, dup>>

\* "attach WA and set alias"
RequestAttach(t) ==
    /\ At(t, "attach")
    /\ LET a == pc[t].area
           n == rdd[t].uiCurrArea
           unused == handle[t][Alias(a)] = 0
       IN  /\ SetRdd(t, NodeInsert(rdd[t], a)) /\ Number(a, n)
           /\ SetHandle(t, IF unused THEN [handle[t] EXCEPT ![Alias(a)] = n] ELSE handle[t])
           /\ dup' = IF unused THEN dup ELSE dup \cup {t}
    /\ Go(t, Idle)
    /\ UNCHANGED <<detached, quit, ended>>

\* A condition variable may wake a thread without a reason.
Spurious(t) ==
    /\ At(t, "wait") /\ ~pc[t].woken /\ Go(t, [pc[t] EXCEPT !.woken = TRUE])
    /\ UNCHANGED <<rdd, handle, uiArea, detached, quit, ended, dup>>

\* hb_threadQuitRequest(), also for the main thread, or hb_vmTerminateThreads();
\* neither signals s_waCond.
QuitRequest(t) ==
    /\ "quit" \in program.calls /\ t \notin quit \cup ended
    /\ quit' = quit \cup {t}
    /\ UNCHANGED <<rdd, handle, uiArea, detached, pc, ended, dup>>

-----------------------------------------------------------------------------
\* What a thread does without being told to.
Step(t) == DetachPush(t) \/ RequestLook(t) \/ RequestWake(t) \/ RequestAttach(t) \/ ThreadQuit(t)

Call(t) ==
    \/ CloseArea(t) \/ QuitRequest(t) \/ Spurious(t)
    \/ \E n \in 1 .. program.maxArea - 1 : SelectArea(t, n)
    \/ \E a \in DOMAIN program.alias : DetachArea(t, a) \/ \E new \in BOOLEAN : OpenTable(t, a, new)
    \/ \E al \in Aliases \cup {NULL}, new \in BOOLEAN, wait \in {"no", "timed", "forever"} :
          RequestArea(t, al, new, wait)

Next ==
    /\ \/ \E t \in program.threads : Step(t) \/ Call(t)
       \/ ExitFunctions \/ VmQuit \/ CloseDetached
    /\ UNCHANGED program

Spec == Init /\ [][Next]_vars

\* Threads run.
FairSpec == Spec /\ \A t \in Threads : WF_vars(t \in program.threads /\ Step(t) /\ UNCHANGED program)

-----------------------------------------------------------------------------
(* Properties.                                                             *)

\* An open area is in one place only: in the list of one thread, on its way, or
\* detached.  So two threads never work with one area.
AreaInOnePlace ==
    LET moving(t) == IF At(t, "push") \/ At(t, "attach") THEN <<pc[t].area>> ELSE <<>>
        of(t) == rdd[t].waList \o moving(t)
    IN  /\ \A t \in Threads : IsInjective(of(t) \o detached)
        /\ \A t, u \in Threads : t # u => ToSet(of(t)) \cap ToSet(of(u)) = {}

\* At the end of the program no area is left open.
NothingLeft == Main \in ended => OpenAreas = {}

\* Every open area has one owner until it is closed, and is closed in the end.
AreasAreOwned == AreaInOnePlace /\ NothingLeft

\* The list is sorted by the numbers of the areas, the table of numbers is its
\* inverse, and the current area is the one with the current number.
TablesAgree ==
    \A t \in program.threads :
        LET r == rdd[t]
        IN  /\ \A i, j \in DOMAIN r.waList : i < j => uiArea[r.waList[i]] < uiArea[r.waList[j]]
            /\ \A n \in Numbers : r.waNums[n] = IF \E i \in DOMAIN r.waList : uiArea[r.waList[i]] = n
                                                THEN CHOOSE i \in DOMAIN r.waList : uiArea[r.waList[i]] = n
                                                ELSE 0
            /\ r.pCurrArea = Select(r, r.uiCurrArea).pCurrArea

\* An alias leads to the area that has it, in the thread that has the area, unless
\* the thread once got an area with an alias it already used.
AliasFindsArea ==
    \A t \in program.threads \ dup : \A al \in Aliases :
        {n \in {handle[t][al]} : n # 0}
            = {uiArea[a] : a \in {b \in ToSet(rdd[t].waList) : Alias(b) = al}}

\* Lists, numbers and aliases of a thread describe the same areas.
TablesAndAliasesAgree == TypeOK /\ TablesAgree /\ AliasFindsArea

\* No wake-up is lost: a thread sleeps only while no area it could take is there.
NoStrandedRequest ==
    \A t \in program.threads : At(t, "wait") /\ ~pc[t].woken => Matches(pc[t].alias) = {}

(***************************************************************************)
(* What makes these invariants inductive.                                  *)
(***************************************************************************)
Tables == DOMAIN program.alias

\* The state in full, also of the threads the program does not have.
RddStates ==
    [waList : Seq(Tables), waNums : [Numbers -> Nat], uiCurrArea : 1 .. program.maxArea,
     pCurrArea : Tables \cup {NULL}]
Places ==
    {Idle} \cup [at : {"push", "attach"}, area : Tables]
    \cup [at : {"look"}, alias : Aliases \cup {NULL}, wait : {"no", "timed", "forever"}]
    \cup [at : {"wait"}, alias : Aliases \cup {NULL}, wait : {"no", "timed", "forever"},
          woken : BOOLEAN]
    \cup [at : {"shutDown"}, areas : Seq(Tables)]

StatesKnown ==
    /\ rdd \in [Threads -> RddStates] /\ pc \in [Threads -> Places] /\ detached \in Seq(Tables)
    /\ \A t \in Threads \ program.threads : pc[t] = Idle /\ rdd[t].waList = <<>>

\* hb_rddRequestArea() attaches the area to a number that it has made free before
\* it looked for the area.
NumberIsFree ==
    \A t \in Threads : pc[t].at \in {"look", "wait", "attach"} => rdd[t].pCurrArea = NULL

\* A number is that of an area in a list if it is not zero.
ListedHaveNumbers ==
    \A t \in program.threads : \A i \in DOMAIN rdd[t].waList : uiArea[rdd[t].waList[i]] # 0

\* Threads that ended have nothing, and the main thread ends as the last one.
EndedHaveNothing ==
    /\ \A t \in ended : pc[t] = Idle /\ rdd[t].waList = <<>>
    /\ \A t \in Threads : At(t, "shutDown") => t = Main
    /\ At(Main, "shutDown") => ended = program.threads \ {Main} /\ rdd[Main].waList = <<>>
    /\ At(Main, "shutDown") \/ Main \in ended => detached = <<>>
    /\ Main \in ended => ended = program.threads

AreaInv ==
    /\ TablesAndAliasesAgree /\ StatesKnown /\ ListedHaveNumbers /\ NumberIsFree
    /\ AreaInOnePlace /\ EndedHaveNothing /\ NoStrandedRequest

\* A thread that was asked to quit ends, except one that sleeps in hb_dbRequest()
\* without a timeout: nobody wakes it.
QuitEndsThread ==
    \A t \in Threads \ {Main} :
        t \in quit ~> (t \in ended \/ (At(t, "wait") /\ pc[t].wait = "forever"))
=============================================================================
