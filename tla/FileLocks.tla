----------------------------- MODULE FileLocks ------------------------------
(***************************************************************************)
(* One file opened more than once by a process (src/src/rtl/filebuf.c).    *)
(*                                                                         *)
(* fcntl() locks belong to the process, and closing any handle of a file   *)
(* drops all of them.  So the handles of a file share one HB_FILE, which   *)
(* has the list of the ranges locked by this process, sorted, with ranges  *)
(* that touch joined; and a handle of the operating system is closed only  *)
(* when the list is empty.                                                 *)
(*                                                                         *)
(* Clients are the threads that opened the file.  s_fileMtx protects the   *)
(* open files; what is done under s_lockMtx, the list, is one step.  The   *)
(* other process locks ranges too.  Offsets are signed numbers of Limit    *)
(* values on each side of zero, and sums wrap (HB_FOFFSET).                *)
(*                                                                         *)
(* A definition X_Y is a broken variant of X: it stands for a mistake the  *)
(* properties must notice and is no part of the specification.             *)
(***************************************************************************)
EXTENDS Integers, Sequences, FiniteSets, SequencesExt

CONSTANTS
    Clients,
    Nobody,       \* s_fileMtx is free
    Limit,        \* the number of offsets that are not negative
    Programs      \* what is done with the file, see IsProgram

NULL == [used |-> 0]

\* FO_READ, FO_WRITE, FO_READWRITE, as what they allow
FO_READ == {"read"}
FO_WRITE == {"write"}
FO_READWRITE == {"read", "write"}
Modes == {FO_READ, FO_WRITE, FO_READWRITE}

\* A program: the ranges its threads and the other process lock, which are such
\* that fcntl() accepts them, how the file is opened, and how often it may come to
\* its name, by a rename, only while it is opened.
IsProgram(p) ==
    /\ p.ranges \cup p.foreign \subseteq [start : 0 .. Limit - 1, len : 1 .. Limit - 1]
    /\ \A r \in p.ranges \cup p.foreign : r.start + r.len <= Limit
    /\ p.openings \subseteq [mode : Modes, shared : BOOLEAN]
    /\ p.misses \in Nat

ASSUME FileAssumption ==
    /\ IsFiniteSet(Clients) /\ Nobody \notin Clients
    /\ Limit \in Nat \ {0, 1}
    /\ \A p \in Programs : IsProgram(p)

VARIABLES
    program,  \* the program, chosen in Init
    file,     \* the HB_FILE, NULL if the file is not open
    fileMtx,  \* the client that has s_fileMtx
    opened,   \* how each client opened the file; the mode {} if it did not
    held,     \* the ranges each client was told that it has locked
    pc,       \* what each client is doing
    osLocks,  \* bytes this process has locked: "R", "W" or "no"
    foreign,  \* bytes the other process has locked
    \* the rest is not in the code
    orphans,  \* ranges that were held by handles that have been closed
    dropped,  \* closing a handle took away locks that were in use
    mixed,    \* opened for reading only, and then for writing only, or vice versa
    misses

vars == <<program, file, fileMtx, opened, held, pc, osLocks, foreign, orphans, dropped, mixed, misses>>

Offsets == 0 .. Limit - 1

-----------------------------------------------------------------------------
(* The list of ranges.                                                     *)

Wrap(n) == ((n + Limit) % (2 * Limit)) - Limit

FLock(s, l) == [start |-> s, len |-> l]
End(r) == Wrap(r.start + r.len)

BytesOf(r) == r.start .. (IF End(r) <= 0 THEN Limit ELSE End(r)) - 1
BytesIn(list) == UNION {BytesOf(list[i]) : i \in DOMAIN list}

\* The binary search; positions count from 0, as in the code.
FindOffset(list, offset) ==
    LET search[p \in (0 .. Len(list)) \X (0 .. Len(list))] ==
            LET mid == (p[1] + p[2]) \div 2
                end == End(list[mid + 1])
            IN  CASE p[1] >= p[2] -> mid
                  [] p[1] < p[2] /\ end > 0 /\ end <= offset -> search[<<mid + 1, p[2]>>]
                  [] OTHER -> search[<<p[1], mid>>]
    IN  search[<<0, Len(list)>>]

\* hb_fileTestLock()
TestLock(list, r) ==
    LET pos == FindOffset(list, r.start)
    IN  pos < Len(list) /\ (End(r) <= 0 \/ End(r) > list[pos + 1].start)

\* hb_fileSetLock() of a range that is free
SetLock(list, r) ==
    LET pos == FindOffset(list, r.start)
        left == pos > 0 /\ End(list[pos]) = r.start
        right == pos < Len(list) /\ End(r) = list[pos + 1].start
    IN  CASE left /\ right ->
                RemoveAt([list EXCEPT ![pos].len = Wrap(@ + r.len + list[pos + 1].len)], pos + 1)
          [] left /\ ~right -> [list EXCEPT ![pos].len = Wrap(@ + r.len)]
          [] ~left /\ right -> [list EXCEPT ![pos + 1] = FLock(@.start - r.len, Wrap(@.len + r.len))]
          [] OTHER -> InsertAt(list, pos + 1, r)

CanUnlock_Strict(list, r) ==
    LET pos == FindOffset(list, r.start)
        e == list[pos + 1]
    IN  pos < Len(list) /\ r.start >= e.start /\ e.len > r.len /\ r.start - e.start <= e.len - r.len

\* hb_fileUnlock(): whether the range is in the list, and the list without it
CanUnlock(list, r) ==
    LET pos == FindOffset(list, r.start)
        e == list[pos + 1]
    IN  pos < Len(list) /\ r.start >= e.start /\ e.len >= r.len /\ r.start - e.start <= e.len - r.len

Unlock_Whole(list, r) == RemoveAt(list, FindOffset(list, r.start) + 1)

Unlock(list, r) ==
    LET pos == FindOffset(list, r.start)
        e == list[pos + 1]
        before == <<FLock(e.start, r.start - e.start)>>
        after == <<FLock(Wrap(r.start + r.len), Wrap(e.start + e.len - r.start - r.len))>>
    IN  CASE r.start = e.start /\ r.len = e.len -> RemoveAt(list, pos + 1)
          [] r.start = e.start /\ r.len # e.len -> ReplaceAt(list, pos + 1, after[1])
          [] r.start # e.start /\ End(r) = End(e) -> ReplaceAt(list, pos + 1, before[1])
          [] OTHER -> SubSeq(list, 1, pos) \o before \o after \o SubSeq(list, pos + 2, Len(list))

-----------------------------------------------------------------------------
(* State.                                                                  *)

\* Where a client is: idle, opening the file, locking or unlocking a range.
Idle == [at |-> "idle"]
At(c, p) == pc[c].at = p
Busy == {"lockOs", "lockUndo", "unlockOs", "unlockList"}
Opens == {"openNew", "openTest", "openClose"}

NotOpen == [mode |-> {}, shared |-> TRUE]
IsOpen(c) == opened[c] # NotOpen

Openings == [mode : Modes, shared : BOOLEAN]
Entries == [start : Offsets, len : -Limit .. Limit - 1]

Places ==
    {Idle} \cup [at : {"lockOs", "lockUndo"}, range : program.ranges, wait : BOOLEAN]
    \cup [at : {"unlockOs", "unlockList"}, range : program.ranges]
    \cup [at : {"openNew"}, open : Openings, mode : Modes]
    \cup [at : {"openTest"}, open : Openings, ok : BOOLEAN, hFile : Modes \cup {{}}]
    \cup [at : {"openClose"}, open : Openings, ok : BOOLEAN, seen : Seq(Entries)]

\* hFile and hFileRO are what the handles allow; hFileRO is {} for FS_ERROR.
Files ==
    [used : 1 .. Cardinality(Clients), mode : Modes, shared : BOOLEAN,
     hFile : Modes, hFileRO : Modes \cup {{}}, locks : Seq(Entries)]

\* The type invariant.
TypeOK ==
    /\ program \in Programs
    /\ file \in Files \cup {NULL}
    /\ fileMtx \in Clients \cup {Nobody}
    /\ opened \in [Clients -> Openings \cup {NotOpen}]
    /\ held \in [Clients -> SUBSET program.ranges]
    /\ pc \in [Clients -> Places]
    /\ osLocks \in [Offsets -> {"no", "R", "W"}] /\ foreign \in SUBSET Offsets
    /\ orphans \in SUBSET program.ranges /\ dropped \in BOOLEAN /\ mixed \in BOOLEAN /\ misses \in 0 .. program.misses

Init ==
    /\ program \in Programs
    /\ file = NULL /\ fileMtx = Nobody
    /\ opened = [c \in Clients |-> NotOpen]
    /\ held = [c \in Clients |-> {}]
    /\ pc = [c \in Clients |-> Idle]
    /\ osLocks = [b \in Offsets |-> "no"] /\ foreign = {}
    /\ orphans = {} /\ dropped = FALSE /\ mixed = FALSE /\ misses = 0

Go(c, p) == pc' = [pc EXCEPT ![c] = p]

-----------------------------------------------------------------------------
(* s_fileExtOpen(), under s_fileMtx                                        *)

ReturnOpened(c, o) ==
    /\ opened' = [opened EXCEPT ![c] = o] /\ fileMtx' = Nobody /\ Go(c, Idle)

\* The handles that are closed, and whether a client loses locks by it.
CloseHandles ==
    /\ osLocks' = [b \in Offsets |-> "no"]
    /\ dropped' = (dropped \/ \E b \in Offsets : osLocks[b] # "no")

\* hb_fileFind() does not find a file that comes to its name only afterwards.
OpenFind(c) ==
    /\ At(c, "idle") /\ ~IsOpen(c) /\ fileMtx = Nobody
    /\ \E o \in program.openings, miss \in BOOLEAN :
        /\ misses' = misses + (IF miss THEN 1 ELSE 0)
        /\ miss => file # NULL /\ misses < program.misses
        /\ LET found == file # NULL /\ ~miss
               share == found /\ o.shared /\ file.shared
               open(mode) == [at |-> "openNew", open |-> o, mode |-> mode]
           IN  \/ /\ ~found
                  /\ fileMtx' = c /\ Go(c, open(o.mode)) /\ UNCHANGED <<file, opened>>
               \/ /\ share /\ file.mode \notin {FO_READWRITE, o.mode}
                  /\ fileMtx' = c /\ Go(c, open(FO_READWRITE))
                  /\ UNCHANGED <<file, opened>>
               \/ /\ share /\ file.mode \in {FO_READWRITE, o.mode}
                  /\ file' = [file EXCEPT !.used = @ + 1]
                  /\ ReturnOpened(c, o)
    /\ UNCHANGED <<held, osLocks, foreign, orphans, dropped, mixed>>

\* hb_fsExtOpen(), which may fail, hb_fileNew() and what becomes of the two handles.
\* hFile is the handle that is not kept in the HB_FILE, {} for FS_ERROR.
OpenNew(c) ==
    /\ At(c, "openNew")
    /\ LET o == pc[c].open
           swap == file.mode # FO_READWRITE /\ pc[c].mode = FO_READWRITE
           f == IF ~swap THEN [file EXCEPT !.used = @ + 1]
                ELSE [file EXCEPT !.used = @ + 1, !.mode = FO_READWRITE,
                                  !.hFile = o.mode, !.hFileRO = file.hFile]
           hFile == IF swap THEN file.hFileRO ELSE o.mode
           fResult == o.shared /\ f.shared /\ f.mode = FO_READWRITE
           keep == ~fResult /\ f.hFileRO = {} /\ f.locks # <<>>
       IN  \/ ReturnOpened(c, NotOpen) /\ UNCHANGED <<file, mixed>>
           \/ /\ file = NULL
              /\ file' = [used |-> 1, mode |-> pc[c].mode, shared |-> o.shared,
                          hFile |-> o.mode, hFileRO |-> {}, locks |-> <<>>]
              /\ ReturnOpened(c, o) /\ UNCHANGED mixed
           \/ /\ file # NULL
              /\ file' = IF keep THEN [f EXCEPT !.hFileRO = hFile] ELSE f
              /\ Go(c, [at |-> "openTest", open |-> o, ok |-> fResult,
                        hFile |-> IF keep THEN {} ELSE hFile])
              /\ mixed' = (mixed \/ (swap /\ o.mode # FO_READWRITE))
              /\ UNCHANGED <<opened, fileMtx>>
    /\ UNCHANGED <<held, osLocks, foreign, orphans, dropped, misses>>

\* "if( ! fResult )": --pFile->used
OpenResult(c, f) ==
    /\ file' = IF pc[c].ok THEN f ELSE [f EXCEPT !.used = @ - 1]
    /\ ReturnOpened(c, IF pc[c].ok THEN pc[c].open ELSE NotOpen)

\* "seen" is the list at the test.
GoClose(c) ==
    Go(c, [at |-> "openClose", open |-> pc[c].open, ok |-> pc[c].ok, seen |-> file.locks])

OpenTest_Closes(c) ==
    /\ At(c, "openTest")
    /\ GoClose(c)
    /\ UNCHANGED <<file, fileMtx, opened, held, osLocks, foreign, orphans, dropped, mixed, misses>>

\* "if( pFile->uiLocks == 0 )", a test made without s_lockMtx
OpenTest(c) ==
    /\ At(c, "openTest")
    /\ \/ /\ file.locks = <<>> \/ (~pc[c].ok /\ pc[c].hFile # {})
          /\ GoClose(c)
          /\ UNCHANGED <<file, fileMtx, opened>>
       \/ /\ file.locks # <<>> /\ (pc[c].ok \/ pc[c].hFile = {})
          /\ OpenResult(c, file)
    /\ UNCHANGED <<held, osLocks, foreign, orphans, dropped, mixed, misses>>

OpenClose(c) ==
    /\ At(c, "openClose")
    /\ CloseHandles
    /\ OpenResult(c, IF pc[c].seen = <<>> THEN [file EXCEPT !.hFileRO = {}] ELSE file)
    /\ UNCHANGED <<held, foreign, orphans, mixed, misses>>

\* s_fileClose()
Close(c) ==
    /\ At(c, "idle") /\ IsOpen(c) /\ fileMtx = Nobody
    /\ opened' = [opened EXCEPT ![c] = NotOpen]
    /\ held' = [held EXCEPT ![c] = {}]
    /\ \/ /\ file.used = 1
          /\ file' = NULL /\ orphans' = {} /\ mixed' = FALSE
          /\ osLocks' = [b \in Offsets |-> "no"]
       \/ /\ file.used > 1
          /\ file' = [file EXCEPT !.used = @ - 1] /\ orphans' = orphans \cup held[c]
          /\ UNCHANGED <<osLocks, mixed>>
    /\ UNCHANGED <<fileMtx, pc, foreign, dropped, misses>>

-----------------------------------------------------------------------------
(* s_fileLock()                                                            *)

\* With "wait", FLX_WAIT is set and fcntl() waits for the other process.
Lock(c, r, wait) ==
    /\ At(c, "idle") /\ IsOpen(c)
    /\ ~TestLock(file.locks, r)
    /\ file' = [file EXCEPT !.locks = SetLock(@, r)]
    /\ \/ /\ file.shared
          /\ Go(c, [at |-> "lockOs", range |-> r, wait |-> wait])
          /\ UNCHANGED held
       \/ /\ ~file.shared
          /\ held' = [held EXCEPT ![c] = @ \cup {r}]
          /\ UNCHANGED pc
    /\ UNCHANGED <<fileMtx, opened, osLocks, foreign, orphans, dropped, mixed, misses>>

\* hb_fsLockLarge() with FL_LOCK: the lock needs a handle that allows it.
LockOs(c) ==
    /\ At(c, "lockOs")
    /\ LET bytes == BytesOf(pc[c].range)
           type == IF file.mode = FO_READ THEN "R" ELSE "W"
           allowed == (IF type = "R" THEN "read" ELSE "write") \in file.hFile
           free == bytes \cap foreign = {}
       IN  \/ /\ allowed /\ free
              /\ osLocks' = [b \in Offsets |-> IF b \in bytes THEN type ELSE osLocks[b]]
              /\ held' = [held EXCEPT ![c] = @ \cup {pc[c].range}]
              /\ Go(c, Idle)
           \/ /\ ~allowed \/ (~free /\ ~pc[c].wait)
              /\ Go(c, [pc[c] EXCEPT !.at = "lockUndo"])
              /\ UNCHANGED <<osLocks, held>>
    /\ UNCHANGED <<file, fileMtx, opened, foreign, orphans, dropped, mixed, misses>>

\* hb_fileUnlock() with pfLockFS = NULL
ListUnlock(r) ==
    file' = IF CanUnlock(file.locks, r) THEN [file EXCEPT !.locks = Unlock(@, r)] ELSE file

LockUndo(c) ==
    /\ At(c, "lockUndo")
    /\ ListUnlock(pc[c].range)
    /\ Go(c, Idle)
    /\ UNCHANGED <<fileMtx, opened, held, osLocks, foreign, orphans, dropped, mixed, misses>>

UnlockFile_ListFirst(c, r) ==
    /\ At(c, "idle") /\ r \in held[c] /\ CanUnlock(file.locks, r)
    /\ held' = [held EXCEPT ![c] = @ \ {r}]
    /\ ListUnlock(r)
    /\ IF file.shared THEN Go(c, [at |-> "unlockOs", range |-> r]) ELSE UNCHANGED pc
    /\ UNCHANGED <<fileMtx, opened, osLocks, foreign, orphans, dropped, mixed, misses>>

\* s_fileLock() with FL_UNLOCK: the range stays in the list until the system
\* has unlocked it.
UnlockFile(c, r) ==
    /\ At(c, "idle") /\ r \in held[c] /\ CanUnlock(file.locks, r)
    /\ held' = [held EXCEPT ![c] = @ \ {r}]
    /\ \/ /\ file.shared
          /\ Go(c, [at |-> "unlockOs", range |-> r])
          /\ UNCHANGED file
       \/ /\ ~file.shared
          /\ ListUnlock(r)
          /\ UNCHANGED pc
    /\ UNCHANGED <<fileMtx, opened, osLocks, foreign, orphans, dropped, mixed, misses>>

UnlockOs(c) ==
    /\ At(c, "unlockOs")
    /\ osLocks' = [b \in Offsets |-> IF b \in BytesOf(pc[c].range) THEN "no" ELSE osLocks[b]]
    /\ Go(c, [pc[c] EXCEPT !.at = "unlockList"])
    /\ UNCHANGED <<file, fileMtx, opened, held, foreign, orphans, dropped, mixed, misses>>

UnlockList(c) ==
    /\ At(c, "unlockList")
    /\ ListUnlock(pc[c].range)
    /\ Go(c, Idle)
    /\ UNCHANGED <<fileMtx, opened, held, osLocks, foreign, orphans, dropped, mixed, misses>>

-----------------------------------------------------------------------------
(* The other process.                                                      *)

ForeignLock(r) ==
    /\ \A b \in BytesOf(r) : osLocks[b] = "no" /\ b \notin foreign
    /\ foreign' = foreign \cup BytesOf(r)
    /\ UNCHANGED <<file, fileMtx, opened, held, pc, osLocks, orphans, dropped, mixed, misses>>

ForeignUnlock ==
    /\ foreign # {} /\ foreign' = {}
    /\ UNCHANGED <<file, fileMtx, opened, held, pc, osLocks, orphans, dropped, mixed, misses>>

ClientNext(c) ==
    \/ OpenFind(c) \/ OpenNew(c) \/ OpenTest(c) \/ OpenClose(c) \/ Close(c)
    \/ LockOs(c) \/ LockUndo(c) \/ UnlockOs(c) \/ UnlockList(c)
    \/ \E r \in program.ranges : UnlockFile(c, r) \/ \E wait \in BOOLEAN : Lock(c, r, wait)

Next ==
    /\ \/ \E c \in Clients : ClientNext(c)
       \/ \E r \in program.foreign : ForeignLock(r)
       \/ ForeignUnlock
    /\ UNCHANGED program

Spec == Init /\ [][Next]_vars

-----------------------------------------------------------------------------
(* Properties.                                                             *)

\* Ranges that have to be in the list.
Used(c) == held[c] \cup (IF pc[c].at \in Busy THEN {pc[c].range} ELSE {})
AllUsed == orphans \cup UNION {Used(c) : c \in Clients}

\* The one entry whose length is not a number any more, that of a file of which
\* every byte is locked: hb_fileUnlock() cannot take anything out of it again.
Overflowed == file # NULL /\ \E i \in DOMAIN file.locks : file.locks[i].len <= 0

\* The list has the bytes of the ranges in use, exactly, in order, and two
\* entries neither overlap nor touch: no sequence of locking and unlocking
\* forgets a part of a range, or keeps one unless the list overflowed.
ListExact ==
    file # NULL =>
        LET list == file.locks
            inUse == UNION {BytesOf(r) : r \in AllUsed}
        IN  /\ BytesIn(list) = IF Overflowed THEN Offsets ELSE inUse
            /\ \A i, j \in DOMAIN list : i < j =>
                  End(list[i]) > 0 /\ End(list[i]) < list[j].start

\* Every range, also one that goes to the end, is found to be locked if and only
\* if one of its bytes is.
TestAgrees ==
    file # NULL =>
        \A r \in program.ranges : TestLock(file.locks, r) <=> BytesOf(r) \cap BytesIn(file.locks) # {}

\* The list stands for the set of locked bytes.
ListIsASet == TypeOK /\ ListExact /\ TestAgrees

\* Who locked a range can unlock it, unless the list overflowed.  It does so only
\* by a lock that leaves no byte free.
HeldCanBeUnlocked ==
    \A c \in Clients : \A r \in held[c] :
        CanUnlock(file.locks, r) \/ (Overflowed /\ BytesIn(file.locks) = Offsets)

\* A byte is locked by one client, and not by the other process too, unless a
\* handle was closed while another thread took a lock.
LocksExclude ==
    \A c, d \in Clients : \A r \in held[c], s \in held[d] :
        /\ <<c, r>> # <<d, s>> => BytesOf(r) \cap BytesOf(s) = {}
        /\ ~dropped /\ file.shared => BytesOf(r) \cap foreign = {}

\* The locks of this process at the system are those of the list when nobody is
\* about to change them; a lock somebody relies on is always there.
SystemAgrees ==
    file # NULL /\ file.shared /\ ~dropped =>
        /\ \A c \in Clients : \A r \in held[c] : \A b \in BytesOf(r) : osLocks[b] # "no"
        /\ ~Overflowed /\ (\A c \in Clients : pc[c].at \notin Busy) =>
              {b \in Offsets : osLocks[b] # "no"} = BytesIn(file.locks)

\* Closing a handle takes away locks in use only if the list was empty when it was
\* tested and another thread locked a range since, or if the open failed.
DropNeedsRace ==
    [][~dropped /\ dropped' =>
        \E c \in Clients : At(c, "openClose") /\ (pc[c].seen = <<>> \/ ~pc[c].ok)]_vars

\* The handle allows what each client opened the file for, whichever of them
\* opened it first, unless the modes were FO_READ and FO_WRITE.
HandleAllows ==
    ~mixed => \A c \in Clients : IsOpen(c) => opened[c].mode \subseteq file.hFile

\* What a client was told holds: the range is its own, at the system too, and the
\* file can be used the way it was opened.
PromisesHold == LocksExclude /\ SystemAgrees /\ HandleAllows

-----------------------------------------------------------------------------
(***************************************************************************)
(* What makes the properties inductive.                                    *)
(***************************************************************************)
\* Where an entry ends, as a number that does not wrap.
Top(e) == e.start + (IF e.len = -Limit THEN Limit ELSE e.len)

\* It has a byte and ends at the limit at most.
EntryOK(e) == e \in Entries /\ (e.len > 0 \/ e.len = -Limit) /\ Top(e) <= Limit

\* The list: entries with a gap between two.
ListOK(list) ==
    /\ list \in Seq(Entries) /\ \A i \in DOMAIN list : EntryOK(list[i])
    /\ \A i, j \in DOMAIN list : i < j => Top(list[i]) < list[j].start

Full(list) == \E i \in DOMAIN list : list[i].len <= 0
InUse == UNION {BytesOf(r) : r \in AllUsed}

ListInv ==
    file # NULL =>
        /\ ListOK(file.locks)
        /\ BytesIn(file.locks) = IF Full(file.locks) THEN Offsets ELSE InUse

\* Two ranges in use have no byte in common.
Apart(r, s) == BytesOf(r) \cap BytesOf(s) = {}
UsesApart ==
    /\ \A c \in Clients : \A r \in held[c] :
          /\ \A s \in held[c] : r # s => Apart(r, s)
          /\ pc[c].at \in Busy => Apart(pc[c].range, r)
    /\ \A c, d \in Clients : c # d => \A r \in Used(c), s \in Used(d) : Apart(r, s)
    /\ \A c \in Clients : \A r \in Used(c), s \in orphans : Apart(r, s)

\* The bytes this process has locked at the system.
AtSystem(c) == held[c] \cup (IF At(c, "unlockOs") THEN {pc[c].range} ELSE {})
SystemInv ==
    /\ \A b \in foreign : osLocks[b] = "no"
    /\ file = NULL => \A b \in Offsets : osLocks[b] = "no"
    /\ file # NULL /\ file.shared /\ ~dropped =>
          \A b \in Offsets : osLocks[b] # "no" <=>
             \E r \in orphans \cup UNION {AtSystem(c) : c \in Clients} : b \in BytesOf(r)

\* Who uses the HB_FILE, and who has s_fileMtx.
Users == {c \in Clients : IsOpen(c) \/ pc[c].at \in {"openTest", "openClose"}}
UsersInv ==
    /\ \A c \in Clients : pc[c].at \in Opens <=> fileMtx = c
    /\ \A c \in Clients : IsOpen(c) => file # NULL /\ pc[c].at \notin Opens
    /\ \A c \in Clients : ~IsOpen(c) => held[c] = {} /\ pc[c].at \notin Busy
    /\ file = NULL => orphans = {}
    /\ file # NULL => file.used = Cardinality(Users) /\ \E c \in Clients : IsOpen(c)
    /\ \A c \in Clients : pc[c].at \in {"openTest", "openClose"} => file # NULL
    /\ \A c \in Clients : At(c, "openClose") => pc[c].seen = <<>> \/ ~pc[c].ok

\* What the handles allow while the file is opened again.
HandlesInv ==
    /\ file # NULL /\ ~mixed => file.hFile = file.mode
    /\ \A c \in Clients : IsOpen(c) /\ ~mixed => opened[c].mode \subseteq file.mode
    /\ \A c \in Clients : At(c, "openNew") /\ file = NULL => pc[c].mode = pc[c].open.mode
    /\ \A c \in Clients : pc[c].at \in {"openTest", "openClose"} /\ pc[c].ok /\ ~mixed =>
          pc[c].open.mode \subseteq file.mode

FileInv == TypeOK /\ ListInv /\ UsesApart /\ SystemInv /\ UsersInv /\ HandlesInv
=============================================================================
