------------------------------ MODULE DbfLocks ------------------------------
(***************************************************************************)
(* Workareas that share one table through the DBF driver                   *)
(* (src/src/rdd/dbf1.c): record, file and append locks, the record buffer  *)
(* of each area, the appending of records and the count in the header.     *)
(*                                                                         *)
(* The areas may belong to threads or to processes: hb_fileLock() gives a  *)
(* byte to one of them (FileLocks).  Every access to the file is one step: *)
(* what a method does between two accesses is local.  todo[a] is what the  *)
(* method running in area a still has to do, a sequence of such steps; a   *)
(* step may put others before the rest, the way one method calls another.  *)
(*                                                                         *)
(* A record's contents is the number of changes made to it.  Relations,    *)
(* filters, triggers, memo and index files are left out.                   *)
(*                                                                         *)
(* A definition X_Y is a broken variant of X: it stands for a mistake the  *)
(* properties must notice and is no part of the specification.             *)
(***************************************************************************)
EXTENDS Integers, Sequences, FiniteSets, FiniteSetsExt, SequencesExt

CONSTANTS
    Areas,
    Loads       \* what the program does, see IsLoad

\* A load: where locks are placed, how many records the table has at first and
\* may get, bounds on the changes, on the writes that fail and on the processes
\* that end without closing the table, whether GOCOLD writes the header (the mode
\* DB_SETHEADER_WRITE, which is the default), and the methods that are called.
IsLoad(l) ==
    /\ l.scheme \in [pos : Nat, dir : {-1, 1, 2}, flSize : Nat \ {0}, headerLen : Nat, recordLen : Nat]
    /\ l.scheme.dir = 2 => l.scheme.headerLen > 0
    /\ {l.records, l.maxRecords, l.changes, l.failures, l.crashes} \subseteq Nat
    /\ l.writeMode \in BOOLEAN /\ IsFiniteSet(l.calls)

ASSUME DbfAssumption ==
    /\ IsFiniteSet(Areas)
    /\ \A l \in Loads : IsLoad(l)

VARIABLES
    load,      \* the load, chosen in Init
    file,      \* the records in the data file
    header,    \* the number of records its header tells
    locked,    \* the bytes of the file that each area has locked
    area,      \* the DBFAREA of each workarea
    todo,      \* what each area still has to do
    \* the rest is not in the code
    ledger,    \* the changes written to each record
    appended,  \* the records appended
    failures,  \* writes that failed
    crashes,
    unsafe     \* see UnsafeWrite, UnsafeUnlock, UnsafeEnd and UnsafeLock

vars == <<load, file, header, locked, area, todo, ledger, appended, failures, crashes, unsafe>>
history == <<ledger, appended, failures, crashes, unsafe>>

-----------------------------------------------------------------------------
(* Lock positions: hb_dbfLockData(), hb_dbfRawLock().                      *)

HeadByte == load.scheme.pos

RecByte_Zero(r) ==
    CASE load.scheme.dir = -1 -> load.scheme.pos - r + 1
      [] load.scheme.dir = 1  -> load.scheme.pos + r - 1
      [] load.scheme.dir = 2  -> load.scheme.pos + (r - 1) * load.scheme.recordLen

RecByte(r) ==
    CASE load.scheme.dir = -1 -> load.scheme.pos - r
      [] load.scheme.dir = 1  -> load.scheme.pos + r
      [] load.scheme.dir = 2  -> load.scheme.pos + (r - 1) * load.scheme.recordLen + load.scheme.headerLen

FileBytes ==
    LET first == IF load.scheme.dir < 0 THEN load.scheme.pos - load.scheme.flSize ELSE load.scheme.pos + 1
    IN  first .. first + load.scheme.flSize - 1

Free(S) == \A b \in Areas : locked[b] \cap S = {}
Take(a, S) == locked' = [locked EXCEPT ![a] = @ \cup S]
GiveBack(S) == locked' = [b \in Areas |-> locked[b] \ S]

-----------------------------------------------------------------------------
(* The state of an area.  A buffer that is not valid is read before it is  *)
(* used again: its contents is 0 here.                                     *)

Closed ==
    [open |-> FALSE, ulRecNo |-> 0, ulRecCount |-> 0, pRecord |-> 0,
     fValidBuffer |-> FALSE, fRecordChanged |-> FALSE, fPositioned |-> FALSE,
     fAppend |-> FALSE, fUpdateHeader |-> FALSE, fFLocked |-> FALSE,
     fHeaderLocked |-> FALSE, pLocksPos |-> {}, edits |-> 0]

AreaStates ==
    [open : BOOLEAN, ulRecNo : Nat, ulRecCount : Nat, pRecord : Nat,
     fValidBuffer : BOOLEAN, fRecordChanged : BOOLEAN, fPositioned : BOOLEAN,
     fAppend : BOOLEAN, fUpdateHeader : BOOLEAN, fFLocked : BOOLEAN,
     fHeaderLocked : BOOLEAN, pLocksPos : SUBSET Nat, edits : Nat]

\* A step: what is to be done, to which record, and whether the method goes on
\* if it fails.
Ops == {"goCold", "append", "blank", "rawLock", "unlockRecords", "unlockRecord",
        "lockFile", "unlockFile", "fileUnlock", "goTo", "goBottom", "read", "put",
        "headLock", "headCount", "headWrite", "headUnlock", "headIf", "close"}

Steps == [op : Ops, rec : Nat, try : BOOLEAN]

Step(o, r) == [op |-> o, rec |-> r, try |-> FALSE]
Do(o) == Step(o, 0)
Try(o) == [op |-> o, rec |-> 0, try |-> TRUE]

\* The type invariant.
TypeOK ==
    /\ load \in Loads
    /\ file \in Seq(Nat) /\ header \in Nat
    /\ locked \in [Areas -> SUBSET Int]
    /\ area \in [Areas -> AreaStates]
    /\ todo \in [Areas -> Seq(Steps)]
    /\ ledger \in Seq(Nat) /\ appended \in Nat
    /\ failures \in Nat /\ crashes \in Nat /\ unsafe \in BOOLEAN

Init ==
    /\ load \in Loads
    /\ file = [r \in 1 .. load.records |-> 0] /\ header = load.records
    /\ locked = [a \in Areas |-> {}]
    /\ area = [a \in Areas |-> Closed]
    /\ todo = [a \in Areas |-> <<>>]
    /\ ledger = file /\ appended = 0
    /\ failures = 0 /\ crashes = 0 /\ unsafe = FALSE

\* hb_dbfCalcRecCount()
CalcRecCount == Len(file)

IsLocked(ar, r) == r \in ar.pLocksPos

\* hb_dbfGoTo() behind GOCOLD
Positioned(ar, r) ==
    LET count == IF r > ar.ulRecCount THEN CalcRecCount ELSE ar.ulRecCount
        found == r \in 1 .. count
    IN  [ar EXCEPT !.ulRecCount = count,
                   !.ulRecNo = IF found THEN r ELSE count + 1,
                   !.fPositioned = found,
                   !.fValidBuffer = ~found,
                   !.pRecord = 0]

Refreshed_Not(ar) ==
    IF ~ar.fPositioned THEN Positioned(ar, ar.ulRecNo) ELSE ar

\* After a lock of the current record: what was read before may be out of date.
Refreshed(ar) ==
    CASE ~ar.fPositioned -> Positioned(ar, ar.ulRecNo)
      [] ar.fPositioned /\ ~ar.fRecordChanged -> [ar EXCEPT !.fValidBuffer = FALSE, !.pRecord = 0]
      [] OTHER -> ar

-----------------------------------------------------------------------------
(* Steps.                                                                  *)

Doing(a, o) == todo[a] # <<>> /\ Head(todo[a]).op = o
Rec(a) == Head(todo[a]).rec

\* The first tests of a method may find that there is nothing to do.
NothingToDo(ar, x) ==
    CASE x.op = "goCold"        -> ~ar.fRecordChanged
      [] x.op = "read"          -> ar.fValidBuffer
      [] x.op = "unlockRecords" -> ar.pLocksPos = {}
      [] x.op = "unlockFile"    -> ~ar.fFLocked
      [] x.op = "headIf"        -> ~ar.fUpdateHeader
      [] x.op = "headUnlock"    -> ~ar.fHeaderLocked
      [] OTHER -> FALSE

\* Area a becomes ar and goes on with s.
Go(a, ar, s) ==
    LET n == Min({i \in 1 .. Len(s) + 1 : i <= Len(s) => ~NothingToDo(ar, s[i])})
    IN  /\ area' = [area EXCEPT ![a] = ar]
        /\ todo' = [todo EXCEPT ![a] = SubSeq(s, n, Len(s))]

Rest(a) == Tail(todo[a])
Done(a, ar) == Go(a, ar, Rest(a))

Abort_Leak(s) == <<>>

\* The method returns HB_FAILURE.  What it locked of the header it unlocks.
Abort(s) == IF \E i \in DOMAIN s : s[i].op = "headUnlock" THEN <<Do("headUnlock")>> ELSE <<>>

Fail(a, ar) == Go(a, ar, IF Head(todo[a]).try THEN Rest(a) ELSE Abort(Rest(a)))

\* SELF_WRITEDBHEADER()
WriteDBHeader(ar, try) ==
    LET write == <<Do("headCount"), [Do("headWrite") EXCEPT !.try = try]>>
    IN  IF ar.fHeaderLocked THEN write
        ELSE <<Do("headLock")>> \o write \o <<Do("headUnlock")>>

\* A record whose first write failed is added by a later GOCOLD, which has no
\* append lock.  It is then the header lock that keeps this area from unlocking
\* the record before another area that counts the records has tried to lock it,
\* and without DB_SETHEADER_WRITE there is none.
UnsafeWrite(ar) == ar.fAppend /\ ~ar.fHeaderLocked /\ ~load.writeMode

\* A lock is given back though GOCOLD could not write what it protects.
UnsafeUnlock(ar, records) == failures > 0 /\ ar.fRecordChanged /\ ar.ulRecNo \in records

\* The process ends while it waits for the header lock, which it may do for a
\* record that it added late.
UnsafeEnd(a) == failures > 0 /\ Doing(a, "headLock")

\* The table has more records than a lock of the file has bytes.
UnsafeLock(r) ==
    load.scheme.flSize < (IF load.scheme.dir = 2 THEN (r - 1) * load.scheme.recordLen + load.scheme.headerLen ELSE r)

WriteRecord(a, ar) ==
    LET r == ar.ulRecNo
        size == Max({Len(file), r})
    IN  /\ file' = [i \in 1 .. size |-> IF i = r THEN ar.pRecord
                                        ELSE IF i <= Len(file) THEN file[i] ELSE 0]
        /\ ledger' = [i \in 1 .. size |-> (IF i <= Len(ledger) THEN ledger[i] ELSE 0)
                                          + (IF i = r THEN ar.edits ELSE 0)]
        /\ appended' = appended + (IF ar.fAppend THEN 1 ELSE 0)
        /\ Go(a, [ar EXCEPT !.fRecordChanged = FALSE, !.fAppend = FALSE, !.edits = 0],
              (IF ar.fUpdateHeader /\ load.writeMode THEN WriteDBHeader(ar, Head(todo[a]).try) ELSE <<>>) \o Rest(a))
        /\ unsafe' = (unsafe \/ UnsafeWrite(ar))
        /\ UNCHANGED <<header, locked, failures, crashes>>

WriteFails(a, ar) ==
    /\ failures < load.failures /\ failures' = failures + 1
    /\ Fail(a, ar)
    /\ UNCHANGED <<file, header, locked, ledger, appended, crashes, unsafe>>

\* hb_dbfGoCold()
GoCold(a) ==
    /\ Doing(a, "goCold")
    /\ WriteRecord(a, area[a]) \/ WriteFails(a, area[a])

\* APPEND_LOCK and HEADER_LOCK: "for( ;; )"
HeadLock_NoWait(a) ==
    /\ Doing(a, "headLock")
    /\ Take(a, {b \in {HeadByte} : Free({b})})
    /\ Done(a, [area[a] EXCEPT !.fHeaderLocked = TRUE])
    /\ UNCHANGED <<file, header, history>>

HeadLock(a) ==
    /\ Doing(a, "headLock")
    /\ Free({HeadByte})
    /\ Take(a, {HeadByte})
    /\ Done(a, [area[a] EXCEPT !.fHeaderLocked = TRUE])
    /\ UNCHANGED <<file, header, history>>

HeadUnlock(a) ==
    /\ Doing(a, "headUnlock")
    /\ GiveBack({HeadByte})
    /\ Done(a, [area[a] EXCEPT !.fHeaderLocked = FALSE])
    /\ UNCHANGED <<file, header, history>>

\* hb_dbfWriteDBHeader(): the records are counted, then the header is written.
HeadCount(a) ==
    /\ Doing(a, "headCount")
    /\ Done(a, [area[a] EXCEPT !.ulRecCount = CalcRecCount])
    /\ UNCHANGED <<file, header, locked, history>>

HeadWrite(a) ==
    /\ Doing(a, "headWrite")
    /\ LET ar == [area[a] EXCEPT !.fUpdateHeader = FALSE]
       IN  \/ /\ header' = ar.ulRecCount
              /\ Done(a, ar)
              /\ UNCHANGED failures
           \/ /\ failures < load.failures /\ failures' = failures + 1
              /\ Fail(a, ar)
              /\ UNCHANGED header
    /\ UNCHANGED <<file, locked, ledger, appended, crashes, unsafe>>

\* hb_dbfClose(): "Update header"
HeadIf(a) ==
    /\ Doing(a, "headIf")
    /\ Go(a, area[a], WriteDBHeader(area[a], TRUE) \o Rest(a))
    /\ UNCHANGED <<file, header, locked, history>>

\* hb_dbfLockRecord() of record r, as far as its low-level lock.
LockRecord(ar, r, exclusive) ==
    CASE ar.fFLocked -> <<>>
      [] ~ar.fFLocked /\ exclusive -> <<Do("unlockRecords"), Step("rawLock", r)>>
      [] ~ar.fFLocked /\ ~exclusive /\ IsLocked(ar, r) -> <<>>
      [] OTHER -> <<Step("rawLock", r)>>

\* REC_LOCK, and the rest of hb_dbfLockRecord()
RawLock(a) ==
    /\ Doing(a, "rawLock")
    /\ \/ /\ Free({RecByte(Rec(a))})
          /\ Take(a, {RecByte(Rec(a))})
          /\ LET ar == [area[a] EXCEPT !.pLocksPos = @ \cup {Rec(a)}]
             IN  Done(a, IF Rec(a) = ar.ulRecNo THEN Refreshed(ar) ELSE ar)
          /\ unsafe' = (unsafe \/ UnsafeLock(Rec(a)))
       \/ /\ ~Free({RecByte(Rec(a))})
          /\ Fail(a, area[a])
          /\ UNCHANGED <<locked, unsafe>>
    /\ UNCHANGED <<file, header, ledger, appended, failures, crashes>>

\* hb_dbfUnlockAllRecords()
UnlockAllRecords(a) ==
    /\ Doing(a, "unlockRecords")
    /\ LET locks == SetToSeq(area[a].pLocksPos)
       IN  Go(a, area[a], <<Try("goCold")>>
                          \o [i \in DOMAIN locks |-> Step("unlockRecord", locks[i])] \o Rest(a))
    /\ UNCHANGED <<file, header, locked, history>>

\* REC_UNLOCK
UnlockRecord(a) ==
    /\ Doing(a, "unlockRecord")
    /\ GiveBack({RecByte(Rec(a))})
    /\ Done(a, [area[a] EXCEPT !.pLocksPos = @ \ {Rec(a)}])
    /\ unsafe' = (unsafe \/ UnsafeUnlock(area[a], {Rec(a)}))
    /\ UNCHANGED <<file, header, ledger, appended, failures, crashes>>

\* FILE_LOCK, and the rest of hb_dbfLockFile()
LockFile(a) ==
    /\ Doing(a, "lockFile")
    /\ \/ /\ Free(FileBytes)
          /\ Take(a, FileBytes)
          /\ Done(a, Refreshed([area[a] EXCEPT !.fFLocked = TRUE]))
       \/ /\ ~Free(FileBytes)
          /\ Done(a, Refreshed(area[a]))
          /\ UNCHANGED locked
    /\ UNCHANGED <<file, header, history>>

\* hb_dbfUnlockFile()
UnlockFile(a) ==
    /\ Doing(a, "unlockFile")
    /\ Go(a, area[a], <<Try("goCold"), Do("fileUnlock")>> \o Rest(a))
    /\ UNCHANGED <<file, header, locked, history>>

\* FILE_UNLOCK
FileUnlock(a) ==
    /\ Doing(a, "fileUnlock")
    /\ GiveBack(FileBytes)
    /\ Done(a, [area[a] EXCEPT !.fFLocked = FALSE])
    /\ unsafe' = (unsafe \/ UnsafeUnlock(area[a], {area[a].ulRecNo}))
    /\ UNCHANGED <<file, header, ledger, appended, failures, crashes>>

\* hb_dbfGoTo() and hb_dbfGoBottom() behind GOCOLD
GoTo(a) ==
    /\ Doing(a, "goTo")
    /\ Done(a, Positioned(area[a], Rec(a)))
    /\ UNCHANGED <<file, header, locked, history>>

GoBottom(a) ==
    /\ Doing(a, "goBottom")
    /\ Done(a, Positioned([area[a] EXCEPT !.ulRecCount = CalcRecCount], CalcRecCount))
    /\ UNCHANGED <<file, header, locked, history>>

\* hb_dbfReadRecord()
ReadRecord(a) ==
    /\ Doing(a, "read")
    /\ LET ar == area[a]
           count == IF ar.ulRecNo > ar.ulRecCount THEN CalcRecCount ELSE ar.ulRecCount
       IN  Done(a, [ar EXCEPT !.fValidBuffer = TRUE,
                              !.ulRecCount = IF ar.fPositioned THEN count ELSE @,
                              !.pRecord = IF ar.fPositioned /\ ar.ulRecNo <= count
                                          THEN file[ar.ulRecNo] ELSE @])
    /\ UNCHANGED <<file, header, locked, history>>

\* hb_dbfGoHot()
MayGoHot(ar) == ar.fRecordChanged \/ ar.fFLocked \/ IsLocked(ar, ar.ulRecNo)

\* hb_dbfPutValue(), hb_dbfDeleteRec() and hb_dbfRecall() change the buffer.
PutValue(a) ==
    /\ Doing(a, "put")
    /\ Done(a, IF area[a].fPositioned /\ MayGoHot(area[a])
               THEN [area[a] EXCEPT !.fRecordChanged = TRUE, !.pRecord = @ + 1, !.edits = @ + 1]
               ELSE area[a])
    /\ UNCHANGED <<file, header, locked, history>>

\* hb_dbfAppend() with the append lock: "Update RecCount" and lock the new record.
AppendCount(a) ==
    /\ Doing(a, "append")
    /\ LET ar == [area[a] EXCEPT !.ulRecCount = CalcRecCount]
           new == CalcRecCount + 1
           lock == IF IsLocked(ar, new) THEN <<>> ELSE LockRecord(ar, new, Rec(a) = 1)
       IN  Go(a, ar, lock \o Rest(a))
    /\ UNCHANGED <<file, header, locked, history>>

\* "Clear record buffer and update pArea", and the first write of the record.
AppendBlank(a) ==
    LET new == area[a].ulRecCount + 1
        ar == [area[a] EXCEPT !.pRecord = 0, !.edits = 0, !.fValidBuffer = TRUE,
                              !.fUpdateHeader = TRUE, !.fRecordChanged = TRUE,
                              !.fAppend = TRUE, !.fPositioned = TRUE,
                              !.ulRecCount = new, !.ulRecNo = new]
    IN  /\ Doing(a, "blank")
        /\ WriteRecord(a, ar) \/ WriteFails(a, ar)

\* The end of hb_dbfClose()
CloseFile(a) ==
    /\ Doing(a, "close")
    /\ Done(a, Closed)
    /\ UNCHANGED <<file, header, locked, history>>

StepOf(a) ==
    \/ GoCold(a) \/ HeadUnlock(a) \/ HeadCount(a) \/ HeadWrite(a) \/ HeadIf(a)
    \/ RawLock(a) \/ UnlockAllRecords(a) \/ UnlockRecord(a) \/ LockFile(a)
    \/ UnlockFile(a) \/ FileUnlock(a) \/ GoTo(a) \/ GoBottom(a) \/ ReadRecord(a)
    \/ PutValue(a) \/ AppendCount(a) \/ AppendBlank(a) \/ CloseFile(a)

-----------------------------------------------------------------------------
(* Methods called by the program.                                          *)

Call(a, s) ==
    /\ area[a].open /\ todo[a] = <<>>
    /\ Go(a, area[a], s)
    /\ UNCHANGED <<file, header, locked, history>>

\* The end of hb_dbfOpen(), which goes to the first record.
Open(a) ==
    /\ ~area[a].open
    /\ Go(a, Positioned([Closed EXCEPT !.open = TRUE, !.ulRecCount = CalcRecCount], 1), <<>>)
    /\ UNCHANGED <<file, header, locked, history>>

Close(a) == Call(a, <<Try("goCold"), Do("unlockRecords"), Do("unlockFile"),
                      Do("headIf"), Do("close")>>)

DbGoTo(a, r) == Call(a, <<Do("goCold"), Step("goTo", r)>>)
DbGoBottom(a) == Call(a, <<Do("goCold"), Do("goBottom")>>)
Commit(a) == Call(a, <<Do("goCold")>>)

\* hb_dbfRecCount()
RecCount(a) ==
    /\ area[a].open /\ todo[a] = <<>>
    /\ Go(a, [area[a] EXCEPT !.ulRecCount = CalcRecCount], <<>>)
    /\ UNCHANGED <<file, header, locked, history>>

\* hb_dbfLock() with DBLM_EXCLUSIVE, DBLM_MULTIPLE and DBLM_FILE
RLock(a) == Call(a, LockRecord(area[a], area[a].ulRecNo, TRUE))
DbRLock(a, r) == Call(a, LockRecord(area[a], r, FALSE))
FLock(a) == ~area[a].fFLocked /\ Call(a, <<Do("unlockRecords"), Do("lockFile")>>)

\* hb_dbfUnLock(), of everything and of one record
UnLock(a) == Call(a, <<Do("unlockRecords"), Do("unlockFile")>>)
DbRUnlock(a, r) ==
    /\ IsLocked(area[a], r)
    /\ Call(a, <<Try("goCold"), Step("unlockRecord", r), Do("unlockFile")>>)

\* A field is replaced, a record deleted or recalled.
Changes ==
    MapThenSumSet(LAMBDA r : ledger[r], DOMAIN ledger)
    + MapThenSumSet(LAMBDA b : area[b].edits, Areas)

Replace(a) == Changes < load.changes /\ Call(a, <<Do("read"), Do("put")>>)

\* hb_dbfAppend(), with or without bUnLockAll
Appending == {b \in Areas : area[b].fAppend \/ \E i \in DOMAIN todo[b] : todo[b][i].op = "blank"}

DbAppend_CountFirst(a, all) ==
    /\ Len(file) + Cardinality(Appending) < load.maxRecords
    /\ Call(a, <<Do("goCold"), Step("append", all), Do("headLock"), Try("blank"),
                 Do("headUnlock")>>)

DbAppend(a, all) ==
    /\ Len(file) + Cardinality(Appending) < load.maxRecords
    /\ Call(a, <<Do("goCold"), Do("headLock"), Step("append", all), Try("blank"),
                 Do("headUnlock")>>)

\* The process ends: the operating system takes back its locks.
Crash(a) ==
    /\ area[a].open /\ crashes < load.crashes /\ crashes' = crashes + 1
    /\ locked' = [locked EXCEPT ![a] = {}]
    /\ Go(a, Closed, <<>>)
    /\ unsafe' = (unsafe \/ UnsafeEnd(a))
    /\ UNCHANGED <<file, header, ledger, appended, failures>>

Calls(a) ==
    \/ "open" \in load.calls /\ Open(a)
    \/ "close" \in load.calls /\ Close(a)
    \/ "goBottom" \in load.calls /\ DbGoBottom(a)
    \/ "commit" \in load.calls /\ Commit(a)
    \/ "recCount" \in load.calls /\ RecCount(a)
    \/ "rLock" \in load.calls /\ RLock(a)
    \/ "fLock" \in load.calls /\ FLock(a)
    \/ "unLock" \in load.calls /\ UnLock(a)
    \/ "replace" \in load.calls /\ Replace(a)
    \/ \E r \in 1 .. load.maxRecords :
          \/ "goTo" \in load.calls /\ DbGoTo(a, r)
          \/ "dbRLock" \in load.calls /\ DbRLock(a, r)
          \/ "dbRUnlock" \in load.calls /\ DbRUnlock(a, r)
    \/ \E all \in {0, 1} : "append" \in load.calls /\ DbAppend(a, all)

AreaNext(a) == StepOf(a) \/ HeadLock(a) \/ Calls(a) \/ Crash(a)

Next == (\E a \in Areas : AreaNext(a)) /\ UNCHANGED load

Spec == Init /\ [][Next]_vars

-----------------------------------------------------------------------------
(* Properties.                                                             *)

Holds(ar, r) == ar.fFLocked \/ IsLocked(ar, r)

BytesOf(ar) ==
    {b \in {HeadByte} : ar.fHeaderLocked} \cup {b \in FileBytes : ar.fFLocked}
    \cup {RecByte(r) : r \in ar.pLocksPos}

\* The bytes an area has locked are those its flags and its list tell: no lock
\* is forgotten, in whichever way a method ended.
LocksAgree ==
    /\ \A a \in Areas : locked[a] = BytesOf(area[a])
    /\ \A a, b \in Areas : a # b => locked[a] \cap locked[b] = {}

\* The wait for the header ends: the area that has it locked is inside a method
\* that will unlock it, whatever fails, and that does not wait for it again.
HeaderIsGivenBack ==
    \A a \in Areas : area[a].fHeaderLocked =>
        \E i \in DOMAIN todo[a] :
            todo[a][i].op = "headUnlock" /\ \A j \in 1 .. i : todo[a][j].op # "headLock"

\* Locks and what the program knows of them agree, at every step of a method.
LocksAreKept == TypeOK /\ LocksAgree /\ HeaderIsGivenBack

\* Changes of a record that are not written yet are protected by a lock, and so
\* two areas never have such changes of one record.
OneWriter ==
    ~unsafe => \A a \in Areas : area[a].fRecordChanged =>
        /\ Holds(area[a], area[a].ulRecNo)
        /\ \A b \in Areas \ {a} : ~Holds(area[b], area[a].ulRecNo)

\* Who has a record locked and looks at it sees what is in the file.
LockedBufferIsFresh ==
    ~unsafe => \A a \in Areas :
        /\ area[a].fPositioned /\ area[a].fValidBuffer /\ ~area[a].fRecordChanged
        /\ Holds(area[a], area[a].ulRecNo)
        => area[a].pRecord = file[area[a].ulRecNo]

\* The lock of a record protects its buffer, before and after it is changed.
BuffersAreProtected == OneWriter /\ LockedBufferIsFresh

\* Every change that was written is in the record.
NoLostUpdate == ~unsafe => file = ledger

\* Every append made a record of its own.
AppendsAreDistinct == ~unsafe => Len(file) = load.records + appended

\* The header never tells more records than there are; unless a write failed or
\* a process ended, it tells as many when no method is running.
HeaderCounts ==
    /\ header <= Len(file)
    /\ failures = 0 /\ crashes = 0
       /\ (\A a \in Areas : todo[a] = <<>> /\ (load.writeMode \/ ~area[a].open))
         => header = Len(file)
-----------------------------------------------------------------------------
(* The inductive invariant.  First what the steps that an area has still   *)
(* to do tell of its state, and its state of them.                         *)

HeaderSteps == {"goCold", "headLock", "headCount", "headWrite", "headUnlock"}
UnlockSteps == HeaderSteps \cup {"unlockRecords", "unlockRecord"}
CloseSteps == UnlockSteps \cup {"unlockFile", "fileUnlock", "headIf"}

Earlier(s, i, ops) == \E j \in 1 .. i - 1 : s[j].op \in ops
OnlyBefore(s, i, ops) == \A j \in 1 .. i - 1 : s[j].op \in ops

\* The steps before step i release record r, and all records.
Released(s, i, r) ==
    \E j \in 1 .. i - 1 : s[j].op = "unlockRecords" \/ (s[j].op = "unlockRecord" /\ s[j].rec = r)
Releases(ar, s, i) == \A r \in ar.pLocksPos : Released(s, i, r)

\* No step before step i unlocks record r.
NotUnlocked(s, i, r) == \A j \in 1 .. i - 1 : s[j].op = "unlockRecord" => s[j].rec # r

\* What is locked is unlocked once.
UnlockFits(ar, s, i) ==
    /\ s[i].op = "fileUnlock" => ar.fFLocked /\ OnlyBefore(s, i, HeaderSteps)
    /\ s[i].op = "unlockRecord" =>
          /\ s[i].rec \in ar.pLocksPos
          /\ OnlyBefore(s, i, HeaderSteps \cup {"unlockRecord"})
          /\ NotUnlocked(s, i, s[i].rec)

\* Records are locked only without a lock of the file, and the other way round.
LockFits(ar, s, i) ==
    /\ s[i].op = "rawLock" => ~ar.fFLocked /\ s[i].rec > 0 /\ OnlyBefore(s, i, UnlockSteps)
    /\ s[i].op = "lockFile" => OnlyBefore(s, i, UnlockSteps) /\ Releases(ar, s, i)

\* Everything is unlocked when the header is written and the table closed.
CloseFits(ar, s, i) ==
    s[i].op \in {"headIf", "close"} =>
        /\ OnlyBefore(s, i, CloseSteps)
        /\ Releases(ar, s, i)
        /\ ar.fFLocked => Earlier(s, i, {"unlockFile", "fileUnlock"})
        /\ s[i].op = "close" =>
              i = Len(s) /\ (ar.fUpdateHeader => Earlier(s, i, {"headIf", "headWrite"}))

\* Before step i, no headUnlock follows step k.
Kept(s, k, i) == \A j \in k + 1 .. i - 1 : s[j].op # "headUnlock"

\* From step i on, a headUnlock comes before the next headLock.
Unlocks(s, i) ==
    \E k \in i .. Len(s) : s[k].op = "headUnlock" /\ \A j \in i .. k : s[j].op # "headLock"

\* The header is locked when step i is done.
HeldFrom(s, i) == \E k \in 1 .. i - 1 : s[k].op = "headLock" /\ Kept(s, k, i)
HeldAt(ar, s, i) == (ar.fHeaderLocked /\ Kept(s, 0, i)) \/ HeldFrom(s, i)

HeaderFits(ar, s, i) ==
    /\ s[i].op = "headLock" => Unlocks(s, i + 1)
    /\ s[i].op \in {"append", "blank", "headCount", "headWrite"} => HeldAt(ar, s, i)
    /\ s[i].op = "headWrite" =>
          OnlyBefore(s, i, {"headLock", "headCount"}) /\ (i > 1 => s[i - 1].op = "headCount")

\* A GOCOLD comes before step i, and if it fails step i is not done.
Cleaned(s, i) == \E j \in 1 .. i - 1 : s[j].op = "goCold" /\ ~s[j].try

\* Changes are written before the area goes to another record.
ChangeFits(ar, s, i) ==
    /\ s[i].op = "put" => i = Len(s) /\ OnlyBefore(s, i, {"read"}) /\ (i = 1 => ar.fValidBuffer)
    /\ s[i].op \in {"goTo", "goBottom", "append", "blank"} /\ ar.fRecordChanged => Cleaned(s, i)
    /\ s[i].op = "append" => i < Len(s) /\ s[i + 1].op = "blank"
    /\ s[i].op = "blank" => \A j \in i + 1 .. Len(s) : s[j].op = "headUnlock"

StepFits(ar, s, i) ==
    /\ UnlockFits(ar, s, i) /\ LockFits(ar, s, i) /\ CloseFits(ar, s, i)
    /\ HeaderFits(ar, s, i) /\ ChangeFits(ar, s, i)

StateFits(ar) ==
    /\ ~ar.open => ar = Closed
    /\ ar.open => ar.ulRecNo > 0
    /\ IsFiniteSet(ar.pLocksPos) /\ (ar.fFLocked => ar.pLocksPos = {})
    /\ IF ar.fRecordChanged THEN ar.fPositioned /\ ar.fValidBuffer ELSE ar.edits = 0 /\ ~ar.fAppend

Fits(ar, s) ==
    /\ StateFits(ar)
    /\ ~ar.open => s = <<>>
    /\ ar.fHeaderLocked => Unlocks(s, 1)
    /\ \A i \in DOMAIN s : StepFits(ar, s, i)

\* Steps with nothing to do have been passed.
Ready(ar, s) == s # <<>> => ~NothingToDo(ar, s[1])

StepsFit == \A a \in Areas : Fits(area[a], todo[a]) /\ Ready(area[a], todo[a])

\* The locks of one area have no byte in common.
Apart(ar) ==
    /\ \A r, q \in ar.pLocksPos : RecByte(r) = RecByte(q) => r = q
    /\ ar.fHeaderLocked => HeadByte \notin {RecByte(r) : r \in ar.pLocksPos}
    /\ ar.fHeaderLocked /\ ar.fFLocked => HeadByte \notin FileBytes

LocksApart == \A a \in Areas : Apart(area[a])

\* No area counts or is at more than n records, but the one that it adds.
Counted(ar, n) ==
    /\ ar.ulRecCount <= n \/ (ar.fAppend /\ ar.ulRecCount <= ar.ulRecNo)
    /\ ar.fPositioned /\ ~ar.fAppend => ar.ulRecNo <= n

CountsFit == \A a \in Areas : Counted(area[a], Len(file))

LocksInv == TypeOK /\ LocksAgree /\ LocksApart /\ CountsFit /\ StepsFit

\* Changes are written before the area does one of the steps that unlock.
WritesFirst(ar, s) ==
    ar.fRecordChanged =>
        \A i \in DOMAIN s : s[i].op \in {"fileUnlock", "unlockRecord"} => Earlier(s, i, {"goCold"})

\* If no write has failed, they are.
WrittenBeforeUnlock ==
    failures = 0 => \A a \in Areas : ~area[a].fAppend /\ WritesFirst(area[a], todo[a])

\* The area has the header to write, now or when the table is closed.
HeaderPending(ar, s) ==
    ar.fUpdateHeader /\ (load.writeMode => \E i \in DOMAIN s : s[i].op = "headWrite")

\* The header.
HeaderInv ==
    /\ header <= Len(file)
    /\ \A a \in Areas : Doing(a, "headWrite") =>
          /\ area[a].ulRecCount <= Len(file)
          /\ failures = 0 => area[a].ulRecCount = Len(file)
    /\ failures = 0 /\ crashes = 0 /\ header # Len(file) =>
          \E a \in Areas : HeaderPending(area[a], todo[a])

\* The locks of records are those of a lock of the file.
InFile(ar) == \A r \in ar.pLocksPos : RecByte(r) \in FileBytes

FileAt(f, r) == IF r \in DOMAIN f THEN f[r] ELSE 0

\* What an area knows of its record, f being the file.
BufferFits(ar, s, f) ==
    /\ ar.fAppend => ar.ulRecNo = Len(f) + 1 /\ ar.fUpdateHeader
    /\ ar.fRecordChanged =>
          /\ Holds(ar, ar.ulRecNo)
          /\ ar.pRecord = FileAt(f, ar.ulRecNo) + ar.edits
          /\ \A i \in DOMAIN s : s[i].op # "headWrite"
    /\ ar.fPositioned /\ ar.fValidBuffer /\ ~ar.fRecordChanged /\ Holds(ar, ar.ulRecNo) =>
          ar.pRecord = f[ar.ulRecNo]

\* Another area has added record r late and waits for the header.
Late(a, r) == \E b \in Areas \ {a} : failures > 0 /\ Doing(b, "headLock") /\ Holds(area[b], r)

\* Step i adds a record, and the records have been counted for it.
Adds(s, i) == s[i].op = "blank" /\ ~Earlier(s, i, {"append"})

\* What an area that adds a record knows then, n being the number of records.
AppendFits(ar, s, n, late) ==
    \A i \in DOMAIN s : Adds(s, i) =>
        /\ ar.fHeaderLocked /\ ~ar.fRecordChanged
        /\ IF i = 1 THEN ar.ulRecCount = n /\ Holds(ar, n + 1)
           ELSE /\ s[i - 1].op = "rawLock" /\ s[i - 1].rec = ar.ulRecCount + 1 /\ ~s[i - 1].try
                /\ OnlyBefore(s, i - 1, {"unlockRecords", "goCold", "unlockRecord"})
                /\ ar.ulRecCount = n \/ late

DataInv ==
    ~unsafe =>
        /\ file = ledger
        /\ Len(file) = load.records + appended
        /\ \A a \in Areas :
              /\ InFile(area[a])
              /\ BufferFits(area[a], todo[a], file)
              /\ AppendFits(area[a], todo[a], Len(file), Late(a, area[a].ulRecCount + 1))

Inv == LocksInv /\ WrittenBeforeUnlock /\ HeaderInv /\ DataInv
=============================================================================
