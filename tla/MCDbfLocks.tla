----------------------------- MODULE MCDbfLocks -----------------------------
(* DbfLocks for TLC.                                                       *)
EXTENDS DbfLocks, TLC

Forward  == [pos |-> 1, dir |-> 1, flSize |-> 4, headerLen |-> 0, recordLen |-> 0]
Backward == [pos |-> 4, dir |-> -1, flSize |-> 4, headerLen |-> 0, recordLen |-> 0]
AtRecord == [pos |-> 0, dir |-> 2, flSize |-> 5, headerLen |-> 1, recordLen |-> 2]

Load(s, r, m, c, f, x, w, calls) ==
    [scheme |-> s, records |-> r, maxRecords |-> m, changes |-> c, failures |-> f,
     crashes |-> x, writeMode |-> w,
     calls |-> calls \cup {"open", "unLock", "replace"}]

MCLoads ==
    \* two records are changed, under all kinds of locks
    {Load(Backward, 2, 2, 2, 0, 0, TRUE, {"rLock", "dbRLock", "dbRUnlock", "fLock", "goTo", "close"}),
    \* records are appended, and writes fail
     Load(Forward, 0, 3, 1, 1, 0, TRUE, {"append", "goBottom", "recCount", "commit", "fLock", "close"}),
    \* processes end while they append
     Load(AtRecord, 1, 2, 1, 0, 1, TRUE, {"append", "rLock"}),
    \* the header is only written when the table is closed
     Load(Forward, 1, 3, 1, 1, 0, FALSE, {"append", "close"}),
    \* a process ends when a write has failed
     Load(Backward, 0, 2, 0, 1, 1, TRUE, {"append", "commit"})}

AreaSymmetry == Permutations(Areas)
=============================================================================
