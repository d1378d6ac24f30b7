----------------------------- MODULE MCFileLocks ----------------------------
(* FileLocks for TLC.                                                      *)
EXTENDS FileLocks, TLC

AllRanges == {r \in [start : Offsets, len : 1 .. Limit - 1] : r.start + r.len <= Limit}
Shared(m) == [mode |-> m, shared |-> TRUE]
Alone == [mode |-> FO_READWRITE, shared |-> FALSE]

MCPrograms ==
    \* every way to lock and unlock ranges
    {[ranges |-> AllRanges, foreign |-> {}, openings |-> {Shared(FO_READWRITE), Alone}, misses |-> 0],
    \* every way to open the file, with another process that locks a range
     [ranges |-> {FLock(0, 1), FLock(1, 3)}, foreign |-> {FLock(2, 1)},
      openings |-> {Shared(m) : m \in Modes} \cup {Alone}, misses |-> 2]}

ClientSymmetry == Permutations(Clients)
=============================================================================
