------------------------- MODULE MCGarbageCollector -------------------------
(* GarbageCollector for TLC: the programs it runs.                         *)
EXTENDS GarbageCollector, TLC

CONSTANTS t1, t2, b1, b2, b3

Program(T, B, O, n, k) ==
    [threads |-> T, blocks |-> B, objects |-> O, maxLocked |-> n, keepDying |-> k]

\* Arrays and an object, with locked blocks; two threads with objects; objects
\* whose destructors keep what is dying.
MCPrograms ==
    {Program({t1}, {b1, b2, b3}, {b2}, 1, FALSE),
     Program({t1, t2}, {b1, b3}, {b1, b3}, 1, FALSE),
     Program({t1}, {b1, b3}, {b1, b3}, 2, TRUE)}

\* Two threads release arrays and an object.
MCRacePrograms == {Program({t1, t2}, {b1, b2, b3}, {b2}, 0, FALSE)}

\* b1 and b3 are interchangeable in every program.
BlockSymmetry == Permutations({b1, b3})
=============================================================================
