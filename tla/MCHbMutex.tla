----------------------------- MODULE MCHbMutex -----------------------------
(* HbMutex for TLC: the threads are interchangeable.                       *)
EXTENDS HbMutex, TLC

Bound(T, l, e) == [threads |-> T, lock |-> l, events |-> e]

Pairs == {T \in SUBSET Threads : Cardinality(T) = 2}

\* Three threads; two threads with a deeper lock and more events.
MCBounds == {Bound(Threads, 1, 1)} \cup {Bound(T, 2, 2) : T \in Pairs}

\* Two threads that notify twice.
MCNotifyBounds == {Bound(T, 1, 2) : T \in Pairs}

ThreadSymmetry == Permutations(Threads)
=============================================================================
