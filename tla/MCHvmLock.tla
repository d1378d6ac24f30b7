----------------------------- MODULE MCHvmLock -----------------------------
(* HvmLock for TLC: worker threads are interchangeable.                    *)
EXTENDS HvmLock, TLC

WorkerSymmetry == Permutations(Workers)
=============================================================================
