---------------------------- MODULE ReentrantLock ----------------------------
(***************************************************************************)
(* What the lock of a Harbour mutex promises, without its queues: a thread *)
(* may take it again while it has it, a wait for an event gives back every *)
(* level at once (parked) and returns with exactly as many.                *)
(***************************************************************************)
EXTENDS Naturals

CONSTANT Threads

VARIABLES
    held,     \* how often each thread has the lock
    parked    \* how many levels a waiting thread has put aside

FreeFor(t) == \A u \in Threads \ {t} : held[u] = 0

Init ==
    /\ held = [t \in Threads |-> 0]
    /\ parked = [t \in Threads |-> 0]

Acquire(t) ==
    /\ FreeFor(t) /\ parked[t] = 0
    /\ held' = [held EXCEPT ![t] = @ + 1]
    /\ UNCHANGED parked

Release(t) ==
    /\ held[t] > 0
    /\ held' = [held EXCEPT ![t] = @ - 1]
    /\ UNCHANGED parked

\* The thread ends.
ReleaseAll(t) ==
    /\ held' = [held EXCEPT ![t] = 0]
    /\ UNCHANGED parked

Park(t) ==
    /\ held[t] > 0 /\ parked[t] = 0
    /\ held' = [held EXCEPT ![t] = 0]
    /\ parked' = [parked EXCEPT ![t] = held[t]]

Regain(t) ==
    /\ FreeFor(t) /\ parked[t] > 0 /\ held[t] = 0
    /\ held' = [held EXCEPT ![t] = parked[t]]
    /\ parked' = [parked EXCEPT ![t] = 0]

Next == \E t \in Threads :
    Acquire(t) \/ Release(t) \/ ReleaseAll(t) \/ Park(t) \/ Regain(t)

Spec == Init /\ [][Next]_<<held, parked>>
=============================================================================
