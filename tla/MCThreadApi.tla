---------------------------- MODULE MCThreadApi ----------------------------
(* ThreadApi for TLC.                                                      *)
EXTENDS ThreadApi

CONSTANTS w1, w2, x1, c1

All(p)  == [pThreads |-> p, fAll |-> TRUE, timed |-> FALSE]
Any(p)  == [pThreads |-> p, fAll |-> FALSE, timed |-> FALSE]
Soon(p) == [pThreads |-> p, fAll |-> TRUE, timed |-> TRUE]

\* Two threads wait for each other, for the main thread and with a time limit
\* beside collections and the end of the program; a thread of another library
\* ends; threads are joined and detached by several others, at once and one
\* after another, and joins meet waits; two controls and one variable are
\* initialized.  Any thread may be asked to quit.
MCPrograms ==
    LET Calls(m, n) == [t \in {Main, w1, w2} |-> IF t = Main THEN m ELSE n]
        One(b) == [b EXCEPT ![w2] = 1]
        stale == [c \in Controls |-> c = c1]
    IN
    { [ops |-> {"wait", "gc", "quit", "term"}, budget |-> One(Calls(1, 2)), stale |-> stale,
       calls |-> {All(<<w1, w2>>), Any(<<w1, Main>>), Soon(<<w2>>)}],
      [ops |-> {"wait", "term"}, budget |-> [t \in {Main, w1, x1} |-> 1], stale |-> stale,
       calls |-> {All(<<x1>>), Any(<<w1, x1>>)}],
      [ops |-> {"join", "wait", "term"}, budget |-> Calls(1, 1), stale |-> stale,
       calls |-> {All(<<w1>>)}],
      [ops |-> {"join", "gc", "term"}, budget |-> Calls(2, 1), stale |-> stale, calls |-> {}],
      [ops |-> {"once", "quit"}, budget |-> One(Calls(2, 2)), stale |-> stale, calls |-> {}],
      [ops |-> {"once", "init", "gc"}, budget |-> Calls(2, 1), stale |-> stale, calls |-> {}] }
=============================================================================
