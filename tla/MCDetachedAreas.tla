--------------------------- MODULE MCDetachedAreas --------------------------
(* DetachedAreas for TLC.                                                  *)
EXTENDS DetachedAreas, TLC

CONSTANTS x, y, z

Program(threads, max, alias, calls) ==
    [threads |-> threads, maxArea |-> max, alias |-> alias,
     calls |-> calls \cup {"use", "detach", "request"}]

MCPrograms ==
    \* one thread and three areas: the tables
    {Program({Main}, 4, (x :> "A" @@ y :> "B" @@ z :> "A"), {"close", "select"}),
    \* two threads that pass two areas, with the same alias and with two
     Program(Threads, 3, (x :> "A" @@ y :> "A"), {"quit"}),
     Program(Threads, 3, (x :> "A" @@ y :> "B"), {"quit"})}
=============================================================================
