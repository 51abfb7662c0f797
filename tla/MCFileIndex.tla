---------------------------- MODULE MCFileIndex ----------------------------
(* Model-checking instance of the index and what keeps it up to date:      *)
(* every sequence of four changes to one file of a running daemon, a       *)
(* channel that drops, or a restart with every fault.                      *)
EXTENDS FileIndex, TLC

CONSTANTS p1, p2

Running == [paths |-> {p1}, changes |-> 4, clock |-> 0, stops |-> 0, cap |-> 4,
            faults |-> {}]
Restarting == [paths |-> {p1, p2}, changes |-> 2, clock |-> 1, stops |-> 1,
               cap |-> 1, faults |-> AllFaults]
Flooded == [Running EXCEPT !.paths = {p1, p2}, !.changes = 3, !.cap = 1]
AllWorlds == {Running, Flooded, Restarting}
=============================================================================
