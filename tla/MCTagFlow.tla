----------------------------- MODULE MCTagFlow -----------------------------
(* Model-checking instance of the writers of tags: a rule gives each file  *)
(* a tag of its own.  Either everything happens to one file, one operation *)
(* at a time, with writes that fail, or operations overlap on two files    *)
(* that stay.                                                              *)
EXTENDS TagFlow, TLC

CONSTANTS p1, p2, r, s

RulePerPath == [p \in Paths |-> IF p = p1 THEN {r} ELSE {s}]
Serial == [paths |-> {p1}, kinds |-> AllKinds, ops |-> AllOps, changes |-> 2,
           overlap |-> FALSE, fails |-> TRUE]
Overlapping(kinds) ==
  [paths |-> {p1, p2}, kinds |-> kinds, ops |-> {"add"}, changes |-> 0,
   overlap |-> TRUE, fails |-> FALSE]
SerialAndOverlapping ==
  {Serial, Overlapping({"tag", "event", "async"}), Overlapping({"tag", "retag"})}
JobSymmetry == Permutations(Jobs)
=============================================================================
