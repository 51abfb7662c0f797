---------------------------- MODULE EventStream ----------------------------
(***************************************************************************)
(* What the watcher promises the event loop about one filesystem event     *)
(* after another: an event is delivered, or superseded by a newer event    *)
(* for the same path, or dropped because a channel is full; it is never    *)
(* simply forgotten, and what becomes of it is final.                      *)
(***************************************************************************)
EXTENDS Naturals

CONSTANTS
  Paths,      \* the paths below the watch root
  NoPath,     \* the path of an event not raised yet
  MaxEvents   \* bound on the events raised

Events == 1 .. MaxEvents

VARIABLES
  raised,   \* number of events raised so far
  pathOf,   \* the path of each raised event
  fate      \* what became of each event

streamVars == <<raised, pathOf, fate>>

Fate == {"unborn", "live", "superseded", "delivered", "dropped"}

StreamInit ==
  /\ raised = 0
  /\ pathOf = [e \in Events |-> NoPath]
  /\ fate = [e \in Events |-> "unborn"]

(* A newer event for the path of e has been raised.                        *)
Outdated(e) == \E f \in e + 1 .. raised : pathOf[f] = pathOf[e]

(* A new event may at once supersede live ones for its own path.           *)
Raise(p) ==
  /\ raised < MaxEvents
  /\ raised' = raised + 1
  /\ pathOf' = [pathOf EXCEPT ![raised + 1] = p]
  /\ \E old \in SUBSET {e \in 1 .. raised : fate[e] = "live" /\ pathOf[e] = p} :
       fate' = [e \in Events |-> IF e = raised + 1 THEN "live"
                                 ELSE IF e \in old THEN "superseded"
                                 ELSE fate[e]]

Settle(e, end) ==
  /\ fate[e] = "live"
  /\ end = "superseded" => Outdated(e)
  /\ fate' = [fate EXCEPT ![e] = end]
  /\ UNCHANGED <<raised, pathOf>>

StreamNext ==
  \/ \E p \in Paths : Raise(p)
  \/ \E e \in Events, end \in {"superseded", "delivered", "dropped"} :
       Settle(e, end)

StreamSpec == StreamInit /\ [][StreamNext]_streamVars
=============================================================================
