------------------------------ MODULE Debounce ------------------------------
(***************************************************************************)
(* Event debouncing in internal/watcher: Watcher.debounce, its copy        *)
(* inotifyImpl.debounce, the bounded channels they send on, the goroutine  *)
(* that forwards inotify events in hybrid mode, and the close of the       *)
(* channels when Run returns.                                              *)
(*                                                                         *)
(* An event is its sequence number.  Each call of debounce creates one     *)
(* entry with one timer; a timer that has fired runs its function in a     *)
(* goroutine, which looks at pending under the mutex, unlocks, and only    *)
(* then sends: other goroutines may run between those steps.               *)
(***************************************************************************)
EXTENDS Naturals, Sequences

CONSTANTS
  Paths,      \* paths events are raised for
  NoPath,     \* the path of an event not raised yet
  Sources,    \* backends in use: {"fan"}, {"ino"} or, in hybrid mode, both
  MaxEvents,  \* bound on the events raised
  Cap,        \* capacity of an events channel (outChanBuf, 512)
  ReadErrors  \* poll or read on a backend's descriptor may fail

ASSUME SourcesAssumption == Sources \subseteq {"fan", "ino"} /\ Sources # {}
ASSUME BoundAssumption == MaxEvents \in Nat /\ Cap \in Nat
ASSUME ReadErrorsAssumption == ReadErrors \in BOOLEAN

Events == 1 .. MaxEvents
Keys == [src : Sources, path : Paths]
NoKey == [src |-> "none", path |-> NoPath]

(* Events(): the channel the event loop reads.                             *)
Main == IF "fan" \in Sources THEN "fan" ELSE "ino"

VARIABLES
  count,     \* events raised so far
  key,       \* backend and path of each event's entry
  timer,     \* what became of each event's timer and timer function
  pending,   \* per backend and path the pending entry, 0 when there is none
  out,       \* contents of each backend's channel
  closed,    \* channels closed by the return of Run
  ctxDone,   \* the daemon's context is cancelled
  panicked   \* a goroutine sent on a closed channel

vars == <<count, key, timer, pending, out, closed, ctxDone, panicked>>

Timer == {"none", "armed", "stopped", "fired", "taken", "superseded", "relay",
          "sent", "dropped", "panicked"}

TypeOK ==
  /\ count \in 0 .. MaxEvents
  /\ key \in [Events -> Keys \cup {NoKey}]
  /\ \A e \in 1 .. count : key[e] \in Keys
  /\ timer \in [Events -> Timer]
  /\ pending \in [Keys -> 0 .. MaxEvents]
  /\ out \in [Sources -> Seq(Events)]
  /\ closed \in SUBSET Sources
  /\ ctxDone \in BOOLEAN /\ panicked \in BOOLEAN

Init ==
  /\ count = 0
  /\ key = [e \in Events |-> NoKey]
  /\ timer = [e \in Events |-> "none"]
  /\ pending = [k \in Keys |-> 0]
  /\ out = [s \in Sources |-> << >>]
  /\ closed = {} /\ ctxDone = FALSE /\ panicked = FALSE

-----------------------------------------------------------------------------
debounceNoStop(k) ==
  /\ count < MaxEvents /\ k.src \notin closed
  /\ count' = count + 1
  /\ key' = [key EXCEPT ![count + 1] = k]
  /\ timer' = [timer EXCEPT ![count + 1] = "armed"]
  /\ pending' = [pending EXCEPT ![k] = count + 1]
  /\ UNCHANGED <<out, closed, ctxDone, panicked>>

(* debounce(ev), called by the backend's Run loop, under the mutex: stop   *)
(* the timer of the pending entry, arm one for the new entry and make it   *)
(* the pending one.  Stop has no effect on a timer that has fired.         *)
debounce(k) ==
  /\ count < MaxEvents /\ k.src \notin closed
  /\ count' = count + 1
  /\ key' = [key EXCEPT ![count + 1] = k]
  /\ timer' = [e \in Events |->
                 IF e = count + 1 THEN "armed"
                 ELSE IF e = pending[k] /\ timer[e] = "armed" THEN "stopped"
                 ELSE timer[e]]
  /\ pending' = [pending EXCEPT ![k] = count + 1]
  /\ UNCHANGED <<out, closed, ctxDone, panicked>>

(* debounceDelay elapses: the runtime starts the timer function.           *)
TimerFires(e) ==
  /\ timer[e] = "armed"
  /\ timer' = [timer EXCEPT ![e] = "fired"]
  /\ UNCHANGED <<count, key, pending, out, closed, ctxDone, panicked>>

TimerChecksNothing(e) ==
  /\ timer[e] = "fired"
  /\ pending' = [pending EXCEPT ![key[e]] = 0]
  /\ timer' = [timer EXCEPT ![e] = "taken"]
  /\ UNCHANGED <<count, key, out, closed, ctxDone, panicked>>

TimerDeletesFirst(e) ==
  /\ timer[e] = "fired"
  /\ pending' = [pending EXCEPT ![key[e]] = 0]
  /\ timer' = [timer EXCEPT ![e] = IF pending[key[e]] = e THEN "taken"
                                   ELSE "superseded"]
  /\ UNCHANGED <<count, key, out, closed, ctxDone, panicked>>

(* The critical section of the timer function: give up if a newer event    *)
(* replaced this entry, otherwise take it out of pending.                  *)
TimerChecks(e) ==
  /\ timer[e] = "fired"
  /\ \/ /\ pending[key[e]] = e
        /\ pending' = [pending EXCEPT ![key[e]] = 0]
        /\ timer' = [timer EXCEPT ![e] = "taken"]
     \/ /\ pending[key[e]] # e
        /\ timer' = [timer EXCEPT ![e] = "superseded"]
        /\ UNCHANGED pending
  /\ UNCHANGED <<count, key, out, closed, ctxDone, panicked>>

(* A select with a default: send e on the channel of s, or drop it when    *)
(* the channel is full.  A send on a closed channel panics even there.     *)
Offer(e, s, sent, chans) ==
  \/ /\ s \in closed
     /\ panicked' = TRUE
     /\ timer' = [timer EXCEPT ![e] = "panicked"]
     /\ out' = chans
  \/ /\ s \notin closed /\ Len(out[s]) < Cap
     /\ timer' = [timer EXCEPT ![e] = sent]
     /\ out' = [chans EXCEPT ![s] = Append(@, e)]
     /\ UNCHANGED panicked
  \/ /\ s \notin closed /\ Len(out[s]) >= Cap
     /\ timer' = [timer EXCEPT ![e] = "dropped"]
     /\ out' = chans
     /\ UNCHANGED panicked

TimerSends(e) ==
  /\ timer[e] = "taken"
  /\ LET s == key[e].src
     IN Offer(e, s, IF s = Main THEN "sent" ELSE "relay", out)
  /\ UNCHANGED <<count, key, pending, closed, ctxDone>>

ForwardUntilClosed ==
  /\ Main # "ino" /\ "ino" \in Sources /\ out["ino"] # << >>
  /\ "ino" \notin closed
  /\ Offer(Head(out["ino"]), Main, "sent", [out EXCEPT !["ino"] = Tail(@)])
  /\ UNCHANGED <<count, key, pending, closed, ctxDone>>

(* Hybrid mode: "for ev := range w.inotify.out" hands inotify's events on. *)
(* The loop also drains what is buffered after the channel is closed.      *)
Forward ==
  /\ Main # "ino" /\ "ino" \in Sources /\ out["ino"] # << >>
  /\ Offer(Head(out["ino"]), Main, "sent", [out EXCEPT !["ino"] = Tail(@)])
  /\ UNCHANGED <<count, key, pending, closed, ctxDone>>

(* runEventLoop receives one event (what it does with it: FileIndex).      *)
Consume ==
  /\ out[Main] # << >>
  /\ out' = [out EXCEPT ![Main] = Tail(@)]
  /\ UNCHANGED <<count, key, timer, pending, closed, ctxDone, panicked>>

(* SIGTERM, SIGINT or a shutdown request (external).                       *)
Shutdown ==
  /\ ~ctxDone /\ ctxDone' = TRUE
  /\ UNCHANGED <<count, key, timer, pending, out, closed, panicked>>

(* Run notices the cancellation, or fails, and returns: its deferred close *)
(* of the channel runs, the armed timers stay armed.  In hybrid mode the   *)
(* return waits for inotify's, or for watcherShutdownWait.                 *)
RunReturns(s) ==
  /\ ctxDone \/ ReadErrors
  /\ s \notin closed
  /\ closed' = closed \cup {s}
  /\ UNCHANGED <<count, key, timer, pending, out, ctxDone, panicked>>

(* A panic in any goroutine ends the process.                              *)
Next ==
  /\ ~panicked
  /\ \/ \E k \in Keys : debounce(k)
     \/ \E e \in Events : TimerFires(e) \/ TimerChecks(e) \/ TimerSends(e)
     \/ Forward \/ Consume
     \/ Shutdown \/ \E s \in Sources : RunReturns(s)

(* Timers fire and goroutines are scheduled; the event loop keeps          *)
(* receiving.  Nothing obliges a file to change or the daemon to stop.     *)
Fairness ==
  /\ \A e \in Events :
       WF_vars(~panicked /\ (TimerFires(e) \/ TimerChecks(e) \/ TimerSends(e)))
  /\ WF_vars(~panicked /\ Forward) /\ WF_vars(~panicked /\ Consume)

Spec == Init /\ [][Next]_vars
FairSpec == Spec /\ Fairness

-----------------------------------------------------------------------------
(***************************************************************************)
(* Properties                                                              *)
(***************************************************************************)

(* A newer event went through the same debouncer for the same path.        *)
Replaced(e) == \E f \in e + 1 .. count : key[f] = key[e]

(* No event is lost in debouncing: a timer that was stopped, or whose      *)
(* function gave up, always left a newer event for its path behind.        *)
NoLostEvent ==
  \A e \in Events : timer[e] \in {"stopped", "superseded"} => Replaced(e)

(* Rapid events for one path coalesce: at most one timer per path is       *)
(* armed at any time.                                                      *)
OneArmedTimer ==
  \A e, f \in Events :
    timer[e] = "armed" /\ timer[f] = "armed" /\ key[e] = key[f] => e = f

(* What is taken for emission is the newest event for its path at that     *)
(* moment, although older timer functions may be running.                  *)
EmitsNewest ==
  [][\A e \in Events :
       timer[e] = "fired" /\ timer'[e] = "taken" => ~Replaced(e)]_vars

(* The inductive invariant: the pending entry of a path is its newest, and *)
(* its timer is armed or its function has not run yet; an armed timer      *)
(* belongs to the pending entry; a function that runs late for an entry    *)
(* that is no longer pending has been replaced.                            *)
PendingNewest ==
  \A k \in Keys : pending[k] # 0 =>
    /\ pending[k] \in 1 .. count /\ key[pending[k]] = k
    /\ timer[pending[k]] \in {"armed", "fired"}
    /\ ~Replaced(pending[k])

ArmedPending ==
  \A e \in Events : timer[e] = "armed" => pending[key[e]] = e

LateReplaced ==
  \A e \in Events : timer[e] = "fired" => pending[key[e]] = e \/ Replaced(e)

Unborn == \A e \in Events : timer[e] = "none" <=> e > count

(* The events buffered for forwarding are exactly those marked "relay".    *)
Relayed ==
  "ino" \in Sources /\ Main # "ino" =>
    \A i \in 1 .. Len(out["ino"]) :
      /\ timer[out["ino"][i]] = "relay"
      /\ \A j \in 1 .. Len(out["ino"]) : out["ino"][i] = out["ino"][j] => i = j

DebounceInv ==
  /\ TypeOK /\ PendingNewest /\ ArmedPending /\ LateReplaced /\ Unborn /\ Relayed
  /\ NoLostEvent

(* Debouncing implements EventStream: "superseded" covers stopped timers   *)
(* and functions that gave up; an event is live until it is on the         *)
(* channel the event loop reads.                                           *)
pathOf == [e \in Events |-> key[e].path]

Fate(e) ==
  CASE timer[e] = "none" -> "unborn"
    [] timer[e] \in {"armed", "fired", "taken", "relay"} -> "live"
    [] timer[e] \in {"stopped", "superseded"} -> "superseded"
    [] timer[e] = "sent" -> "delivered"
    [] OTHER -> "dropped"

fate == [e \in Events |-> Fate(e)]

Stream == INSTANCE EventStream WITH raised <- count

(* Every event the backends read is delivered, replaced or dropped: the    *)
(* refinement of EventStream, one action property for each of its steps.   *)
ImplementsStream == Stream!StreamSpec

(* Every event is settled: its timer does not stay armed, its function     *)
(* does not hang, and what waits for the forwarder is handed on.           *)
EventSettles ==
  \A e \in Events :
    (timer[e] = "armed") ~>
      (timer[e] \in {"stopped", "superseded", "sent", "dropped"} \/ panicked)
=============================================================================
