--------------------------- MODULE DebounceProofs ---------------------------
(***************************************************************************)
(* Debouncing loses no event and emits only the newest, for any number of  *)
(* events, paths and channel capacities, with any interleaving of timer    *)
(* functions; and it implements EventStream.                               *)
(*                                                                         *)
(* The argument is about the pending entry of a path: it is the newest     *)
(* event for the path, its timer is armed or its function has not looked   *)
(* at pending yet.  A timer is stopped, or a function gives up, only after *)
(* another entry took its place.                                           *)
(***************************************************************************)
EXTENDS Debounce, SequenceTheorems, TLAPS

(* Changing one entry of timer from a state that is neither armed nor      *)
(* fired into one that is not either leaves the pending entries alone.     *)
LEMMA SettleEntry ==
  ASSUME DebounceInv, NEW e \in Events, NEW end \in Timer,
         timer[e] \in {"taken", "relay"},
         end \in {"relay", "sent", "dropped", "panicked"},
         timer' = [timer EXCEPT ![e] = end],
         UNCHANGED <<count, key, pending>>
  PROVE  PendingNewest' /\ ArmedPending' /\ LateReplaced' /\ Unborn' /\ NoLostEvent'
<1>1. /\ timer \in [Events -> Timer] /\ key \in [Events -> Keys \cup {NoKey}]
      /\ pending \in [Keys -> 0 .. MaxEvents] /\ count \in 0 .. MaxEvents
  BY DEF DebounceInv, TypeOK
<1>2. timer'[e] = end /\ \A f \in Events : f # e => timer'[f] = timer[f]
  BY <1>1
<1>3. \A f \in Events : Replaced(f)' <=> Replaced(f)
  BY DEF Replaced
<1>4. PendingNewest'
  <2> SUFFICES ASSUME NEW k \in Keys, pending[k] # 0
               PROVE  /\ pending[k] \in 1 .. count /\ key[pending[k]] = k
                      /\ timer'[pending[k]] \in {"armed", "fired"}
                      /\ ~Replaced(pending[k])'
    BY DEF PendingNewest
  <2>1. /\ pending[k] \in 1 .. count /\ key[pending[k]] = k
        /\ timer[pending[k]] \in {"armed", "fired"}
        /\ ~Replaced(pending[k])
    BY DEF DebounceInv, PendingNewest
  <2>2. pending[k] \in Events /\ pending[k] # e
    BY <1>1, <2>1, BoundAssumption DEF Events
  <2>3. QED
    BY <1>2, <1>3, <2>1, <2>2
<1>5. ArmedPending'
  BY <1>2 DEF DebounceInv, ArmedPending
<1>6. LateReplaced'
  BY <1>2, <1>3 DEF DebounceInv, LateReplaced
<1>7. Unborn'
  BY <1>2 DEF DebounceInv, Unborn
<1>8. NoLostEvent'
  BY <1>2, <1>3 DEF DebounceInv, NoLostEvent
<1>9. QED
  BY <1>4, <1>5, <1>6, <1>7, <1>8

(* What a raised event's key is.                                           *)
LEMMA RaisedKey ==
  ASSUME DebounceInv, NEW e \in Events, timer[e] # "none"
  PROVE  e \in 1 .. count /\ key[e] \in Keys /\ key[e].src \in Sources
<1>1. e \in 1 .. count
  BY BoundAssumption DEF DebounceInv, TypeOK, Unborn, Events
<1>2. key[e] \in Keys
  BY <1>1 DEF DebounceInv, TypeOK
<1>3. QED
  BY <1>1, <1>2 DEF Keys

(* The outcome of a select with a default on a well-typed channel.         *)
LEMMA OfferType ==
  ASSUME TypeOK, NEW e \in Events, NEW s \in Sources,
         NEW sent \in {"sent", "relay"},
         NEW chans \in [Sources -> Seq(Events)], Offer(e, s, sent, chans)
  PROVE  /\ timer' \in [Events -> Timer] /\ panicked' \in BOOLEAN
         /\ out' \in [Sources -> Seq(Events)]
         /\ \E end \in {sent, "dropped", "panicked"} :
              timer' = [timer EXCEPT ![e] = end]
<1>1. timer \in [Events -> Timer] /\ panicked \in BOOLEAN
  BY DEF TypeOK
<1>2. \E end \in {sent, "dropped", "panicked"} : timer' = [timer EXCEPT ![e] = end]
  BY DEF Offer
<1>3. timer' \in [Events -> Timer]
  BY <1>1, <1>2 DEF Timer
<1>4. Append(chans[s], e) \in Seq(Events)
  BY AppendProperties
<1>5. out' = chans \/ out' = [chans EXCEPT ![s] = Append(chans[s], e)]
  BY DEF Offer
<1>6. out' \in [Sources -> Seq(Events)]
  BY <1>4, <1>5
<1>7. panicked' \in BOOLEAN
  BY <1>1 DEF Offer
<1>8. QED
  BY <1>2, <1>3, <1>6, <1>7

(* Main is one of the backends in use.                                     *)
LEMMA MainSource == Main \in Sources /\ (Main # "ino" => Main = "fan")
BY SourcesAssumption DEF Main

(* In hybrid mode the head of inotify's channel is an event to forward.    *)
LEMMA ForwardHead ==
  ASSUME DebounceInv, Forward
  PROVE  /\ Head(out["ino"]) \in Events
         /\ timer[Head(out["ino"])] = "relay"
         /\ [out EXCEPT !["ino"] = Tail(out["ino"])] \in [Sources -> Seq(Events)]
<1>1. out["ino"] \in Seq(Events) /\ out["ino"] # << >> /\ "ino" \in Sources
      /\ Main # "ino" /\ out \in [Sources -> Seq(Events)]
  BY DEF DebounceInv, TypeOK, Forward
<1>2. /\ Head(out["ino"]) \in Events /\ Tail(out["ino"]) \in Seq(Events)
      /\ Len(out["ino"]) >= 1 /\ Head(out["ino"]) = out["ino"][1]
  BY <1>1, HeadTailProperties, EmptySeq
<1>3. timer[out["ino"][1]] = "relay"
  BY <1>1, <1>2, LenProperties DEF DebounceInv, Relayed
<1>4. QED
  BY <1>1, <1>2, <1>3

(* Types are preserved.                                                    *)
LEMMA TypeNext == DebounceInv /\ [Next]_vars => TypeOK'
<1> SUFFICES ASSUME DebounceInv, [Next]_vars PROVE TypeOK'
  OBVIOUS
<1> USE BoundAssumption
<1>0. TypeOK
  BY DEF DebounceInv
<1>1. ASSUME NEW k \in Keys, debounce(k) PROVE TypeOK'
  <2>1. count' \in 0 .. MaxEvents /\ count + 1 \in Events
    BY <1>0, <1>1 DEF debounce, TypeOK, Events
  <2>2. timer' \in [Events -> Timer]
    BY <1>0, <1>1 DEF debounce, TypeOK, Timer
  <2>3. /\ key' \in [Events -> Keys \cup {NoKey}]
        /\ \A e \in 1 .. count' : key'[e] \in Keys
    BY <1>0, <1>1, <2>1 DEF debounce, TypeOK, Events
  <2>4. pending' \in [Keys -> 0 .. MaxEvents]
    BY <1>0, <1>1, <2>1 DEF debounce, TypeOK, Events
  <2>5. QED
    BY <1>0, <1>1, <2>1, <2>2, <2>3, <2>4 DEF debounce, TypeOK
<1>2. ASSUME NEW e \in Events, TimerFires(e) PROVE TypeOK'
  BY <1>0, <1>2 DEF TimerFires, TypeOK, Timer
<1>3. ASSUME NEW e \in Events, TimerChecks(e) PROVE TypeOK'
  <2>1. key[e] \in Keys
    BY <1>3, RaisedKey DEF TimerChecks
  <2>2. timer' \in [Events -> Timer]
    BY <1>0, <1>3 DEF TimerChecks, TypeOK, Timer
  <2>3. pending' \in [Keys -> 0 .. MaxEvents]
    BY <1>0, <1>3, <2>1 DEF TimerChecks, TypeOK
  <2>4. QED
    BY <1>0, <1>3, <2>2, <2>3 DEF TimerChecks, TypeOK
<1>4. ASSUME NEW e \in Events, TimerSends(e) PROVE TypeOK'
  <2>1. key[e].src \in Sources
    BY <1>4, RaisedKey DEF TimerSends
  <2>2. /\ timer' \in [Events -> Timer] /\ panicked' \in BOOLEAN
        /\ out' \in [Sources -> Seq(Events)]
    BY <1>0, <1>4, <2>1, OfferType DEF TimerSends, TypeOK
  <2>3. QED
    BY <1>0, <1>4, <2>2 DEF TimerSends, TypeOK
<1>5. CASE Forward
  <2>1. /\ timer' \in [Events -> Timer] /\ panicked' \in BOOLEAN
        /\ out' \in [Sources -> Seq(Events)]
    BY <1>0, <1>5, ForwardHead, MainSource, OfferType DEF Forward
  <2>2. QED
    BY <1>0, <1>5, <2>1 DEF Forward, TypeOK
<1>6. CASE Consume
  <2>1. out[Main] \in Seq(Events) /\ out[Main] # << >>
    BY <1>0, <1>6, MainSource DEF Consume, TypeOK
  <2>2. Tail(out[Main]) \in Seq(Events)
    BY <2>1, HeadTailProperties
  <2>3. out' \in [Sources -> Seq(Events)]
    BY <1>0, <1>6, <2>2 DEF Consume, TypeOK
  <2>4. QED
    BY <1>0, <1>6, <2>3 DEF Consume, TypeOK
<1>7. CASE Shutdown
  BY <1>0, <1>7 DEF Shutdown, TypeOK
<1>8. ASSUME NEW s \in Sources, RunReturns(s) PROVE TypeOK'
  BY <1>0, <1>8 DEF RunReturns, TypeOK
<1>9. CASE UNCHANGED vars
  BY <1>0, <1>9 DEF vars, TypeOK
<1>10. QED
  BY <1>1, <1>2, <1>3, <1>4, <1>5, <1>6, <1>7, <1>8, <1>9 DEF Next

(* The forwarder's queue: an entry not in it, or not "relay", is free to   *)
(* change.                                                                 *)
LEMMA RelayKept ==
  ASSUME DebounceInv, TypeOK',
         \A e \in Events : timer[e] = "relay" => timer'[e] = "relay",
         "ino" \in Sources /\ Main # "ino" => out'["ino"] = out["ino"]
  PROVE  Relayed'
<1> SUFFICES ASSUME "ino" \in Sources, Main # "ino",
                    NEW i \in 1 .. Len(out["ino"])
             PROVE  /\ timer'[out["ino"][i]] = "relay"
                    /\ \A j \in 1 .. Len(out["ino"]) :
                         out["ino"][i] = out["ino"][j] => i = j
  BY DEF Relayed
<1>1. out["ino"] \in Seq(Events)
  BY DEF DebounceInv, TypeOK
<1>2. out["ino"][i] \in Events
  BY <1>1, ElementOfSeq
<1>3. QED
  BY <1>2 DEF DebounceInv, Relayed

(* A new event replaces the pending entry of its path and becomes the      *)
(* newest; the entry it replaces is the only one whose timer it touches.   *)
LEMMA debounceInv ==
  ASSUME DebounceInv, NEW k \in Keys, debounce(k)
  PROVE  PendingNewest' /\ ArmedPending' /\ LateReplaced' /\ Unborn' /\ NoLostEvent'
<1> USE BoundAssumption
<1> DEFINE new == count + 1
<1>1. /\ timer \in [Events -> Timer] /\ key \in [Events -> Keys \cup {NoKey}]
      /\ pending \in [Keys -> 0 .. MaxEvents] /\ count \in 0 .. MaxEvents
      /\ new \in Events /\ count' = new
  BY DEF DebounceInv, TypeOK, debounce, Events
<1>2. /\ key'[new] = k /\ \A e \in Events : e # new => key'[e] = key[e]
      /\ pending'[k] = new /\ \A j \in Keys : j # k => pending'[j] = pending[j]
  BY <1>1 DEF debounce
<1>3. /\ timer'[new] = "armed"
      /\ \A e \in Events : e # new =>
           timer'[e] = IF e = pending[k] /\ timer[e] = "armed" THEN "stopped"
                       ELSE timer[e]
  BY <1>1 DEF debounce
<1>4. \A e \in Events : e # new /\ Replaced(e) => Replaced(e)'
  <2> SUFFICES ASSUME NEW e \in Events, e # new, Replaced(e) PROVE Replaced(e)'
    OBVIOUS
  <2>1. PICK f \in e + 1 .. count : key[f] = key[e]
    BY DEF Replaced
  <2>2. f \in Events /\ f # new /\ f \in e + 1 .. count'
    BY <1>1, <2>1 DEF Events
  <2>3. key'[f] = key'[e]
    BY <1>2, <2>1, <2>2
  <2>4. QED
    BY <2>2, <2>3 DEF Replaced
<1>5. \A e \in 1 .. count : key[e] = k => Replaced(e)'
  <2> SUFFICES ASSUME NEW e \in 1 .. count, key[e] = k PROVE Replaced(e)'
    OBVIOUS
  <2>1. new \in e + 1 .. count' /\ e \in Events /\ e # new
    BY <1>1 DEF Events
  <2>2. key'[new] = key'[e]
    BY <1>2, <2>1
  <2>3. QED
    BY <2>1, <2>2 DEF Replaced
<1>6. PendingNewest'
  <2> SUFFICES ASSUME NEW j \in Keys, pending'[j] # 0
               PROVE  /\ pending'[j] \in 1 .. count' /\ key'[pending'[j]] = j
                      /\ timer'[pending'[j]] \in {"armed", "fired"}
                      /\ ~(Replaced(pending[j])')
    BY DEF PendingNewest
  <2>1. CASE j = k
    <3>1. ~(Replaced(pending[j])')
      BY <1>1, <1>2, <2>1 DEF Replaced, Events
    <3>2. QED
      BY <1>1, <1>2, <1>3, <2>1, <3>1 DEF Events
  <2>2. CASE j # k
    <3>1. /\ pending'[j] = pending[j] /\ pending[j] \in 1 .. count
          /\ key[pending[j]] = j /\ timer[pending[j]] \in {"armed", "fired"}
          /\ ~Replaced(pending[j])
      BY <1>2, <2>2 DEF DebounceInv, PendingNewest
    <3>2. pending[j] \in Events /\ pending[j] # new /\ pending[j] \in 1 .. count'
      BY <1>1, <3>1 DEF Events
    <3>3. pending[j] # pending[k]
      <4>1. CASE pending[k] = 0
        BY <3>1, <4>1
      <4>2. CASE pending[k] # 0
        BY <2>2, <3>1, <4>2 DEF DebounceInv, PendingNewest
      <4>3. QED
        BY <4>1, <4>2
    <3>4. ASSUME NEW f \in pending[j] + 1 .. count' PROVE key'[f] # j
      <4>1. CASE f = new
        BY <1>2, <2>2, <4>1
      <4>2. CASE f # new
        <5>1. f \in pending[j] + 1 .. count /\ f \in Events
          BY <1>1, <3>1, <4>2 DEF Events
        <5>2. key[f] # key[pending[j]]
          BY <3>1, <5>1 DEF Replaced
        <5>3. QED
          BY <1>2, <3>1, <4>2, <5>1, <5>2
      <4>3. QED
        BY <4>1, <4>2
    <3>5. key'[pending[j]] = j
      BY <1>2, <3>1, <3>2
    <3>6. ~(Replaced(pending[j])')
      BY <3>1, <3>4, <3>5 DEF Replaced
    <3>7. QED
      BY <1>3, <3>1, <3>2, <3>3, <3>5, <3>6
  <2>3. QED
    BY <2>1, <2>2
<1>7. ArmedPending'
  <2> SUFFICES ASSUME NEW e \in Events, timer'[e] = "armed"
               PROVE  pending'[key'[e]] = e
    BY DEF ArmedPending
  <2>1. CASE e = new
    BY <1>2, <2>1
  <2>2. CASE e # new
    <3>1. timer[e] = "armed" /\ e # pending[k]
      BY <1>3, <2>2
    <3>2. pending[key[e]] = e /\ key[e] \in Keys
      BY <3>1, RaisedKey DEF DebounceInv, ArmedPending
    <3>3. QED
      BY <1>2, <2>2, <3>1, <3>2
  <2>3. QED
    BY <2>1, <2>2
<1>8. LateReplaced'
  <2> SUFFICES ASSUME NEW e \in Events, timer'[e] = "fired"
               PROVE  pending'[key'[e]] = e \/ Replaced(e)'
    BY DEF LateReplaced
  <2>1. e # new /\ timer[e] = "fired"
    BY <1>3
  <2>2. e \in 1 .. count /\ key[e] \in Keys
    BY <2>1, RaisedKey
  <2>3. pending[key[e]] = e \/ Replaced(e)
    BY <2>1 DEF DebounceInv, LateReplaced
  <2>4. QED
    BY <1>2, <1>4, <1>5, <2>1, <2>2, <2>3
<1>9. Unborn'
  <2>1. \A e \in Events : timer[e] = "none" <=> e > count
    BY DEF DebounceInv, Unborn
  <2>2. \A e \in Events : e # new => (timer'[e] = "none" <=> timer[e] = "none")
    BY <1>3
  <2>3. \A e \in Events : e # new => (e > count <=> e > count')
    BY <1>1 DEF Events
  <2>4. timer'[new] # "none" /\ ~(new > count')
    BY <1>1, <1>3 DEF Events
  <2>5. QED
    BY <2>1, <2>2, <2>3, <2>4 DEF Unborn
<1>10. NoLostEvent'
  <2> SUFFICES ASSUME NEW e \in Events, timer'[e] \in {"stopped", "superseded"}
               PROVE  Replaced(e)'
    BY DEF NoLostEvent
  <2>1. e # new
    BY <1>3
  <2>2. CASE timer[e] \in {"stopped", "superseded"}
    BY <1>4, <2>1, <2>2 DEF DebounceInv, NoLostEvent
  <2>3. CASE e = pending[k] /\ timer[e] = "armed"
    <3>1. e \in 1 .. count /\ key[e] = k
      BY <2>3, RaisedKey, <1>1 DEF DebounceInv, PendingNewest, Events
    <3>2. QED
      BY <1>5, <3>1
  <2>4. QED
    BY <1>3, <2>1, <2>2, <2>3
<1>11. QED
  BY <1>6, <1>7, <1>8, <1>9, <1>10

(* A firing timer stays the timer of the pending entry.                    *)
LEMMA TimerFiresInv ==
  ASSUME DebounceInv, NEW e \in Events, TimerFires(e)
  PROVE  PendingNewest' /\ ArmedPending' /\ LateReplaced' /\ Unborn' /\ NoLostEvent'
<1>1. /\ timer \in [Events -> Timer] /\ pending \in [Keys -> 0 .. MaxEvents]
      /\ UNCHANGED <<count, key, pending>> /\ count \in 0 .. MaxEvents
  BY DEF DebounceInv, TypeOK, TimerFires
<1>2. /\ timer[e] = "armed" /\ timer'[e] = "fired"
      /\ \A f \in Events : f # e => timer'[f] = timer[f]
  BY <1>1 DEF TimerFires
<1>3. \A f \in Events : Replaced(f)' <=> Replaced(f)
  BY <1>1 DEF Replaced
<1>4. \A k \in Keys : pending[k] # 0 => pending[k] \in Events
  BY <1>1, BoundAssumption DEF Events
<1>5. PendingNewest'
  BY <1>1, <1>2, <1>3, <1>4 DEF DebounceInv, PendingNewest
<1>6. ArmedPending' /\ LateReplaced'
  BY <1>1, <1>2, <1>3 DEF DebounceInv, ArmedPending, LateReplaced
<1>7. Unborn' /\ NoLostEvent'
  BY <1>1, <1>2, <1>3 DEF DebounceInv, Unborn, NoLostEvent
<1>8. QED
  BY <1>5, <1>6, <1>7

(* A timer function takes its own entry, which is the pending one, or      *)
(* gives up because another one is: that one is newer.                     *)
LEMMA TimerChecksInv ==
  ASSUME DebounceInv, NEW e \in Events, TimerChecks(e)
  PROVE  PendingNewest' /\ ArmedPending' /\ LateReplaced' /\ Unborn' /\ NoLostEvent'
<1>1. /\ timer \in [Events -> Timer] /\ pending \in [Keys -> 0 .. MaxEvents]
      /\ UNCHANGED <<count, key>> /\ count \in 0 .. MaxEvents
      /\ timer[e] = "fired"
  BY DEF DebounceInv, TypeOK, TimerChecks
<1>2. /\ timer'[e] \in {"taken", "superseded"}
      /\ \A f \in Events : f # e => timer'[f] = timer[f]
  BY <1>1 DEF TimerChecks
<1>3. \A f \in Events : Replaced(f)' <=> Replaced(f)
  BY <1>1 DEF Replaced
<1>4. key[e] \in Keys
  BY <1>1, RaisedKey
<1>5. \A k \in Keys : pending'[k] # 0 => pending'[k] = pending[k] /\ pending[k] # e
  <2> SUFFICES ASSUME NEW k \in Keys, pending'[k] # 0
               PROVE  pending'[k] = pending[k] /\ pending[k] # e
    OBVIOUS
  <2>1. pending'[k] = pending[k]
    BY <1>1, <1>4 DEF TimerChecks
  <2>2. pending[k] = e => k = key[e]
    BY <1>1, <2>1 DEF DebounceInv, PendingNewest
  <2>3. pending'[key[e]] # e
    BY <1>1, <1>4, BoundAssumption DEF TimerChecks, Events
  <2>4. QED
    BY <2>1, <2>2, <2>3
<1>6. \A f \in Events : f # e /\ timer[f] \in {"armed", "fired"} /\ pending[key[f]] = f
        => pending'[key[f]] = f
  <2> SUFFICES ASSUME NEW f \in Events, f # e, pending[key[f]] = f,
                      timer[f] \in {"armed", "fired"}
               PROVE  pending'[key[f]] = f
    OBVIOUS
  <2>1. key[f] \in Keys
    BY RaisedKey
  <2>2. QED
    BY <1>1, <1>4, <2>1 DEF TimerChecks
<1>7. PendingNewest'
  <2> SUFFICES ASSUME NEW k \in Keys, pending'[k] # 0
               PROVE  /\ pending'[k] \in 1 .. count /\ key[pending'[k]] = k
                      /\ timer'[pending'[k]] \in {"armed", "fired"}
                      /\ ~(Replaced(pending[k])')
    BY <1>1 DEF PendingNewest
  <2>1. pending'[k] = pending[k] /\ pending[k] # e /\ pending[k] \in Events
    BY <1>1, <1>5, BoundAssumption DEF Events
  <2>2. /\ pending[k] \in 1 .. count /\ key[pending[k]] = k
        /\ timer[pending[k]] \in {"armed", "fired"} /\ ~Replaced(pending[k])
    BY <2>1 DEF DebounceInv, PendingNewest
  <2>3. ~(Replaced(pending[k])')
    BY <1>1, <2>1, <2>2 DEF Replaced
  <2>4. QED
    BY <1>2, <2>1, <2>2, <2>3
<1>8. ArmedPending'
  BY <1>1, <1>2, <1>6 DEF DebounceInv, ArmedPending
<1>9. LateReplaced'
  BY <1>1, <1>2, <1>3, <1>6 DEF DebounceInv, LateReplaced
<1>10. Unborn'
  BY <1>1, <1>2 DEF DebounceInv, Unborn
<1>11. NoLostEvent'
  <2>1. timer'[e] = "superseded" => Replaced(e)
    BY <1>1 DEF TimerChecks, DebounceInv, LateReplaced
  <2>2. QED
    BY <1>1, <1>2, <1>3, <2>1 DEF DebounceInv, NoLostEvent
<1>12. QED
  BY <1>7, <1>8, <1>9, <1>10, <1>11

(* A send, and the hand-over to the forwarder.                             *)
LEMMA TimerSendsInv ==
  ASSUME DebounceInv, TypeOK', NEW e \in Events, TimerSends(e)
  PROVE  PendingNewest' /\ ArmedPending' /\ LateReplaced' /\ Unborn'
         /\ NoLostEvent' /\ Relayed'
<1> DEFINE s == key[e].src
           sent == IF s = Main THEN "sent" ELSE "relay"
<1>1. /\ s \in Sources /\ timer[e] = "taken" /\ Offer(e, s, sent, out)
      /\ timer \in [Events -> Timer] /\ out \in [Sources -> Seq(Events)]
      /\ UNCHANGED <<count, key, pending>>
  BY RaisedKey DEF TimerSends, DebounceInv, TypeOK
<1>2. PICK end \in {sent, "dropped", "panicked"} : timer' = [timer EXCEPT ![e] = end]
  BY <1>1, OfferType DEF DebounceInv
<1>3. PendingNewest' /\ ArmedPending' /\ LateReplaced' /\ Unborn' /\ NoLostEvent'
  BY <1>1, <1>2, SettleEntry DEF Timer
<1> SUFFICES Relayed'
  BY <1>3
<1>4. \A f \in Events : timer[f] = "relay" => timer'[f] = "relay" /\ f # e
  BY <1>1, <1>2
<1>5. CASE "ino" \in Sources /\ Main # "ino" => out'["ino"] = out["ino"]
  BY <1>4, <1>5, RelayKept
<1>6. CASE /\ "ino" \in Sources /\ Main # "ino" /\ s = "ino"
           /\ out'["ino"] = Append(out["ino"], e) /\ timer'[e] = "relay"
  <2> DEFINE q == out["ino"]
  <2>1. q \in Seq(Events) /\ Len(q) \in Nat
    BY <1>1, <1>6, LenProperties
  <2>2. /\ Len(out'["ino"]) = Len(q) + 1 /\ out'["ino"][Len(q) + 1] = e
        /\ \A i \in 1 .. Len(q) : out'["ino"][i] = q[i]
    BY <1>6, <2>1, AppendProperties
  <2>3. \A i \in 1 .. Len(q) : /\ q[i] \in Events /\ timer[q[i]] = "relay"
                               /\ \A j \in 1 .. Len(q) : q[i] = q[j] => i = j
    BY <1>6, <2>1, ElementOfSeq DEF DebounceInv, Relayed
  <2>4. \A i \in 1 .. Len(q) : q[i] # e /\ timer'[q[i]] = "relay"
    BY <1>4, <2>3
  <2>5. \A i \in 1 .. Len(q) + 1 : i \in 1 .. Len(q) \/ i = Len(q) + 1
    BY <2>1
  <2>6. QED
    BY <1>6, <2>2, <2>3, <2>4, <2>5 DEF Relayed
<1>7. QED
  <2>1. out' = out \/ (out' = [out EXCEPT ![s] = Append(out[s], e)] /\ timer'[e] = sent)
    BY <1>1 DEF Offer
  <2>2. CASE out' = out
    BY <1>5, <2>2
  <2>3. CASE out' = [out EXCEPT ![s] = Append(out[s], e)] /\ timer'[e] = sent
    BY <1>1, <1>5, <1>6, <2>3
  <2>4. QED
    BY <2>1, <2>2, <2>3

(* The forwarder settles the event at the head and keeps the others.       *)
LEMMA ForwardInv ==
  ASSUME DebounceInv, TypeOK', Forward
  PROVE  PendingNewest' /\ ArmedPending' /\ LateReplaced' /\ Unborn'
         /\ NoLostEvent' /\ Relayed'
<1> DEFINE q == out["ino"]
           rest == [out EXCEPT !["ino"] = Tail(q)]
<1>1. /\ Head(q) \in Events /\ timer[Head(q)] = "relay"
      /\ rest \in [Sources -> Seq(Events)]
      /\ Offer(Head(q), Main, "sent", rest)
      /\ "ino" \in Sources /\ Main # "ino" /\ q # << >>
      /\ timer \in [Events -> Timer] /\ out \in [Sources -> Seq(Events)]
      /\ UNCHANGED <<count, key, pending>>
  BY ForwardHead DEF Forward, DebounceInv, TypeOK
<1>2. PICK end \in {"sent", "dropped", "panicked"} :
        timer' = [timer EXCEPT ![Head(q)] = end]
  BY <1>1, MainSource, OfferType DEF DebounceInv
<1>3. PendingNewest' /\ ArmedPending' /\ LateReplaced' /\ Unborn' /\ NoLostEvent'
  BY <1>1, <1>2, SettleEntry DEF Timer
<1>4. Relayed'
  <2>1. q \in Seq(Events) /\ Len(q) \in Nat /\ Head(q) = q[1]
    BY <1>1, LenProperties
  <2>2. /\ Len(Tail(q)) = Len(q) - 1
        /\ \A i \in 1 .. Len(Tail(q)) : Tail(q)[i] = q[i + 1]
    BY <1>1, <2>1, HeadTailProperties
  <2>3. out'["ino"] = Tail(q)
    BY <1>1 DEF Offer
  <2>4. \A i \in 1 .. Len(q) : /\ q[i] \in Events /\ timer[q[i]] = "relay"
                               /\ \A j \in 1 .. Len(q) : q[i] = q[j] => i = j
    BY <1>1, <2>1, ElementOfSeq DEF DebounceInv, Relayed
  <2>5. \A i \in 1 .. Len(Tail(q)) : i + 1 \in 1 .. Len(q) /\ i + 1 # 1 /\ 1 \in 1 .. Len(q)
    BY <2>1, <2>2
  <2>6. \A i \in 1 .. Len(Tail(q)) : Tail(q)[i] # Head(q) /\ timer'[Tail(q)[i]] = "relay"
    BY <1>1, <1>2, <2>1, <2>2, <2>4, <2>5
  <2>7. \A i, j \in 1 .. Len(Tail(q)) : Tail(q)[i] = Tail(q)[j] => i = j
    <3>1. \A i, j \in 1 .. Len(Tail(q)) : q[i + 1] = q[j + 1] => i + 1 = j + 1
      BY <2>4, <2>5
    <3>2. QED
      BY <2>1, <2>2, <3>1
  <2>8. QED
    BY <2>3, <2>6, <2>7 DEF Relayed
<1>5. QED
  BY <1>3, <1>4

(* Run starts with nothing pending.                                        *)
LEMMA DebounceInit == Init => DebounceInv
<1> SUFFICES ASSUME Init PROVE DebounceInv
  OBVIOUS
<1> USE BoundAssumption DEF Events
<1>1. TypeOK
  <2>1. << >> \in Seq(Events)
    BY EmptySeq
  <2>2. out \in [Sources -> Seq(Events)]
    BY <2>1 DEF Init
  <2>3. timer \in [Events -> Timer] /\ pending \in [Keys -> 0 .. MaxEvents]
    BY DEF Init, Timer
  <2>4. count \in 0 .. MaxEvents /\ \A e \in 1 .. count : key[e] \in Keys
    BY DEF Init
  <2>5. key \in [Events -> Keys \cup {NoKey}]
    BY DEF Init
  <2>6. closed \in SUBSET Sources /\ ctxDone \in BOOLEAN /\ panicked \in BOOLEAN
    BY DEF Init
  <2>7. QED
    BY <2>2, <2>3, <2>4, <2>5, <2>6 DEF TypeOK
<1>2. PendingNewest /\ ArmedPending /\ LateReplaced /\ NoLostEvent
  BY DEF Init, PendingNewest, ArmedPending, LateReplaced, NoLostEvent
<1>3. Unborn
  BY DEF Init, Unborn
<1>4. Relayed
  <2>1. "ino" \in Sources => Len(out["ino"]) = 0
    BY EmptySeq DEF Init
  <2>2. QED
    BY <2>1 DEF Relayed
<1>5. QED
  BY <1>1, <1>2, <1>3, <1>4 DEF DebounceInv

(* Every step of the watcher preserves the invariant.                      *)
LEMMA DebounceNext == DebounceInv /\ [Next]_vars => DebounceInv'
<1> SUFFICES ASSUME DebounceInv, [Next]_vars PROVE DebounceInv'
  OBVIOUS
<1>0. TypeOK'
  BY TypeNext
<1>t. timer \in [Events -> Timer] /\ out \in [Sources -> Seq(Events)]
  BY DEF DebounceInv, TypeOK
<1> DEFINE Same == /\ PendingNewest' /\ ArmedPending' /\ LateReplaced' /\ Unborn'
                   /\ NoLostEvent' /\ Relayed'
<1> SUFFICES Same
  BY <1>0 DEF DebounceInv
<1>1. ASSUME NEW k \in Keys, debounce(k) PROVE Same
  <2>1. \A e \in Events : timer[e] = "relay" => timer'[e] = "relay"
    <3>1. count + 1 \in Events => timer[count + 1] = "none"
      BY BoundAssumption DEF DebounceInv, Unborn, TypeOK, Events
    <3>2. QED
      BY <1>1, <3>1 DEF debounce
  <2>2. Relayed'
    BY <1>0, <1>1, <2>1, RelayKept DEF debounce
  <2>3. QED
    BY <1>1, <2>2, debounceInv
<1>2. ASSUME NEW e \in Events, TimerFires(e) PROVE Same
  <2>1. Relayed'
    BY <1>0, <1>t, <1>2, RelayKept DEF TimerFires
  <2>2. QED
    BY <1>2, <2>1, TimerFiresInv
<1>3. ASSUME NEW e \in Events, TimerChecks(e) PROVE Same
  <2>1. Relayed'
    BY <1>0, <1>t, <1>3, RelayKept DEF TimerChecks
  <2>2. QED
    BY <1>3, <2>1, TimerChecksInv
<1>4. ASSUME NEW e \in Events, TimerSends(e) PROVE Same
  BY <1>0, <1>4, TimerSendsInv
<1>5. CASE Forward
  BY <1>0, <1>5, ForwardInv
<1>6. ASSUME UNCHANGED <<count, key, timer, pending>>,
             "ino" \in Sources /\ Main # "ino" => out'["ino"] = out["ino"]
      PROVE  Same
  <2>1. Relayed'
    BY <1>0, <1>6, RelayKept
  <2>2. PendingNewest' /\ ArmedPending' /\ LateReplaced' /\ Unborn' /\ NoLostEvent'
    BY <1>6 DEF DebounceInv, PendingNewest, ArmedPending, LateReplaced, Unborn,
                NoLostEvent, Replaced
  <2>3. QED
    BY <2>1, <2>2
<1>7. CASE Consume
  BY <1>t, <1>6, <1>7 DEF Consume
<1>8. CASE Shutdown \/ UNCHANGED vars
  BY <1>6, <1>8 DEF Shutdown, vars
<1>9. ASSUME NEW s \in Sources, RunReturns(s) PROVE Same
  BY <1>6, <1>9 DEF RunReturns
<1>10. QED
  BY <1>1, <1>2, <1>3, <1>4, <1>5, <1>7, <1>8, <1>9 DEF Next

(* The invariant of debouncing, on every behaviour of the watcher.         *)
THEOREM DebounceCorrect == Spec => []DebounceInv
<1>1. Init => DebounceInv
  BY DebounceInit
<1>2. DebounceInv /\ [Next]_vars => DebounceInv'
  BY DebounceNext
<1>3. QED
  BY <1>1, <1>2, PTL DEF Spec

(* Rapid events coalesce: one armed timer per path.                        *)
THEOREM OneArmedTimerAlways == Spec => []OneArmedTimer
<1>1. DebounceInv => OneArmedTimer
  BY DEF DebounceInv, ArmedPending, OneArmedTimer
<1>2. QED
  BY <1>1, DebounceCorrect, PTL

(* Only the newest event for a path is taken out of pending and emitted.   *)
THEOREM EmitsNewestAlways == Spec => EmitsNewest
<1>1. DebounceInv /\ [Next]_vars =>
        [\A e \in Events :
           timer[e] = "fired" /\ timer'[e] = "taken" => ~Replaced(e)]_vars
  <2> SUFFICES ASSUME DebounceInv, [Next]_vars, NEW e \in Events,
                      timer[e] = "fired", timer'[e] = "taken"
               PROVE  ~Replaced(e)
    OBVIOUS
  <2>1. TypeOK /\ timer \in [Events -> Timer]
    BY DEF DebounceInv, TypeOK
  <2>2. ASSUME NEW f \in Events, NEW end, timer' = [timer EXCEPT ![f] = end], end # "taken"
        PROVE  FALSE
    BY <2>1, <2>2
  <2>3. CASE TimerChecks(e)
    <3>1. pending[key[e]] = e
      BY <2>1, <2>3 DEF TimerChecks
    <3>2. key[e] \in Keys
      BY RaisedKey
    <3>3. QED
      BY <3>1, <3>2, BoundAssumption DEF DebounceInv, PendingNewest, Events
  <2>4. ASSUME NEW f \in Events, TimerChecks(f), f # e PROVE FALSE
    BY <2>1, <2>4 DEF TimerChecks
  <2>5. ASSUME NEW f \in Events, TimerFires(f) PROVE FALSE
    BY <2>2, <2>5 DEF TimerFires
  <2>6. ASSUME NEW f \in Events, TimerSends(f) PROVE FALSE
    BY <2>1, <2>6 DEF TimerSends, Offer
  <2>7. ASSUME Forward PROVE FALSE
    <3>1. Head(out["ino"]) \in Events
      BY <2>7, ForwardHead
    <3>2. QED
      BY <2>1, <2>7, <3>1 DEF Forward, Offer
  <2>8. ASSUME NEW k \in Keys, debounce(k) PROVE FALSE
    BY <2>1, <2>8 DEF debounce
  <2>9. ASSUME UNCHANGED timer PROVE FALSE
    BY <2>9
  <2>10. QED
    BY <2>3, <2>4, <2>5, <2>6, <2>7, <2>8, <2>9
       DEF Next, Consume, Shutdown, RunReturns, vars
<1>2. QED
  BY <1>1, DebounceCorrect, PTL DEF Spec, EmitsNewest

(* A step that settles one live event is a step of the stream.             *)
LEMMA SettleSimulation ==
  ASSUME DebounceInv, NEW e \in Events, NEW end \in Timer,
         timer[e] \in {"fired", "taken", "relay"},
         end \in {"superseded", "sent", "dropped", "panicked"},
         end = "superseded" => Replaced(e),
         timer' = [timer EXCEPT ![e] = end], UNCHANGED <<count, key>>
  PROVE  Stream!StreamNext
<1> DEFINE final == IF end = "sent" THEN "delivered"
                    ELSE IF end = "superseded" THEN "superseded" ELSE "dropped"
<1>1. timer \in [Events -> Timer] /\ count \in 0 .. MaxEvents
  BY DEF DebounceInv, TypeOK
<1>2. fate[e] = "live" /\ fate' = [fate EXCEPT ![e] = final]
  BY <1>1 DEF fate, Fate
<1>3. final = "superseded" => Stream!Outdated(e)
  <2> SUFFICES ASSUME end = "superseded" PROVE Stream!Outdated(e)
    OBVIOUS
  <2>1. PICK f \in e + 1 .. count : key[f] = key[e]
    BY DEF Replaced
  <2>2. f \in Events
    BY <1>1, <2>1, BoundAssumption DEF Events
  <2>3. pathOf[f] = pathOf[e]
    BY <2>1, <2>2 DEF pathOf
  <2>4. QED
    BY <2>3 DEF Stream!Outdated
<1>4. UNCHANGED <<count, pathOf>>
  BY DEF pathOf
<1>5. Stream!Settle(e, final)
  BY <1>2, <1>3, <1>4 DEF Stream!Settle
<1>6. final \in {"superseded", "delivered", "dropped"}
  OBVIOUS
<1>7. QED
  BY <1>5, <1>6 DEF Stream!StreamNext, Stream!Events, Events

(* debounce raises an event and at most supersedes the pending one.        *)
LEMMA RaiseSimulation ==
  ASSUME DebounceInv, NEW k \in Keys, debounce(k)
  PROVE  Stream!StreamNext
<1> USE BoundAssumption
<1> DEFINE new == count + 1
           old == {e \in 1 .. count : e = pending[k] /\ timer[e] = "armed"}
<1>1. /\ timer \in [Events -> Timer] /\ key \in [Events -> Keys \cup {NoKey}]
      /\ count \in 0 .. MaxEvents /\ new \in Events /\ count < MaxEvents
      /\ count' = new /\ key' = [key EXCEPT ![new] = k]
  BY DEF DebounceInv, TypeOK, debounce, Events
<1>2. pathOf' = [pathOf EXCEPT ![new] = k.path]
  BY <1>1 DEF pathOf
<1>3. old \in SUBSET {e \in 1 .. count : fate[e] = "live" /\ pathOf[e] = k.path}
  <2> SUFFICES ASSUME NEW e \in 1 .. count, e = pending[k], timer[e] = "armed"
               PROVE  fate[e] = "live" /\ pathOf[e] = k.path
    OBVIOUS
  <2>1. e \in Events /\ key[e] = k
    BY <1>1 DEF DebounceInv, PendingNewest, Events
  <2>2. QED
    BY <2>1 DEF fate, Fate, pathOf
<1>4. fate' = [e \in Events |-> IF e = new THEN "live"
                               ELSE IF e \in old THEN "superseded" ELSE fate[e]]
  <2> SUFFICES ASSUME NEW e \in Events
               PROVE  fate'[e] = IF e = new THEN "live"
                                 ELSE IF e \in old THEN "superseded" ELSE fate[e]
    BY DEF fate
  <2>1. CASE e = new
    BY <1>1, <2>1 DEF debounce, fate, Fate
  <2>2. CASE e # new /\ e \in old
    BY <2>2 DEF debounce, fate, Fate
  <2>3. CASE e # new /\ e \notin old
    <3>1. timer'[e] = timer[e]
      <4>1. timer[e] = "armed" => e \in 1 .. count
        BY RaisedKey
      <4>2. QED
        BY <2>3, <4>1 DEF debounce
    <3>2. QED
      BY <2>3, <3>1 DEF fate, Fate
  <2>4. QED
    BY <2>1, <2>2, <2>3
<1>5. Stream!Raise(k.path)
  BY <1>1, <1>2, <1>3, <1>4 DEF Stream!Raise, Stream!Events, Events
<1>6. k.path \in Paths
  BY DEF Keys
<1>7. QED
  BY <1>5, <1>6 DEF Stream!StreamNext

(* Steps that neither raise nor settle an event.                           *)
LEMMA StutterSimulation ==
  ASSUME DebounceInv, NEW e \in Events, NEW end,
         timer[e] \in {"armed", "fired", "taken"}, end \in {"fired", "taken", "relay"},
         timer' = [timer EXCEPT ![e] = end], UNCHANGED <<count, key>>
  PROVE  UNCHANGED Stream!streamVars
<1>1. timer \in [Events -> Timer]
  BY DEF DebounceInv, TypeOK
<1>2. fate' = fate
  BY <1>1 DEF fate, Fate
<1>3. pathOf' = pathOf
  BY DEF pathOf
<1>4. QED
  BY <1>2, <1>3 DEF Stream!streamVars

(* The watcher implements EventStream: whatever the timers, the forwarder  *)
(* and the shutdown do, an event is delivered, dropped at a full or closed *)
(* channel, or superseded by a newer one for its path.                     *)
THEOREM WatcherImplementsStream == Spec => ImplementsStream
<1>1. Init => Stream!StreamInit
  BY DEF Init, Stream!StreamInit, Stream!Events, Events, pathOf, fate, Fate, NoKey
<1>2. DebounceInv /\ [Next]_vars => [Stream!StreamNext]_(Stream!streamVars)
  <2> SUFFICES ASSUME DebounceInv, [Next]_vars
               PROVE  Stream!StreamNext \/ UNCHANGED Stream!streamVars
    OBVIOUS
  <2>1. ASSUME NEW k \in Keys, debounce(k) PROVE Stream!StreamNext
    BY <2>1, RaiseSimulation
  <2>2. ASSUME NEW e \in Events, TimerFires(e) PROVE UNCHANGED Stream!streamVars
    BY <2>2, StutterSimulation DEF TimerFires
  <2>3. ASSUME NEW e \in Events, TimerChecks(e)
        PROVE  Stream!StreamNext \/ UNCHANGED Stream!streamVars
    <3>1. CASE timer' = [timer EXCEPT ![e] = "taken"]
      BY <2>3, <3>1, StutterSimulation DEF TimerChecks
    <3>2. CASE pending[key[e]] # e /\ timer' = [timer EXCEPT ![e] = "superseded"]
      <4>1. Replaced(e)
        BY <2>3, <3>2 DEF TimerChecks, DebounceInv, LateReplaced
      <4>2. QED
        BY <2>3, <3>2, <4>1, SettleSimulation DEF TimerChecks, Timer
    <3>3. QED
      BY <2>3, <3>1, <3>2 DEF TimerChecks
  <2>4. ASSUME NEW e \in Events, TimerSends(e)
        PROVE  Stream!StreamNext \/ UNCHANGED Stream!streamVars
    <3>0. timer[e] = "taken" /\ UNCHANGED <<count, key>>
      BY <2>4 DEF TimerSends
    <3>1. CASE timer' = [timer EXCEPT ![e] = "relay"]
      <4>1. timer \in [Events -> Timer]
        BY DEF DebounceInv, TypeOK
      <4>2. fate' = fate
        BY <3>0, <3>1, <4>1 DEF fate, Fate
      <4>3. pathOf' = pathOf
        BY <3>0 DEF pathOf
      <4>4. QED
        BY <3>0, <4>2, <4>3 DEF Stream!streamVars
    <3>2. ASSUME NEW end \in {"sent", "dropped", "panicked"},
                 timer' = [timer EXCEPT ![e] = end]
          PROVE  Stream!StreamNext
      BY <3>0, <3>2, SettleSimulation DEF Timer
    <3>3. \E end \in {"relay", "sent", "dropped", "panicked"} :
            timer' = [timer EXCEPT ![e] = end]
      BY <2>4 DEF TimerSends, Offer
    <3>4. QED
      BY <3>1, <3>2, <3>3
  <2>5. CASE Forward
    <3>1. Head(out["ino"]) \in Events /\ timer[Head(out["ino"])] = "relay"
      BY <2>5, ForwardHead
    <3>2. ASSUME NEW end \in {"sent", "dropped", "panicked"},
                 timer' = [timer EXCEPT ![Head(out["ino"])] = end]
          PROVE  Stream!StreamNext
      BY <2>5, <3>1, <3>2, SettleSimulation DEF Forward, Timer
    <3>3. QED
      BY <2>5, <3>2 DEF Forward, Offer
  <2>6. ASSUME UNCHANGED <<count, key, timer>> PROVE UNCHANGED Stream!streamVars
    BY <2>6 DEF Stream!streamVars, pathOf, fate, Fate
  <2>7. CASE Consume \/ Shutdown \/ UNCHANGED vars
    BY <2>6, <2>7 DEF Consume, Shutdown, vars
  <2>8. ASSUME NEW s \in Sources, RunReturns(s) PROVE UNCHANGED Stream!streamVars
    BY <2>6, <2>8 DEF RunReturns
  <2>9. QED
    BY <2>1, <2>2, <2>3, <2>4, <2>5, <2>7, <2>8 DEF Next
<1>3. QED
  BY <1>1, <1>2, DebounceCorrect, PTL DEF Spec, ImplementsStream, Stream!StreamSpec

-----------------------------------------------------------------------------
(***************************************************************************)
(* Why every event settles.                                                *)
(***************************************************************************)
\* What becomes of a timer: never back, and from a settled state nowhere.
Onward(now, next) ==
  \/ now = next
  \/ now = "none" /\ next = "armed"
  \/ now = "armed" /\ next \in {"stopped", "fired"}
  \/ now = "fired" /\ next \in {"taken", "superseded"}
  \/ now = "taken" /\ next \in {"relay", "sent", "dropped", "panicked"}
  \/ now = "relay" /\ next \in {"sent", "dropped", "panicked"}

\* What waits for the forwarder is in the channel the forwarder reads.
RelayQueued ==
  \A e \in Events : timer[e] = "relay" =>
    /\ "ino" \in Sources /\ Main # "ino"
    /\ \E i \in 1 .. Len(out["ino"]) : out["ino"][i] = e

\* Nothing gets before it there.
ComesNearer ==
  \A e \in Events : timer[e] = "relay" /\ timer'[e] = "relay" =>
    \A i \in 1 .. Len(out["ino"]) : out["ino"][i] = e =>
      \E j \in 1 .. Len(out'["ino"]) : j <= i /\ out'["ino"][j] = e

MovesOnward == \A e \in Events : Onward(timer[e], timer'[e])

LEMMA OnwardStep == DebounceInv /\ [Next]_vars => MovesOnward
<1>. SUFFICES ASSUME DebounceInv, [Next]_vars, NEW e \in Events
              PROVE  Onward(timer[e], timer'[e])
  BY DEF MovesOnward
<1>1. timer \in [Events -> Timer]
  BY DEF DebounceInv, TypeOK
<1>2. ASSUME NEW k \in Keys, debounce(k) PROVE Onward(timer[e], timer'[e])
  <2>1. e = count + 1 => timer[e] = "none"
    BY <1>2, BoundAssumption DEF debounce, DebounceInv, Unborn, TypeOK, Events
  <2>. QED BY <1>2, <2>1 DEF debounce, Onward
<1>3. ASSUME NEW f \in Events, TimerFires(f) \/ TimerChecks(f)
      PROVE  Onward(timer[e], timer'[e])
  BY <1>1, <1>3 DEF TimerFires, TimerChecks, Onward
<1>4. ASSUME NEW f \in Events, TimerSends(f) PROVE Onward(timer[e], timer'[e])
  <2>1. timer[f] = "taken" /\ \E end \in {"relay", "sent", "dropped", "panicked"} :
          timer' = [timer EXCEPT ![f] = end]
    BY <1>4 DEF TimerSends, Offer
  <2>. QED BY <1>1, <2>1 DEF Onward
<1>5. CASE Forward
  <2>1. PICK f : f = Head(out["ino"])
    OBVIOUS
  <2>2. timer[f] = "relay" /\ f \in Events
    BY <1>5, <2>1, ForwardHead DEF Forward, DebounceInv
  <2>3. \E end \in {"sent", "dropped", "panicked"} : timer' = [timer EXCEPT ![f] = end]
    BY <1>5, <2>1 DEF Forward, Offer
  <2>. QED BY <1>1, <2>2, <2>3 DEF Onward
<1>6. CASE UNCHANGED timer
  BY <1>6 DEF Onward
<1>. QED BY <1>2, <1>3, <1>4, <1>5, <1>6 DEF Next, Consume, Shutdown, RunReturns, vars

(* All that happens to the channel between inotify and the forwarder.      *)
LEMMA InotifyChannel ==
  ASSUME DebounceInv, [Next]_vars, "ino" \in Sources, Main # "ino"
  PROVE  \/ out'["ino"] = out["ino"]
         \/ \E f \in Events : out'["ino"] = Append(out["ino"], f)
         \/ /\ Forward /\ out'["ino"] = Tail(out["ino"])
            /\ timer'[Head(out["ino"])] # "relay"
<1>1. timer \in [Events -> Timer] /\ out \in [Sources -> Seq(Events)]
  BY DEF DebounceInv, TypeOK
<1>2. ASSUME NEW f \in Events, TimerSends(f)
      PROVE  out'["ino"] = out["ino"] \/ out'["ino"] = Append(out["ino"], f)
  BY <1>1, <1>2 DEF TimerSends, Offer
<1>3. CASE Forward
  <2>1. PICK f : f = Head(out["ino"])
    OBVIOUS
  <2>2. PICK rest : rest = [out EXCEPT !["ino"] = Tail(@)]
    OBVIOUS
  <2>3. f \in Events /\ timer[f] = "relay"
    BY <1>3, <2>1, ForwardHead
  <2>4. Offer(f, Main, "sent", rest) /\ rest["ino"] = Tail(out["ino"])
    BY <1>1, <1>3, <2>1, <2>2 DEF Forward
  <2>5. out'["ino"] = rest["ino"]
    <3>1. rest \in [Sources -> Seq(Events)]
      BY <1>3, <2>2, ForwardHead
    <3>2. out' = rest \/ out' = [rest EXCEPT ![Main] = Append(@, f)]
      BY <2>4 DEF Offer
    <3>. QED BY <3>1, <3>2
  <2>6. timer'[f] # "relay"
    BY <1>1, <2>3, <2>4 DEF Offer
  <2>. QED BY <1>3, <2>1, <2>4, <2>5, <2>6
<1>4. CASE Consume
  BY <1>1, <1>4 DEF Consume
<1>5. (\A f \in Events : ~TimerSends(f)) /\ ~Forward /\ ~Consume => out' = out
  BY DEF Next, debounce, TimerFires, TimerChecks, Shutdown, RunReturns, vars
<1>. QED BY <1>2, <1>3, <1>4, <1>5

LEMMA NearerStep ==
  ASSUME DebounceInv, RelayQueued, [Next]_vars
  PROVE  ComesNearer
<1>. SUFFICES ASSUME NEW e \in Events, timer[e] = "relay", timer'[e] = "relay",
                     NEW i \in 1 .. Len(out["ino"]), out["ino"][i] = e
              PROVE  \E j \in 1 .. Len(out'["ino"]) : j <= i /\ out'["ino"][j] = e
  BY DEF ComesNearer
<1>1. "ino" \in Sources /\ Main # "ino" /\ out["ino"] \in Seq(Events)
  BY DEF RelayQueued, DebounceInv, TypeOK
<1>2. CASE out'["ino"] = out["ino"]
  BY <1>2
<1>3. ASSUME NEW f \in Events, out'["ino"] = Append(out["ino"], f)
      PROVE  \E j \in 1 .. Len(out'["ino"]) : j <= i /\ out'["ino"][j] = e
  <2>1. i \in 1 .. Len(out'["ino"]) /\ out'["ino"][i] = e
    BY <1>1, <1>3
  <2>. QED BY <2>1
<1>4. CASE out'["ino"] = Tail(out["ino"]) /\ timer'[Head(out["ino"])] # "relay"
  <2>1. i # 1
    BY <1>1, <1>4
  <2>2. i - 1 \in 1 .. Len(out'["ino"]) /\ out'["ino"][i - 1] = e
    BY <1>1, <1>4, <2>1
  <2>. QED BY <2>2
<1>. QED BY <1>1, <1>2, <1>3, <1>4, InotifyChannel

LEMMA RelayQueuedNext == DebounceInv /\ RelayQueued /\ [Next]_vars => RelayQueued'
<1>. SUFFICES ASSUME DebounceInv, RelayQueued, [Next]_vars, NEW e \in Events,
                     timer'[e] = "relay"
              PROVE  /\ "ino" \in Sources /\ Main # "ino"
                     /\ \E i \in 1 .. Len(out'["ino"]) : out'["ino"][i] = e
  BY DEF RelayQueued, Main
<1>1. CASE timer[e] = "relay"
  <2>1. "ino" \in Sources /\ Main # "ino"
        /\ \E i \in 1 .. Len(out["ino"]) : out["ino"][i] = e
    BY <1>1 DEF RelayQueued
  <2>. QED BY <1>1, <2>1, NearerStep DEF ComesNearer
<1>2. CASE timer[e] # "relay"
  <2>1. timer \in [Events -> Timer] /\ out \in [Sources -> Seq(Events)]
    BY DEF DebounceInv, TypeOK
  <2>2. TimerSends(e)
    <3>1. ASSUME NEW f \in Events, TimerSends(f), f # e PROVE FALSE
      BY <1>2, <2>1, <3>1 DEF TimerSends, Offer
    <3>2. ~Forward
      <4>. SUFFICES ASSUME Forward PROVE FALSE
        OBVIOUS
      <4>1. PICK f : f = Head(out["ino"])
        OBVIOUS
      <4>2. \E end \in {"sent", "dropped", "panicked"} : timer' = [timer EXCEPT ![f] = end]
        BY <4>1 DEF Forward, Offer
      <4>. QED BY <1>2, <2>1, <4>2
    <3>3. ASSUME NEW k \in Keys, debounce(k) PROVE FALSE
      BY <1>2, <3>3 DEF debounce
    <3>4. ASSUME NEW f \in Events, TimerFires(f) \/ TimerChecks(f) PROVE FALSE
      BY <1>2, <2>1, <3>4 DEF TimerFires, TimerChecks
    <3>. QED BY <1>2, <3>1, <3>2, <3>3, <3>4 DEF Next, Consume, Shutdown, RunReturns, vars
  <2>3. PICK s : s = key[e].src
    OBVIOUS
  <2>4. s \in Sources /\ s # Main
    BY <1>2, <2>1, <2>2, <2>3, RaisedKey DEF TimerSends, Offer
  <2>5. s = "ino" /\ Main # "ino"
    BY <2>4, SourcesAssumption DEF Main
  <2>6. out'["ino"] = Append(out["ino"], e) /\ out["ino"] \in Seq(Events)
    BY <1>2, <2>1, <2>2, <2>3, <2>4, <2>5 DEF TimerSends, Offer
  <2>7. Len(out["ino"]) + 1 \in 1 .. Len(out'["ino"]) /\ out'["ino"][Len(out["ino"]) + 1] = e
    BY <2>6
  <2>. QED BY <2>4, <2>5, <2>7
<1>. QED BY <1>1, <1>2

\* Why every event settles (the timer functions of debounce, the forwarder of
\* hybrid mode): what became of an event never goes back, what waits for the
\* forwarder is in its channel, and others go before it only if they are there
\* already. Each unsettled event is one step of its timer away from the next.
THEOREM EventsMoveOn ==
  Spec => []RelayQueued /\ [][MovesOnward /\ ComesNearer]_vars
<1>1. Init => RelayQueued
  BY DEF Init, RelayQueued
<1>2. DebounceInv /\ RelayQueued /\ [Next]_vars => [MovesOnward /\ ComesNearer]_vars
  BY OnwardStep, NearerStep
<1>. QED BY <1>1, <1>2, DebounceCorrect, RelayQueuedNext, PTL DEF Spec
=============================================================================
