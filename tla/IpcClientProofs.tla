-------------------------- MODULE IpcClientProofs --------------------------
(***************************************************************************)
(* Correlation of the IPC client, for any number of concurrent Calls and   *)
(* any set of faults.  ClientInv is inductive: each action either leaves   *)
(* reqs, the IDs and the channels alone, or moves one channel from         *)
(* "registered" to "held by readLoop" or to "returned", never back.        *)
(*                                                                         *)
(* And the integers of the messages that Calls exchange, as the JavaScript *)
(* runtime writes and reads them: every one, anywhere in a buffer.         *)
(***************************************************************************)
EXTENDS IpcClient, ProtoWire, WellFoundedInduction, TLAPS

(* An early or late return of Call stores a well-formed outcome.           *)
LEMMA ReturnType ==
  ASSUME TypeOK, NEW c \in Calls, NEW kind \in Outcome, NEW of \in 0 .. MaxID,
         Return(c, kind, of)
  PROVE  /\ pc' \in [Calls -> Pc]
         /\ result' \in [Calls -> Result]
<1>1. [kind |-> kind, of |-> of] \in Result
  BY DEF Result
<1>2. "done" \in Pc
  BY DEF Pc
<1>3. pc \in [Calls -> Pc] /\ result \in [Calls -> Result]
  BY DEF TypeOK
<1>4. QED
  BY <1>1, <1>2, <1>3 DEF Return

(* The state NewClient builds is well typed.                               *)
LEMMA TypeInit == Init => TypeOK
<1>1. NoResult \in Result
  BY MaxIDAssumption DEF NoResult, Result
<1>2. NoGot \in [id : 0 .. MaxID, call : Calls \cup {NoCall}]
  BY MaxIDAssumption DEF NoGot
<1>3. "idle" \in Pc
  BY DEF Pc
<1>4. /\ 1 \in 1 .. (MaxID + 1) /\ 0 \in 0 .. MaxID
      /\ [resp |-> 0, closed |-> FALSE] \in [resp : 0 .. MaxID, closed : BOOLEAN]
  BY MaxIDAssumption
<1> SUFFICES ASSUME Init PROVE TypeOK
  OBVIOUS
<1>5. /\ nextID \in 1 .. (MaxID + 1)
      /\ reqs \in [IDs -> Calls \cup {NoCall}]
      /\ id \in [Calls -> 0 .. MaxID]
  BY <1>4 DEF Init
<1>6. /\ pc \in [Calls -> Pc]
      /\ result \in [Calls -> Result]
  BY <1>1, <1>3 DEF Init
<1>7. ch \in [Calls -> [resp : 0 .. MaxID, closed : BOOLEAN]]
  BY <1>4 DEF Init
<1>8. QED
  BY <1>2, <1>5, <1>6, <1>7 DEF Init, TypeOK

(* Every step of the client and of its environment preserves types.        *)
LEMMA TypeNext == TypeOK /\ HeldChannel /\ IDsUnique /\ [Next]_vars => TypeOK'
<1> SUFFICES ASSUME TypeOK, HeldChannel, IDsUnique, [Next]_vars PROVE TypeOK'
  OBVIOUS
<1> USE NoCallAssumption, MaxIDAssumption DEF IDs, callVars, connVars
<1>0. \A c \in Calls : pc[c] \in {"recheck", "write", "wait"} => id[c] \in IDs
  BY DEF TypeOK, IDsUnique
<1>1. ASSUME NEW c \in Calls, CallEnter(c) PROVE TypeOK'
  <2>1. CASE Return(c, "clientClosed", 0)
    BY <1>1, <2>1, ReturnType DEF CallEnter, TypeOK, Outcome
  <2>2. CASE Return(c, "ctx", 0)
    BY <1>1, <2>2, ReturnType DEF CallEnter, TypeOK, Outcome
  <2>3. CASE pc' = [pc EXCEPT ![c] = "register"] /\ UNCHANGED result
    BY <1>1, <2>3 DEF CallEnter, TypeOK, Pc
  <2>4. QED
    BY <1>1, <2>1, <2>2, <2>3 DEF CallEnter
<1>2. ASSUME NEW c \in Calls, Register(c) PROVE TypeOK'
  BY <1>2 DEF Register, TypeOK, Pc
<1>3. ASSUME NEW c \in Calls, Recheck(c) PROVE TypeOK'
  <2>1. CASE Return(c, "ctx", 0) /\ reqs' = Unregistered(c)
    BY <1>0, <1>3, <2>1, ReturnType DEF Recheck, Unregistered, TypeOK, Outcome
  <2>2. CASE pc' = [pc EXCEPT ![c] = "write"] /\ UNCHANGED <<result, reqs>>
    BY <1>3, <2>2 DEF Recheck, TypeOK, Pc
  <2>3. QED
    BY <1>3, <2>1, <2>2 DEF Recheck
<1>4. ASSUME NEW c \in Calls, Write(c) PROVE TypeOK'
  <2>1. CASE Return(c, "writeError", 0) /\ reqs' = Unregistered(c) /\ UNCHANGED wire
    BY <1>0, <1>4, <2>1, ReturnType DEF Write, Unregistered, TypeOK, Outcome
  <2>2. CASE /\ pc' = [pc EXCEPT ![c] = "wait"] /\ UNCHANGED <<result, reqs>>
             /\ wire' = wire \cup {id[c]}
    BY <1>0, <1>4, <2>2 DEF Write, TypeOK, Pc
  <2>3. QED
    BY <1>4, <2>1, <2>2 DEF Write
<1>5. ASSUME NEW c \in Calls, CtxDone(c) PROVE TypeOK'
  <2>1. Return(c, "ctx", 0)
    BY <1>5 DEF CtxDone
  <2>2. QED
    BY <1>0, <1>5, <2>1, ReturnType DEF CtxDone, Unregistered, TypeOK, Outcome
<1>6. ASSUME NEW c \in Calls, Receive(c) PROVE TypeOK'
  <2>1. ch[c].resp \in 0 .. MaxID
    BY DEF TypeOK
  <2>2. CASE Return(c, "response", ch[c].resp)
    BY <1>6, <2>1, <2>2, ReturnType DEF Receive, TypeOK, Outcome
  <2>3. CASE Return(c, "connClosed", 0)
    BY <1>6, <2>3, ReturnType DEF Receive, TypeOK, Outcome
  <2>4. QED
    BY <1>6, <2>2, <2>3 DEF Receive
<1>7. ASSUME NEW e \in IDs \cup {Event}, ScanEnvelope(e) PROVE TypeOK'
  BY <1>7 DEF ScanEnvelope, Owner, TypeOK, Event
<1>8. CASE Deliver
  BY <1>8 DEF Deliver, HeldChannel, NoGot, TypeOK
<1>9. CASE drainReqs
  BY <1>9 DEF drainReqs, TypeOK
<1>10. CASE ScanStops \/ ReaderCloseConn
  BY <1>10 DEF ScanStops, ReaderCloseConn, TypeOK
<1>11. CASE CloseFlag \/ CloseConn \/ CloseReturns
  BY <1>11 DEF CloseFlag, CloseConn, CloseReturns, TypeOK
<1>12. ASSUME NEW c \in Calls, CancelCtx(c) PROVE TypeOK'
  BY <1>12 DEF CancelCtx, TypeOK
<1>13. ASSUME NEW i \in IDs, PeerAnswers(i) PROVE TypeOK'
  BY <1>13 DEF PeerAnswers, TypeOK
<1>14. CASE PeerPushes \/ PeerGoesDown
  BY <1>14 DEF PeerPushes, PeerGoesDown, TypeOK
<1>15. CASE UNCHANGED vars
  BY <1>15 DEF vars, TypeOK
<1>16. QED
  BY <1>1, <1>2, <1>3, <1>4, <1>5, <1>6, <1>7, <1>8, <1>9, <1>10, <1>11,
     <1>12, <1>13, <1>14, <1>15
     DEF Next, CallStep, ReaderStep, Finished

(* A registered Call has a request ID that reqs can be indexed with.       *)
LEMMA RegisteredID ==
  ASSUME ClientInv, NEW c \in Calls, pc[c] \in {"recheck", "write", "wait"}
  PROVE  id[c] \in IDs
BY MaxIDAssumption DEF ClientInv, TypeOK, IDsUnique, IDs

(* delete(c.reqs, id) on the way out of Call: the Call's channel is the    *)
(* only one forgotten, and the Call holds no other.                        *)
LEMMA GiveUp ==
  ASSUME ClientInv, NEW c \in Calls, pc[c] \in {"recheck", "write", "wait"},
         NEW kind \in {"ctx", "writeError"}, Return(c, kind, 0),
         reqs' = Unregistered(c),
         UNCHANGED <<nextID, id, ch, reader, got, panicked>>
  PROVE  HeldChannel' /\ IDsUnique' /\ ChannelState' /\ Registered'
         /\ Unreturned' /\ OwnResponse' /\ NoPanic'
<1>1. id[c] \in IDs
  BY RegisteredID
<1>2. /\ pc \in [Calls -> Pc] /\ reqs \in [IDs -> Calls \cup {NoCall}]
      /\ result \in [Calls -> Result] /\ id \in [Calls -> 0 .. MaxID]
  BY DEF ClientInv, TypeOK
<1>3. \A i \in IDs : reqs'[i] # NoCall => reqs'[i] = reqs[i] /\ i # id[c]
  BY <1>1, <1>2 DEF Unregistered
<1>4. \A i \in IDs : reqs'[i] = reqs[i] \/ reqs'[i] = NoCall
  BY <1>1, <1>2 DEF Unregistered
<1>5. HeldChannel'
  BY <1>4, NoCallAssumption DEF ClientInv, HeldChannel
<1>6. IDsUnique'
  BY <1>2 DEF ClientInv, IDsUnique, Return
<1>7. ChannelState'
  BY DEF ClientInv, ChannelState
<1>8. Registered'
  <2> SUFFICES ASSUME NEW i \in IDs, reqs'[i] # NoCall
               PROVE  /\ id[reqs'[i]] = i
                      /\ pc'[reqs'[i]] \in {"recheck", "write", "wait"}
                      /\ ch[reqs'[i]] = [resp |-> 0, closed |-> FALSE]
    BY DEF Registered
  <2>1. /\ reqs'[i] = reqs[i] /\ i # id[c] /\ id[reqs[i]] = i
        /\ pc[reqs[i]] \in {"recheck", "write", "wait"}
        /\ ch[reqs[i]] = [resp |-> 0, closed |-> FALSE]
    BY <1>3 DEF ClientInv, Registered
  <2>2. reqs[i] # c /\ reqs[i] \in Calls
    BY <1>2, <2>1
  <2>3. pc'[reqs[i]] = pc[reqs[i]]
    BY <1>2, <2>2 DEF Return
  <2>4. QED
    BY <2>1, <2>3
<1>9. OwnResponse'
  <2>1. result'[c].kind # "response"
    BY <1>2 DEF Return
  <2>2. \A d \in Calls : d # c => result'[d] = result[d]
    BY <1>2 DEF Return
  <2>3. QED
    BY <2>1, <2>2 DEF ClientInv, OwnResponse
<1>10. Unreturned'
  BY <1>2 DEF ClientInv, Unreturned, Return
<1>11. NoPanic'
  BY DEF ClientInv, NoPanic
<1>12. QED
  BY <1>5, <1>6, <1>7, <1>8, <1>9, <1>10, <1>11

(* A Call moving on with its channel still registered disturbs nothing.    *)
LEMMA MoveOn ==
  ASSUME ClientInv, NEW c \in Calls, pc[c] \in {"recheck", "write", "wait"},
         NEW next \in {"write", "wait"}, pc' = [pc EXCEPT ![c] = next],
         UNCHANGED <<nextID, id, ch, result, reqs, reader, got, panicked>>
  PROVE  HeldChannel' /\ IDsUnique' /\ ChannelState' /\ Registered'
         /\ Unreturned' /\ OwnResponse' /\ NoPanic'
<1>1. pc \in [Calls -> Pc] /\ reqs \in [IDs -> Calls \cup {NoCall}]
  BY DEF ClientInv, TypeOK
<1>2. IDsUnique'
  BY <1>1 DEF ClientInv, IDsUnique
<1>3. Registered'
  BY <1>1 DEF ClientInv, Registered
<1>4. Unreturned'
  BY <1>1 DEF ClientInv, Unreturned
<1>5. QED
  BY <1>2, <1>3, <1>4 DEF ClientInv, HeldChannel, ChannelState, OwnResponse, NoPanic

(* The parts of ClientInv beyond types are about these variables only.     *)
LEMMA Untouched ==
  ASSUME ClientInv,
         UNCHANGED <<nextID, id, ch, pc, result, reqs, got, panicked>>,
         reader' = reader \/ (reader # "deliver" /\ reader' # "deliver")
  PROVE  HeldChannel' /\ IDsUnique' /\ ChannelState' /\ Registered'
         /\ Unreturned' /\ OwnResponse' /\ NoPanic'
<1>1. HeldChannel'
  BY DEF ClientInv, HeldChannel
<1>2. QED
  BY <1>1 DEF ClientInv, IDsUnique, ChannelState, Registered, Unreturned,
                OwnResponse, NoPanic

(* A fresh ID: larger than all the IDs in use, so its entry is the only    *)
(* one of the new Call, whose channel is new.                              *)
LEMMA RegisterInv ==
  ASSUME ClientInv, NEW c \in Calls, Register(c)
  PROVE  HeldChannel' /\ IDsUnique' /\ ChannelState' /\ Registered'
         /\ Unreturned' /\ OwnResponse' /\ NoPanic'
<1> USE MaxIDAssumption, NoCallAssumption
<1>1. /\ pc \in [Calls -> Pc] /\ reqs \in [IDs -> Calls \cup {NoCall}]
      /\ id \in [Calls -> 0 .. MaxID] /\ nextID \in 1 .. (MaxID + 1)
      /\ ch \in [Calls -> [resp : 0 .. MaxID, closed : BOOLEAN]]
  BY DEF ClientInv, TypeOK
<1>2. nextID \in IDs /\ id[c] = 0 /\ ch[c] = [resp |-> 0, closed |-> FALSE]
  BY <1>1 DEF ClientInv, IDsUnique, ChannelState, Register, IDs
<1>3. /\ id'[c] = nextID /\ \A d \in Calls : d # c => id'[d] = id[d]
      /\ pc'[c] = "recheck" /\ \A d \in Calls : d # c => pc'[d] = pc[d]
      /\ reqs'[nextID] = c /\ \A i \in IDs : i # nextID => reqs'[i] = reqs[i]
      /\ nextID' = nextID + 1
      /\ UNCHANGED <<ch, reader, got, result, panicked>>
  BY <1>1, <1>2 DEF Register
<1>4. HeldChannel'
  <2>1. ASSUME reader = "deliver" PROVE got.call # c
    BY <1>2, <2>1 DEF ClientInv, HeldChannel, IDs
  <2>2. QED
    BY <1>3, <2>1 DEF ClientInv, HeldChannel
<1>5. IDsUnique'
  <2>1. \A d \in Calls : id[d] < nextID /\ id[d] \in Nat
    BY <1>1 DEF ClientInv, IDsUnique
  <2>2. \A d \in Calls : id'[d] < nextID'
    BY <1>1, <1>3, <2>1
  <2>3. \A d, e \in Calls : id'[d] = id'[e] /\ id'[d] # 0 => d = e
    BY <1>1, <1>3, <2>1 DEF ClientInv, IDsUnique
  <2>4. QED
    BY <1>2, <1>3, <2>2, <2>3 DEF ClientInv, IDsUnique, IDs
<1>6. ChannelState'
  BY <1>2, <1>3 DEF ClientInv, ChannelState, IDs
<1>7. Registered'
  <2> SUFFICES ASSUME NEW i \in IDs, reqs'[i] # NoCall
               PROVE  /\ id'[reqs'[i]] = i
                      /\ pc'[reqs'[i]] \in {"recheck", "write", "wait"}
                      /\ ch[reqs'[i]] = [resp |-> 0, closed |-> FALSE]
    BY <1>3 DEF Registered
  <2>1. CASE i = nextID
    BY <1>2, <1>3, <2>1
  <2>2. CASE i # nextID
    <3>1. /\ reqs'[i] = reqs[i] /\ reqs[i] \in Calls
          /\ id[reqs[i]] = i
          /\ pc[reqs[i]] \in {"recheck", "write", "wait"}
          /\ ch[reqs[i]] = [resp |-> 0, closed |-> FALSE]
      BY <1>1, <1>3, <2>2 DEF ClientInv, Registered
    <3>2. reqs[i] # c
      BY <1>2, <3>1 DEF IDs
    <3>3. QED
      BY <1>3, <3>1, <3>2
  <2>3. QED
    BY <2>1, <2>2
<1>8. OwnResponse'
  <2>1. result[c] = NoResult
    BY DEF ClientInv, Unreturned, Register
  <2>2. QED
    BY <1>3, <2>1 DEF ClientInv, OwnResponse, NoResult
<1>9. Unreturned'
  BY <1>3 DEF ClientInv, Unreturned, Register
<1>10. NoPanic'
  BY <1>3 DEF ClientInv, NoPanic
<1>11. QED
  BY <1>4, <1>5, <1>6, <1>7, <1>8, <1>9, <1>10

(* Leaving Call with what its own channel held, or with nothing.           *)
LEMMA ReceiveInv ==
  ASSUME ClientInv, NEW c \in Calls, Receive(c)
  PROVE  HeldChannel' /\ IDsUnique' /\ ChannelState' /\ Registered'
         /\ Unreturned' /\ OwnResponse' /\ NoPanic'
<1>1. /\ pc \in [Calls -> Pc] /\ reqs \in [IDs -> Calls \cup {NoCall}]
      /\ result \in [Calls -> Result]
  BY DEF ClientInv, TypeOK
<1>2. /\ pc'[c] = "done" /\ \A d \in Calls : d # c => pc'[d] = pc[d]
      /\ \A d \in Calls : d # c => result'[d] = result[d]
      /\ result'[c].kind = "response" => result'[c].of = ch[c].resp /\ ch[c].resp # 0
      /\ UNCHANGED <<nextID, id, ch, reqs, reader, got, panicked>>
  BY <1>1 DEF Receive, Return
<1>3. HeldChannel' /\ ChannelState' /\ NoPanic'
  BY <1>2 DEF ClientInv, HeldChannel, ChannelState, NoPanic
<1>4. IDsUnique'
  BY <1>2 DEF ClientInv, IDsUnique
<1>5. Registered'
  <2>1. ch[c].resp # 0 \/ ch[c].closed
    BY DEF Receive
  <2>2. \A i \in IDs : reqs[i] # c
    BY <2>1, NoCallAssumption DEF ClientInv, Registered
  <2>3. QED
    BY <1>1, <1>2, <2>2 DEF ClientInv, Registered
<1>6. Unreturned' /\ OwnResponse'
  BY <1>2 DEF ClientInv, Unreturned, OwnResponse, ChannelState
<1>7. QED
  BY <1>3, <1>4, <1>5, <1>6

(* Leaving Call before anything is registered.                             *)
LEMMA CallEnterInv ==
  ASSUME ClientInv, NEW c \in Calls, CallEnter(c)
  PROVE  HeldChannel' /\ IDsUnique' /\ ChannelState' /\ Registered'
         /\ Unreturned' /\ OwnResponse' /\ NoPanic'
<1>1. /\ pc \in [Calls -> Pc] /\ reqs \in [IDs -> Calls \cup {NoCall}]
      /\ result \in [Calls -> Result]
  BY DEF ClientInv, TypeOK
<1>2. /\ pc[c] = "idle" /\ pc'[c] \in {"done", "register"}
      /\ \A d \in Calls : d # c => pc'[d] = pc[d] /\ result'[d] = result[d]
      /\ pc'[c] = "done" => result'[c].kind # "response"
      /\ pc'[c] = "register" => result' = result
      /\ UNCHANGED <<nextID, id, ch, reqs, reader, got, panicked>>
  BY <1>1 DEF CallEnter, Return
<1>3. HeldChannel' /\ ChannelState' /\ NoPanic'
  BY <1>2 DEF ClientInv, HeldChannel, ChannelState, NoPanic
<1>4. IDsUnique'
  BY <1>2 DEF ClientInv, IDsUnique
<1>5. Registered'
  <2>1. \A i \in IDs : reqs[i] # c
    BY <1>2, NoCallAssumption DEF ClientInv, Registered
  <2>2. QED
    BY <1>1, <1>2, <2>1 DEF ClientInv, Registered
<1>6. Unreturned' /\ OwnResponse'
  BY <1>2 DEF ClientInv, Unreturned, OwnResponse, NoResult
<1>7. QED
  BY <1>3, <1>4, <1>5, <1>6

(* readLoop takes a channel out of reqs under mu: it alone holds it then.  *)
LEMMA ScanEnvelopeInv ==
  ASSUME ClientInv, NEW e \in IDs \cup {Event}, ScanEnvelope(e)
  PROVE  HeldChannel' /\ IDsUnique' /\ ChannelState' /\ Registered'
         /\ Unreturned' /\ OwnResponse' /\ NoPanic'
<1> USE NoCallAssumption, MaxIDAssumption
<1>1. /\ reqs \in [IDs -> Calls \cup {NoCall}]
      /\ UNCHANGED <<nextID, id, ch, pc, result, panicked>>
  BY DEF ClientInv, TypeOK, ScanEnvelope, callVars
<1>2. CASE UNCHANGED <<reqs, got>> /\ reader' # "deliver"
  BY <1>1, <1>2, Untouched DEF ScanEnvelope
<1>3. CASE /\ Owner(e) # NoCall /\ reader' = "deliver"
           /\ got' = [id |-> e, call |-> Owner(e)]
           /\ reqs' = [reqs EXCEPT ![e] = NoCall]
  <2>1. /\ e \in IDs /\ Owner(e) = reqs[e] /\ reqs[e] \in Calls
        /\ got'.id = e /\ got'.call = reqs[e]
    BY <1>1, <1>3 DEF Owner
  <2>2. /\ id[reqs[e]] = e /\ ch[reqs[e]] = [resp |-> 0, closed |-> FALSE]
    BY <1>3, <2>1 DEF ClientInv, Registered
  <2>3. \A i \in IDs : reqs'[i] # NoCall => reqs'[i] = reqs[i] /\ i # e
    BY <1>1, <1>3
  <2>4. \A i \in IDs : reqs'[i] # reqs[e]
    BY <2>1, <2>2, <2>3 DEF ClientInv, Registered
  <2>5. HeldChannel'
    BY <1>1, <1>3, <2>1, <2>2, <2>4 DEF HeldChannel
  <2>6. Registered'
    BY <1>1, <2>3 DEF ClientInv, Registered
  <2>7. QED
    BY <1>1, <2>5, <2>6 DEF ClientInv, IDsUnique, ChannelState, Unreturned,
                            OwnResponse, NoPanic
<1>4. QED
  BY <1>2, <1>3 DEF ScanEnvelope

(* The held channel is open, empty and registered nowhere: the delivery    *)
(* cannot panic and cannot reach another Call.                             *)
LEMMA DeliverInv ==
  ASSUME ClientInv, Deliver
  PROVE  HeldChannel' /\ IDsUnique' /\ ChannelState' /\ Registered'
         /\ Unreturned' /\ OwnResponse' /\ NoPanic'
<1> USE NoCallAssumption, MaxIDAssumption
<1>1. /\ reqs \in [IDs -> Calls \cup {NoCall}]
      /\ ch \in [Calls -> [resp : 0 .. MaxID, closed : BOOLEAN]]
      /\ panicked \in BOOLEAN
      /\ UNCHANGED <<nextID, id, pc, result, reqs>>
  BY DEF ClientInv, TypeOK, Deliver, callVars
<1>2. /\ got.call \in Calls /\ got.id = id[got.call] /\ got.id \in IDs
      /\ ch[got.call] = [resp |-> 0, closed |-> FALSE]
      /\ \A i \in IDs : reqs[i] # got.call
  BY DEF ClientInv, HeldChannel, Deliver
<1>3. /\ ch'[got.call] = [resp |-> got.id, closed |-> TRUE]
      /\ \A d \in Calls : d # got.call => ch'[d] = ch[d]
  BY <1>1, <1>2 DEF Deliver
<1>4. HeldChannel'
  BY DEF Deliver, HeldChannel
<1>5. ChannelState'
  <2>1. got.id # 0
    BY <1>2 DEF IDs
  <2>2. QED
    BY <1>1, <1>2, <1>3, <2>1 DEF ClientInv, ChannelState
<1>6. Registered'
  BY <1>1, <1>2, <1>3 DEF ClientInv, Registered
<1>7. NoPanic'
  <2>1. ~ch[got.call].closed
    BY <1>2
  <2>2. QED
    BY <2>1 DEF ClientInv, NoPanic, Deliver
<1>8. QED
  BY <1>1, <1>4, <1>5, <1>6, <1>7 DEF ClientInv, IDsUnique, Unreturned, OwnResponse

(* drainReqs closes only registered channels, which are open.              *)
LEMMA DrainInv ==
  ASSUME ClientInv, drainReqs
  PROVE  HeldChannel' /\ IDsUnique' /\ ChannelState' /\ Registered'
         /\ Unreturned' /\ OwnResponse' /\ NoPanic'
<1> USE NoCallAssumption, MaxIDAssumption
<1> DEFINE drained == {c \in Calls : \E i \in IDs : reqs[i] = c}
<1>1. /\ reqs \in [IDs -> Calls \cup {NoCall}]
      /\ ch \in [Calls -> [resp : 0 .. MaxID, closed : BOOLEAN]]
      /\ UNCHANGED <<nextID, id, pc, result, got>>
  BY DEF ClientInv, TypeOK, drainReqs, callVars
<1>2. \A c \in drained : /\ ch[c] = [resp |-> 0, closed |-> FALSE]
                         /\ id[c] \in IDs
  BY <1>1 DEF ClientInv, Registered
<1>3. \A c \in Calls : /\ ch'[c].resp = ch[c].resp
                       /\ c \notin drained => ch'[c] = ch[c]
  BY <1>1 DEF drainReqs
<1>4. HeldChannel'
  BY <1>1 DEF ClientInv, HeldChannel, drainReqs
<1>5. ChannelState'
  <2>1. \A c \in Calls : id[c] = 0 => c \notin drained
    BY <1>2 DEF IDs
  <2>2. QED
    BY <1>1, <1>3, <2>1 DEF ClientInv, ChannelState
<1>6. Registered'
  BY DEF Registered, drainReqs
<1>7. NoPanic'
  <2>1. \A c \in drained : ~ch[c].closed
    BY <1>2
  <2>2. QED
    BY <2>1 DEF ClientInv, NoPanic, drainReqs
<1>8. QED
  BY <1>1, <1>4, <1>5, <1>6, <1>7 DEF ClientInv, IDsUnique, Unreturned, OwnResponse

(* NewClient establishes the invariant.                                    *)
LEMMA ClientInvInit == Init => ClientInv
<1> SUFFICES ASSUME Init PROVE ClientInv
  OBVIOUS
<1> USE MaxIDAssumption DEF IDs
<1>1. TypeOK
  BY TypeInit
<1>2. HeldChannel
  BY DEF Init, HeldChannel
<1>3. IDsUnique
  BY DEF Init, IDsUnique
<1>4. ChannelState
  BY DEF Init, ChannelState
<1>5. Registered
  BY DEF Init, Registered
<1>6. Unreturned /\ OwnResponse
  BY DEF Init, Unreturned, OwnResponse, NoResult
<1>7. NoPanic
  BY DEF Init, NoPanic
<1>8. QED
  BY <1>1, <1>2, <1>3, <1>4, <1>5, <1>6, <1>7 DEF ClientInv

(* Every step of the client, of its peer and of its contexts keeps it.     *)
LEMMA ClientInvNext == ClientInv /\ [Next]_vars => ClientInv'
<1> SUFFICES ASSUME ClientInv, [Next]_vars PROVE ClientInv'
  OBVIOUS
<1> DEFINE Correlated == HeldChannel /\ IDsUnique /\ ChannelState /\ Registered
                         /\ Unreturned /\ OwnResponse /\ NoPanic
<1>1. TypeOK'
  BY TypeNext DEF ClientInv
<1> SUFFICES Correlated'
  BY <1>1 DEF ClientInv
<1>2. ASSUME NEW c \in Calls, CallEnter(c) PROVE Correlated'
  BY <1>2, CallEnterInv
<1>3. ASSUME NEW c \in Calls, Register(c) PROVE Correlated'
  BY <1>3, RegisterInv
<1>4. ASSUME NEW c \in Calls, Recheck(c) PROVE Correlated'
  <2>1. CASE Return(c, "ctx", 0) /\ reqs' = Unregistered(c)
    BY <1>4, <2>1, GiveUp DEF Recheck
  <2>2. CASE pc' = [pc EXCEPT ![c] = "write"] /\ UNCHANGED <<result, reqs>>
    BY <1>4, <2>2, MoveOn DEF Recheck
  <2>3. QED
    BY <1>4, <2>1, <2>2 DEF Recheck
<1>5. ASSUME NEW c \in Calls, Write(c) PROVE Correlated'
  <2>1. CASE Return(c, "writeError", 0) /\ reqs' = Unregistered(c)
    BY <1>5, <2>1, GiveUp DEF Write
  <2>2. CASE pc' = [pc EXCEPT ![c] = "wait"] /\ UNCHANGED <<result, reqs>>
    BY <1>5, <2>2, MoveOn DEF Write
  <2>3. QED
    BY <1>5, <2>1, <2>2 DEF Write
<1>6. ASSUME NEW c \in Calls, CtxDone(c) PROVE Correlated'
  BY <1>6, GiveUp DEF CtxDone
<1>7. ASSUME NEW c \in Calls, Receive(c) PROVE Correlated'
  BY <1>7, ReceiveInv
<1>8. ASSUME NEW e \in IDs \cup {Event}, ScanEnvelope(e) PROVE Correlated'
  BY <1>8, ScanEnvelopeInv
<1>9. CASE Deliver
  BY <1>9, DeliverInv
<1>10. CASE drainReqs
  BY <1>10, DrainInv
<1>11. CASE ScanStops \/ ReaderCloseConn
  BY <1>11, Untouched DEF ScanStops, ReaderCloseConn, callVars
<1>12. CASE CloseFlag \/ CloseConn \/ CloseReturns
  BY <1>12, Untouched DEF CloseFlag, CloseConn, CloseReturns, callVars
<1>13. ASSUME NEW c \in Calls, CancelCtx(c) PROVE Correlated'
  BY <1>13, Untouched DEF CancelCtx, callVars
<1>14. ASSUME NEW i \in IDs, PeerAnswers(i) PROVE Correlated'
  BY <1>14, Untouched DEF PeerAnswers, callVars
<1>15. CASE PeerPushes \/ PeerGoesDown
  BY <1>15, Untouched DEF PeerPushes, PeerGoesDown, callVars
<1>16. CASE UNCHANGED vars
  BY <1>16, Untouched DEF vars
<1>17. QED
  BY <1>2, <1>3, <1>4, <1>5, <1>6, <1>7, <1>8, <1>9, <1>10, <1>11, <1>12,
     <1>13, <1>14, <1>15, <1>16
     DEF Next, CallStep, ReaderStep, Finished

(* The inductive invariant holds of every behaviour of the client.         *)
THEOREM ClientCorrelation == Spec => []ClientInv
<1>1. Init => ClientInv
  BY ClientInvInit
<1>2. ClientInv /\ [Next]_vars => ClientInv'
  BY ClientInvNext
<1>3. QED
  BY <1>1, <1>2, PTL DEF Spec

(* Call returns the response to its own request and to no other.           *)
THEOREM OwnResponseAlways == Spec => []OwnResponse
<1>1. ClientInv => OwnResponse
  BY DEF ClientInv
<1>2. QED
  BY <1>1, ClientCorrelation, PTL

(* readLoop and drainReqs never close a channel twice or send on a closed  *)
(* one.                                                                    *)
THEOREM NoPanicAlways == Spec => []NoPanic
<1>1. ClientInv => NoPanic
  BY DEF ClientInv
<1>2. QED
  BY <1>1, ClientCorrelation, PTL

(* reqs holds no entry of a Call that has returned, on any return path.    *)
THEOREM NoLeakedRequestAlways == Spec => []NoLeakedRequest
<1>1. ClientInv => NoLeakedRequest
  BY NoCallAssumption DEF ClientInv, Registered, NoLeakedRequest
<1>2. QED
  BY <1>1, ClientCorrelation, PTL

-----------------------------------------------------------------------------
(***************************************************************************)
(* No Call is forgotten                                                    *)
(*                                                                         *)
(* What OutstandingReturn and CloseTerminates need of the states: each     *)
(* step they wait for is possible, and none is undone.  That the scheduler *)
(* then takes it is the fairness of FairSpec.                              *)
(***************************************************************************)

\* A Call that has registered its channel and not returned.
Outstanding(c) == pc[c] \in {"recheck", "write", "wait"}

BeforeDrain == reader \in {"scan", "deliver", "drain"}

\* The channel of the Call is closed, or readLoop is about to write to it, or
\* readLoop will find it in reqs.
Kept(c) ==
  \/ ch[c].closed
  \/ reader = "deliver" /\ got.call = c
  \/ BeforeDrain /\ \E i \in IDs : reqs[i] = c

OutstandingKept == \A c \in Calls : Outstanding(c) /\ BeforeDrain => Kept(c)

\* The request of a waiting Call is with the daemon or answered, as long as
\* there is a connection and its channel is in reqs.
Asked ==
  \A i \in IDs :
    reqs[i] # NoCall /\ pc[reqs[i]] = "wait" /\ peerUp /\ reader \in {"scan", "deliver"} =>
      i \in wire \cup inbox

\* What brings an outstanding Call on can be done: by the Call itself (Recheck,
\* Write, Receive), by readLoop (Deliver, drainReqs, ScanStops, ScanEnvelope of
\* its response) or by the daemon (PeerAnswers).
HelpAtHand(c) ==
  \/ pc[c] \in {"recheck", "write"}
  \/ pc[c] = "wait" /\ ch[c].closed
  \/ reader \in {"deliver", "drain"}
  \/ reader = "scan" /\ ~(connOpen /\ peerUp)
  \/ reader = "scan" /\ connOpen /\ peerUp /\ id[c] \in wire \cup inbox

\* A channel that is kept stays kept until its Call returns.
LEMMA KeptNext ==
  ASSUME ClientInv, [Next]_vars, NEW c \in Calls, Outstanding(c), Kept(c)
  PROVE  pc'[c] = "done" \/ Kept(c)'
<1> USE NoCallAssumption, MaxIDAssumption
<1>1. /\ pc \in [Calls -> Pc] /\ reqs \in [IDs -> Calls \cup {NoCall}]
      /\ ch \in [Calls -> [resp : 0 .. MaxID, closed : BOOLEAN]]
      /\ id \in [Calls -> 0 .. MaxID] /\ nextID \in 1 .. MaxID + 1
  BY DEF ClientInv, TypeOK
<1>2. ASSUME UNCHANGED <<ch, reader, got, reqs>> PROVE Kept(c)'
  BY <1>2 DEF Kept, BeforeDrain
<1>3. ASSUME NEW d \in Calls, reqs' = Unregistered(d), pc[d] \in {"recheck", "write", "wait"},
             Return(d, "ctx", 0) \/ Return(d, "writeError", 0), UNCHANGED <<ch, reader, got>>
      PROVE  pc'[c] = "done" \/ Kept(c)'
  <2>1. CASE d = c
    BY <1>1, <1>3, <2>1 DEF Return
  <2>2. CASE d # c
    <3>1. id[d] \in IDs
      BY <1>3, RegisteredID
    <3>2. ASSUME NEW i \in IDs, reqs[i] = c PROVE reqs'[i] = c
      <4>1. id[c] = i
        BY <3>2 DEF ClientInv, Registered
      <4>2. i # id[d]
        BY <2>2, <3>1, <4>1 DEF ClientInv, IDsUnique, IDs
      <4> QED BY <1>1, <1>3, <3>1, <3>2, <4>2 DEF Unregistered
    <3> QED BY <1>3, <3>2 DEF Kept, BeforeDrain
  <2> QED BY <2>1, <2>2
<1>4. ASSUME NEW d \in Calls, CallStep(d) PROVE pc'[c] = "done" \/ Kept(c)'
  <2>1. CASE CallEnter(d)
    BY <1>2, <2>1 DEF CallEnter
  <2>2. CASE Register(d)
    <3>1. ASSUME NEW i \in IDs, reqs[i] = c PROVE reqs'[i] = c
      <4>1. id[c] = i
        BY <3>1 DEF ClientInv, Registered
      <4>2. i # nextID
        BY <1>1, <4>1 DEF ClientInv, IDsUnique
      <4> QED BY <1>1, <2>2, <3>1, <4>2 DEF Register
    <3> QED BY <2>2, <3>1 DEF Register, Kept, BeforeDrain
  <2>3. CASE Recheck(d)
    BY <1>2, <1>3, <2>3 DEF Recheck
  <2>4. CASE Write(d)
    BY <1>2, <1>3, <2>4 DEF Write
  <2>5. CASE CtxDone(d)
    BY <1>3, <2>5 DEF CtxDone
  <2>6. CASE Receive(d)
    BY <1>2, <2>6 DEF Receive
  <2> QED BY <1>4, <2>1, <2>2, <2>3, <2>4, <2>5, <2>6 DEF CallStep
<1>5. ASSUME NEW e \in IDs \cup {Event}, ScanEnvelope(e) PROVE Kept(c)'
  <2>1. CASE ch[c].closed
    BY <1>5, <2>1 DEF ScanEnvelope, Kept
  <2>2. CASE \E i \in IDs : reqs[i] = c
    <3>1. PICK i \in IDs : reqs[i] = c
      BY <2>2
    <3>2. CASE UNCHANGED reqs /\ reader' \in {"scan", "drain"}
      BY <3>1, <3>2 DEF Kept, BeforeDrain
    <3>3. CASE reader' = "deliver" /\ got'.call = Owner(e) /\ reqs' = [reqs EXCEPT ![e] = NoCall]
      <4>1. CASE e = i
        <5>1. Owner(e) = c
          BY <3>1, <4>1 DEF Owner, Event, IDs
        <5> QED BY <3>3, <5>1 DEF Kept
      <4>2. CASE e # i
        <5>1. reqs'[i] = c
          BY <1>1, <3>1, <3>3, <4>2
        <5> QED BY <3>3, <5>1 DEF Kept, BeforeDrain
      <4> QED BY <4>1, <4>2
    <3> QED BY <1>5, <3>2, <3>3 DEF ScanEnvelope
  <2> QED BY <1>5, <2>1, <2>2 DEF ScanEnvelope, Kept
<1>6. CASE Deliver
  <2>1. got.call \in Calls
    BY <1>6 DEF ClientInv, HeldChannel, Deliver
  <2>2. /\ ch'[got.call].closed /\ reqs' = reqs /\ reader' = "scan"
        /\ ch[c].closed => ch'[c].closed
    BY <1>1, <1>6, <2>1 DEF Deliver
  <2> QED BY <2>2 DEF Kept, BeforeDrain
<1>7. CASE drainReqs
  BY <1>1, <1>7 DEF drainReqs, Kept
<1>8. CASE ScanStops
  BY <1>8 DEF ScanStops, Kept, BeforeDrain
<1>9. CASE ReaderCloseConn
  BY <1>9 DEF ReaderCloseConn, Kept, BeforeDrain
<1>10. CASE CloseFlag \/ CloseConn \/ CloseReturns
  BY <1>2, <1>10 DEF CloseFlag, CloseConn, CloseReturns
<1>11. ASSUME NEW d \in Calls, CancelCtx(d) PROVE Kept(c)'
  BY <1>2, <1>11 DEF CancelCtx
<1>12. ASSUME NEW i \in IDs, PeerAnswers(i) PROVE Kept(c)'
  BY <1>2, <1>12 DEF PeerAnswers
<1>13. CASE PeerPushes \/ PeerGoesDown
  BY <1>2, <1>13 DEF PeerPushes, PeerGoesDown
<1>14. CASE UNCHANGED vars
  BY <1>2, <1>14 DEF vars
<1> QED BY <1>4, <1>5, <1>6, <1>7, <1>8, <1>9, <1>10, <1>11, <1>12, <1>13, <1>14
        DEF Next, ReaderStep, Finished

\* A Call becomes outstanding with its channel in reqs, and readLoop never gets
\* back before drainReqs.
LEMMA OutstandingKeptNext ==
  ASSUME ClientInv, OutstandingKept, [Next]_vars
  PROVE  OutstandingKept'
<1> USE NoCallAssumption, MaxIDAssumption
<1>1. /\ pc \in [Calls -> Pc] /\ reqs \in [IDs -> Calls \cup {NoCall}]
      /\ nextID \in 1 .. MaxID + 1
  BY DEF ClientInv, TypeOK
<1> SUFFICES ASSUME NEW c \in Calls, Outstanding(c)', BeforeDrain' PROVE Kept(c)'
  BY DEF OutstandingKept
<1>2. BeforeDrain
  <2>1. ASSUME NEW d \in Calls, CallStep(d) \/ CancelCtx(d) PROVE reader' = reader
    BY <2>1 DEF CallStep, CallEnter, Register, Recheck, Write, CtxDone, Receive, CancelCtx
  <2>2. ASSUME NEW i \in IDs, PeerAnswers(i) PROVE reader' = reader
    BY <2>2 DEF PeerAnswers
  <2>3. ASSUME NEW e \in IDs \cup {Event}, ScanEnvelope(e) PROVE reader = "scan"
    BY <2>3 DEF ScanEnvelope
  <2>4. CASE Deliver \/ drainReqs \/ ScanStops \/ ReaderCloseConn
    BY <2>4 DEF Deliver, drainReqs, ScanStops, ReaderCloseConn, BeforeDrain
  <2>5. CASE CloseFlag \/ CloseConn \/ CloseReturns \/ PeerPushes \/ PeerGoesDown \/ UNCHANGED vars
    BY <2>5 DEF CloseFlag, CloseConn, CloseReturns, PeerPushes, PeerGoesDown, vars, BeforeDrain
  <2> QED BY <2>1, <2>2, <2>3, <2>4, <2>5 DEF Next, ReaderStep, Finished, BeforeDrain
<1>3. CASE Outstanding(c)
  <2>1. Kept(c)
    BY <1>2, <1>3 DEF OutstandingKept
  <2>2. pc'[c] # "done"
    BY DEF Outstanding
  <2> QED BY <1>3, <2>1, <2>2, KeptNext
<1>4. CASE ~Outstanding(c)
  <2>1. Register(c)
    <3>1. ASSUME NEW d \in Calls, CallStep(d), ~Register(c) PROVE FALSE
      <4>1. CASE d = c
        BY <1>1, <1>4, <3>1, <4>1 DEF CallStep, CallEnter, Recheck, Write, CtxDone, Receive,
                                      Return, Outstanding
      <4>2. CASE d # c
        <5>1. pc'[c] = pc[c]
          BY <1>1, <3>1, <4>2 DEF CallStep, CallEnter, Register, Recheck, Write, CtxDone,
                                  Receive, Return
        <5> QED BY <1>4, <5>1 DEF Outstanding
      <4> QED BY <4>1, <4>2
    <3>2. pc' # pc
      BY <1>4 DEF Outstanding
    <3>3. ASSUME NEW d \in Calls, CancelCtx(d) PROVE FALSE
      BY <3>2, <3>3 DEF CancelCtx, callVars
    <3>4. ASSUME NEW i \in IDs, PeerAnswers(i) PROVE FALSE
      BY <3>2, <3>4 DEF PeerAnswers, callVars
    <3>5. ASSUME NEW e \in IDs \cup {Event}, ScanEnvelope(e) PROVE FALSE
      BY <3>2, <3>5 DEF ScanEnvelope, callVars
    <3>6. CASE Deliver \/ drainReqs \/ ScanStops \/ ReaderCloseConn
      BY <3>2, <3>6 DEF Deliver, drainReqs, ScanStops, ReaderCloseConn, callVars
    <3>7. CASE CloseFlag \/ CloseConn \/ CloseReturns \/ PeerPushes \/ PeerGoesDown \/ UNCHANGED vars
      BY <3>2, <3>7 DEF CloseFlag, CloseConn, CloseReturns, PeerPushes, PeerGoesDown, vars, callVars
    <3> QED BY <3>1, <3>3, <3>4, <3>5, <3>6, <3>7 DEF Next, ReaderStep, Finished
  <2>2. nextID \in IDs /\ reqs'[nextID] = c
    BY <1>1, <2>1 DEF Register, IDs
  <2> QED BY <2>2 DEF Kept
<1> QED BY <1>3, <1>4

\* PeerAnswers moves a request from the daemon to the client, ScanEnvelope takes
\* a response together with its entry of reqs.
LEMMA AskedNext ==
  ASSUME ClientInv, Asked, [Next]_vars
  PROVE  Asked'
<1> USE NoCallAssumption, MaxIDAssumption
<1>1. /\ pc \in [Calls -> Pc] /\ reqs \in [IDs -> Calls \cup {NoCall}]
      /\ id \in [Calls -> 0 .. MaxID] /\ nextID \in 1 .. MaxID + 1
  BY DEF ClientInv, TypeOK
<1>2. ASSUME reader' = reader \/ (reader = "deliver" /\ reader' = "scan"), peerUp' => peerUp,
             wire \cup inbox \subseteq wire' \cup inbox',
             \A i \in IDs : reqs'[i] # NoCall /\ pc'[reqs'[i]] = "wait" =>
               i \in wire' \/ (reqs'[i] = reqs[i] /\ pc[reqs[i]] = "wait")
      PROVE  Asked'
  BY <1>2 DEF Asked
<1>3. ASSUME NEW d \in Calls, reqs' = Unregistered(d), pc[d] \in {"recheck", "write", "wait"},
             Return(d, "ctx", 0) \/ Return(d, "writeError", 0),
             UNCHANGED <<reader, peerUp, wire, inbox>>
      PROVE  Asked'
  <2>1. id[d] \in IDs
    BY <1>3, RegisteredID
  <2>2. \A i \in IDs : reqs'[i] # NoCall => reqs'[i] = reqs[i]
    BY <1>1, <1>3, <2>1 DEF Unregistered
  <2>3. \A x \in Calls : pc'[x] = "wait" => pc[x] = "wait"
    BY <1>1, <1>3 DEF Return
  <2> QED BY <1>1, <1>2, <1>3, <2>2, <2>3
<1>4. ASSUME NEW d \in Calls, CallStep(d) PROVE Asked'
  <2>1. CASE CallEnter(d)
    <3>1. \A x \in Calls : pc'[x] = "wait" => pc[x] = "wait"
      BY <1>1, <2>1 DEF CallEnter, Return
    <3> QED BY <1>1, <1>2, <2>1, <3>1 DEF CallEnter, connVars
  <2>2. CASE Register(d)
    <3>1. \A x \in Calls : pc'[x] = "wait" => pc[x] = "wait" /\ x # d
      BY <1>1, <2>2 DEF Register
    <3>2. nextID \in IDs /\ \A i \in IDs : reqs'[i] = d \/ reqs'[i] = reqs[i]
      BY <1>1, <2>2 DEF Register, IDs
    <3> QED BY <1>1, <1>2, <2>2, <3>1, <3>2 DEF Register, connVars
  <2>3. CASE Recheck(d)
    <3>1. CASE Return(d, "ctx", 0) /\ reqs' = Unregistered(d)
      BY <1>3, <2>3, <3>1 DEF Recheck, connVars
    <3>2. CASE pc' = [pc EXCEPT ![d] = "write"] /\ UNCHANGED reqs
      <4>1. \A x \in Calls : pc'[x] = "wait" => pc[x] = "wait"
        BY <1>1, <3>2
      <4> QED BY <1>1, <1>2, <2>3, <3>2, <4>1 DEF Recheck, connVars
    <3> QED BY <2>3, <3>1, <3>2 DEF Recheck
  <2>4. CASE Write(d)
    <3>1. CASE Return(d, "writeError", 0) /\ reqs' = Unregistered(d) /\ UNCHANGED wire
      BY <1>3, <2>4, <3>1 DEF Write, connVars
    <3>2. CASE wire' = wire \cup {id[d]} /\ pc' = [pc EXCEPT ![d] = "wait"] /\ UNCHANGED reqs
      <4>1. \A i \in IDs : reqs[i] = d => i \in wire'
        BY <3>2 DEF ClientInv, Registered
      <4>2. \A x \in Calls : pc'[x] = "wait" => pc[x] = "wait" \/ x = d
        BY <1>1, <3>2
      <4> QED BY <1>1, <1>2, <2>4, <3>2, <4>1, <4>2 DEF Write, connVars
    <3> QED BY <2>4, <3>1, <3>2 DEF Write
  <2>5. CASE CtxDone(d)
    BY <1>3, <2>5 DEF CtxDone, connVars
  <2>6. CASE Receive(d)
    <3>1. \A x \in Calls : pc'[x] = "wait" => pc[x] = "wait"
      BY <1>1, <2>6 DEF Receive, Return
    <3> QED BY <1>1, <1>2, <2>6, <3>1 DEF Receive, connVars
  <2> QED BY <1>4, <2>1, <2>2, <2>3, <2>4, <2>5, <2>6 DEF CallStep
<1>5. ASSUME NEW e \in IDs \cup {Event}, ScanEnvelope(e) PROVE Asked'
  <2>1. UNCHANGED <<pc, peerUp, wire>> /\ inbox' = inbox \ {e} /\ reader = "scan"
    BY <1>5 DEF ScanEnvelope, callVars, connVars
  <2>2. CASE reader' = "drain"
    BY <2>2 DEF Asked
  <2>3. CASE Owner(e) = NoCall /\ UNCHANGED reqs
    <3>1. \A i \in IDs : reqs[i] # NoCall => i # e
      BY <2>3 DEF Owner, Event, IDs
    <3> QED BY <2>1, <2>3, <3>1 DEF Asked
  <2>4. CASE reqs' = [reqs EXCEPT ![e] = NoCall]
    <3>1. \A i \in IDs : reqs'[i] # NoCall => i # e /\ reqs'[i] = reqs[i]
      BY <1>1, <2>4
    <3> QED BY <2>1, <3>1 DEF Asked
  <2> QED BY <1>5, <2>2, <2>3, <2>4 DEF ScanEnvelope
<1>6. CASE Deliver
  BY <1>2, <1>6 DEF Deliver, callVars, connVars
<1>7. CASE drainReqs \/ ScanStops \/ ReaderCloseConn
  BY <1>7 DEF drainReqs, ScanStops, ReaderCloseConn, Asked
<1>8. CASE CloseFlag \/ CloseConn \/ CloseReturns
  BY <1>2, <1>8 DEF CloseFlag, CloseConn, CloseReturns, callVars, connVars
<1>9. ASSUME NEW d \in Calls, CancelCtx(d) PROVE Asked'
  BY <1>2, <1>9 DEF CancelCtx, callVars, connVars
<1>10. ASSUME NEW i \in IDs, PeerAnswers(i) PROVE Asked'
  BY <1>2, <1>10 DEF PeerAnswers, callVars, connVars
<1>11. CASE PeerPushes
  BY <1>2, <1>11 DEF PeerPushes, callVars, connVars
<1>12. CASE PeerGoesDown
  BY <1>12 DEF PeerGoesDown, Asked
<1>13. CASE UNCHANGED vars
  BY <1>2, <1>13 DEF vars
<1> QED BY <1>4, <1>5, <1>6, <1>7, <1>8, <1>9, <1>10, <1>11, <1>12, <1>13
        DEF Next, ReaderStep, Finished

\* A Call whose channel is kept is not stuck.
LEMMA KeptHelped ==
  ASSUME ClientInv, Asked, NEW c \in Calls, Outstanding(c), Kept(c)
  PROVE  HelpAtHand(c)
<1>1. CASE pc[c] \in {"recheck", "write"}
  BY <1>1 DEF HelpAtHand
<1>2. CASE pc[c] = "wait" /\ (ch[c].closed \/ reader = "deliver")
  BY <1>2 DEF HelpAtHand
<1>3. CASE pc[c] = "wait" /\ BeforeDrain /\ \E i \in IDs : reqs[i] = c
  <2>1. PICK i \in IDs : reqs[i] = c
    BY <1>3
  <2>2. id[c] = i /\ reqs[i] # NoCall
    BY <2>1, NoCallAssumption DEF ClientInv, Registered
  <2>3. connOpen \in BOOLEAN /\ peerUp \in BOOLEAN
    BY DEF ClientInv, TypeOK
  <2> QED BY <1>3, <2>1, <2>2, <2>3 DEF HelpAtHand, Asked, BeforeDrain
<1> QED BY <1>1, <1>2, <1>3 DEF Outstanding, Kept

\* No response, cancellation, failure or Close, in whatever order, makes the
\* client forget a Call: one that is outstanding before drainReqs is kept, stays
\* kept until it returns, and all the while the step that brings it on can be
\* taken.
THEOREM NeverForgotten ==
  Spec => /\ []OutstandingKept
          /\ [][\A c \in Calls : Outstanding(c) /\ Kept(c) => pc'[c] = "done" \/ Kept(c)']_vars
          /\ [](\A c \in Calls : Outstanding(c) /\ Kept(c) => HelpAtHand(c))
<1> DEFINE Inv == ClientInv /\ OutstandingKept /\ Asked
           StaysKept == \A c \in Calls : Outstanding(c) /\ Kept(c) => pc'[c] = "done" \/ Kept(c)'
           Helped == \A c \in Calls : Outstanding(c) /\ Kept(c) => HelpAtHand(c)
<1>1. Init => Inv
  <2>1. Init => OutstandingKept /\ Asked
    BY DEF Init, OutstandingKept, Outstanding, Asked
  <2> QED BY <2>1, ClientInvInit
<1>2. Inv /\ [Next]_vars => Inv'
  BY ClientInvNext, OutstandingKeptNext, AskedNext
<1>3. Inv /\ [Next]_vars => [StaysKept]_vars
  BY KeptNext
<1>4. Inv => Helped /\ OutstandingKept
  BY KeptHelped
<1> HIDE DEF Inv, StaysKept, Helped
<1>5. Spec => []OutstandingKept /\ [][StaysKept]_vars /\ []Helped
  BY <1>1, <1>2, <1>3, <1>4, PTL DEF Spec
<1> QED BY <1>5 DEF StaysKept, Helped

\* Close waits with its flag set and its end of the connection closed.
ClosedFirst ==
  /\ closer # "idle" => closed
  /\ closer \in {"wait", "done"} => ~connOpen

\* The way of readLoop to its end.
ReaderEnds ==
  {<<"deliver", "scan">>, <<"scan", "drain">>, <<"drain", "closeConn">>, <<"closeConn", "done">>}

\* Once Close waits readLoop cannot scan another envelope: each of its steps is
\* possible and leads one step nearer to the end that wg.Wait waits for.
THEOREM CloseCannotHang ==
  Spec => /\ []ClosedFirst
          /\ [][closer = "wait" => reader' = reader \/ <<reader, reader'>> \in ReaderEnds]_vars
<1> DEFINE Nearer == closer = "wait" => reader' = reader \/ <<reader, reader'>> \in ReaderEnds
<1>1. Init => ClosedFirst
  BY DEF Init, ClosedFirst
<1>2. ASSUME ClosedFirst, [Next]_vars PROVE ClosedFirst' /\ Nearer
  <2>1. ASSUME NEW d \in Calls, CallStep(d) \/ CancelCtx(d) PROVE ClosedFirst' /\ Nearer
    BY <1>2, <2>1 DEF CallStep, CallEnter, Register, Recheck, Write, CtxDone, Receive, CancelCtx,
                      connVars, ClosedFirst
  <2>2. ASSUME NEW i \in IDs, PeerAnswers(i) PROVE ClosedFirst' /\ Nearer
    BY <1>2, <2>2 DEF PeerAnswers, connVars, ClosedFirst
  <2>3. ASSUME NEW e \in IDs \cup {Event}, ScanEnvelope(e) PROVE ClosedFirst' /\ Nearer
    BY <1>2, <2>3 DEF ScanEnvelope, connVars, ClosedFirst
  <2>4. CASE Deliver \/ drainReqs \/ ScanStops \/ ReaderCloseConn
    BY <1>2, <2>4 DEF Deliver, drainReqs, ScanStops, ReaderCloseConn, connVars, ClosedFirst, ReaderEnds
  <2>5. CASE CloseFlag \/ CloseConn \/ CloseReturns \/ PeerPushes \/ PeerGoesDown \/ UNCHANGED vars
    BY <1>2, <2>5 DEF CloseFlag, CloseConn, CloseReturns, PeerPushes, PeerGoesDown, vars, connVars,
                      ClosedFirst
  <2> QED BY <1>2, <2>1, <2>2, <2>3, <2>4, <2>5 DEF Next, ReaderStep, Finished
<1> HIDE DEF Nearer
<1>3. ClosedFirst /\ [Next]_vars => ClosedFirst' /\ [Nearer]_vars
  BY <1>2
<1>4. Spec => []ClosedFirst /\ [][Nearer]_vars
  BY <1>1, <1>3, PTL DEF Spec
<1> QED BY <1>4 DEF Nearer

-----------------------------------------------------------------------------
(***************************************************************************)
(* Integers as sets of bits                                                *)
(***************************************************************************)

\* The places of a byte, and what is beyond a group of seven.
LEMMA Powers ==
  /\ 2^0 = 1 /\ 2^1 = 2 /\ 2^2 = 4 /\ 2^3 = 8 /\ 2^4 = 16
  /\ 2^5 = 32 /\ 2^6 = 64 /\ 2^7 = 128 /\ 2^8 = 256 /\ 2^9 = 512
OBVIOUS

\* Seven binary digits are the remainders of their number's quotients.
LEMMA Digits ==
  ASSUME NEW a \in 0 .. 1, NEW b \in 0 .. 1, NEW c \in 0 .. 1, NEW d \in 0 .. 1,
         NEW e \in 0 .. 1, NEW f \in 0 .. 1, NEW g \in 0 .. 1, NEW n,
         n = a + 2 * b + 4 * c + 8 * d + 16 * e + 32 * f + 64 * g
  PROVE  /\ n \in 0 .. 127
         /\ n % 2 = a /\ (n \div 2) % 2 = b /\ (n \div 4) % 2 = c /\ (n \div 8) % 2 = d
         /\ (n \div 16) % 2 = e /\ (n \div 32) % 2 = f /\ (n \div 64) % 2 = g
BY SMTT(30)

\* A group is a number of seven bits, and its bits are those of the integer.
LEMMA GroupBits ==
  ASSUME NEW bits, NEW from \in Nat
  PROVE  /\ Group(bits, from) \in 0 .. 127
         /\ Bits(Group(bits, from)) = {i \in 0 .. 6 : from + i \in bits}
<1> DEFINE one(i) == IF from + i \in bits THEN 1 ELSE 0
<1>1. \A i \in 0 .. 6 : one(i) \in 0 .. 1
  OBVIOUS
<1>2. PICK n : n = Group(bits, from)
  OBVIOUS
<1>3. n = one(0) + 2 * one(1) + 4 * one(2) + 8 * one(3) + 16 * one(4)
            + 32 * one(5) + 64 * one(6)
  BY <1>2 DEF Group
<1>4. /\ n \in 0 .. 127
      /\ n % 2 = one(0) /\ (n \div 2) % 2 = one(1) /\ (n \div 4) % 2 = one(2)
      /\ (n \div 8) % 2 = one(3) /\ (n \div 16) % 2 = one(4)
      /\ (n \div 32) % 2 = one(5) /\ (n \div 64) % 2 = one(6)
  <2> HIDE DEF one
  <2> QED BY <1>1, <1>3, Digits
<1>5. /\ n \div 1 = n /\ n \div 128 = 0 /\ n \div 256 = 0 /\ n \div 512 = 0
  BY <1>4
<1>6. ASSUME NEW i \in 0 .. 9
      PROVE  (n \div 2^i) % 2 = 1 <=> i \in 0 .. 6 /\ from + i \in bits
  <2>1. CASE i = 0 BY <2>1, <1>4, <1>5, Powers
  <2>2. CASE i = 1 BY <2>2, <1>4, Powers
  <2>3. CASE i = 2 BY <2>3, <1>4, Powers
  <2>4. CASE i = 3 BY <2>4, <1>4, Powers
  <2>5. CASE i = 4 BY <2>5, <1>4, Powers
  <2>6. CASE i = 5 BY <2>6, <1>4, Powers
  <2>7. CASE i = 6 BY <2>7, <1>4, Powers
  <2>8. CASE i = 7 BY <2>8, <1>5, Powers
  <2>9. CASE i = 8 BY <2>9, <1>5, Powers
  <2>10. CASE i = 9 BY <2>10, <1>5, Powers
  <2> QED BY <2>1, <2>2, <2>3, <2>4, <2>5, <2>6, <2>7, <2>8, <2>9, <2>10
<1>7. Bits(n) = {i \in 0 .. 9 : (n \div 2^i) % 2 = 1}
  BY <1>4 DEF Bits, SmallBits
<1>8. Bits(n) = {i \in 0 .. 6 : from + i \in bits}
  <2>1. \A i \in Bits(n) : i \in 0 .. 6 /\ from + i \in bits
    BY <1>6, <1>7
  <2>2. ASSUME NEW i \in 0 .. 6, from + i \in bits PROVE i \in Bits(n)
    <3>1. i \in 0 .. 9
      OBVIOUS
    <3>2. (n \div 2^i) % 2 = 1
      BY <2>2, <3>1, <1>6
    <3> QED BY <3>1, <3>2, <1>7
  <2> QED BY <2>1, <2>2
<1> QED BY <1>2, <1>4, <1>8

\* A set of naturals that is not empty has a least member, which is Min.
LEMMA Least ==
  ASSUME NEW S, S \subseteq Nat, S # {}
  PROVE  Min(S) \in S /\ \A k \in S : Min(S) <= k
<1> DEFINE Below == {ss \in Nat \X Nat : ss[1] < ss[2]}
<1>1. IsWellFoundedOn(Below, Nat)
  BY NatLessThanWellFounded DEF OpToRel
<1> HIDE DEF Below
<1>2. PICK m \in S : \A k \in S : <<k, m>> \notin Below
  BY <1>1, WFMin
<1>3. ASSUME NEW k \in S PROVE m <= k
  <2>1. k \in Nat /\ m \in Nat /\ <<k, m>> \in Nat \X Nat
    OBVIOUS
  <2>2. ~(k < m)
    BY <1>2, <2>1 DEF Below
  <2> QED BY <2>1, <2>2
<1> QED BY <1>3 DEF Min

\* An integer that is not zero has a highest bit, which is Max.
LEMMA Highest ==
  ASSUME NEW n \in Nat, NEW bits, bits \subseteq 0 .. n, bits # {}
  PROVE  Max(bits) \in bits /\ \A k \in bits : k <= Max(bits)
<1> DEFINE T == {n - k : k \in bits}
<1>1. T \subseteq Nat /\ T # {}
  <2>1. \A k \in bits : n - k \in Nat
    OBVIOUS
  <2>2. PICK x \in bits : TRUE
    OBVIOUS
  <2>3. n - x \in T
    BY <2>2
  <2> QED BY <2>1, <2>3
<1>2. PICK m \in T : \A k \in T : m <= k
  BY <1>1, Least
<1>3. PICK x \in bits : m = n - x
  OBVIOUS
<1>4. ASSUME NEW k \in bits PROVE k <= x
  <2>1. n - k \in T
    OBVIOUS
  <2>2. n - x <= n - k
    BY <2>1, <1>2, <1>3
  <2> QED BY <2>2
<1>5. x \in bits /\ \A y \in bits : x >= y
  BY <1>4
<1>6. Max(bits) \in bits /\ \A y \in bits : Max(bits) >= y
  BY <1>5 DEF Max
<1> QED BY <1>6

-----------------------------------------------------------------------------
(***************************************************************************)
(* Varints                                                                 *)
(***************************************************************************)

\* The bytes of a varint: as many as the highest bit needs, each with seven
\* bits and all but the last with the continuation bit.
LEMMA VarintBytes ==
  ASSUME NEW bits, bits \subseteq 0 .. 63
  PROVE  /\ Uint32Length(bits) \in 1 .. 10
         /\ Varint(bits) \in Seq(0 .. 255) /\ Len(Varint(bits)) = Uint32Length(bits)
         /\ \A k \in 1 .. Uint32Length(bits) :
              /\ Varint(bits)[k] % 128 = Group(bits, 7 * (k - 1))
              /\ Varint(bits)[k] < 128 <=> k = Uint32Length(bits)
         /\ \A b \in bits : b < 7 * Uint32Length(bits)
         /\ Uint32Length(bits) > 1 => \E b \in bits : b >= 7 * (Uint32Length(bits) - 1)
<1>1. PICK n : n = Uint32Length(bits)
  OBVIOUS
<1>2. /\ n \in 1 .. 10
      /\ \A b \in bits : b < 7 * n
      /\ n > 1 => \E b \in bits : b >= 7 * (n - 1)
  <2>1. CASE bits = {}
    BY <2>1, <1>1 DEF Uint32Length
  <2>2. CASE bits # {}
    <3>1. Max(bits) \in bits /\ \A k \in bits : k <= Max(bits)
      BY <2>2, Highest
    <3>2. n = (Max(bits) \div 7) + 1
      BY <2>2, <1>1 DEF Uint32Length
    <3>3. PICK top : top = Max(bits)
      OBVIOUS
    <3>4. top \in 0 .. 63 /\ n = (top \div 7) + 1
      BY <3>1, <3>2, <3>3
    <3>5. n \in 1 .. 10 /\ top < 7 * n /\ top >= 7 * (n - 1)
      BY <3>4
    <3>6. \A b \in bits : b < 7 * n
      BY <3>1, <3>3, <3>4, <3>5
    <3>7. top \in bits
      BY <3>1, <3>3
    <3> QED BY <3>5, <3>6, <3>7
  <2> QED BY <2>1, <2>2
<1>3. Varint(bits) = [k \in 1 .. n |-> Group(bits, 7 * (k - 1)) + (IF k < n THEN 128 ELSE 0)]
  BY <1>1 DEF Varint, Uint32Length
<1>4. \A k \in 1 .. n : Group(bits, 7 * (k - 1)) \in 0 .. 127
  BY <1>2, GroupBits
<1>5. \A k \in 1 .. n : /\ Varint(bits)[k] \in 0 .. 255
                        /\ Varint(bits)[k] % 128 = Group(bits, 7 * (k - 1))
                        /\ Varint(bits)[k] < 128 <=> k = n
  <2> SUFFICES ASSUME NEW k \in 1 .. n
               PROVE  /\ Varint(bits)[k] \in 0 .. 255
                      /\ Varint(bits)[k] % 128 = Group(bits, 7 * (k - 1))
                      /\ Varint(bits)[k] < 128 <=> k = n
    OBVIOUS
  <2>1. PICK g \in 0 .. 127 : g = Group(bits, 7 * (k - 1))
    BY <1>4
  <2>2. Varint(bits)[k] = g + (IF k < n THEN 128 ELSE 0)
    BY <1>3, <2>1
  <2> QED BY <2>1, <2>2, <1>2
<1>6. Varint(bits) \in Seq(0 .. 255) /\ Len(Varint(bits)) = n
  BY <1>2, <1>3, <1>5
<1> QED BY <1>1, <1>2, <1>5, <1>6

-----------------------------------------------------------------------------
\* The bytes stand in the buffer from the given position on.
StandsAt(buf, pos, bytes) ==
  /\ pos + Len(bytes) - 1 <= Len(buf)
  /\ \A k \in 1 .. Len(bytes) : buf[pos + k - 1] = bytes[k]

\* The buffer ends in the middle of the bytes that start at the position.
CutAt(buf, pos, bytes) ==
  /\ pos <= Len(buf) + 1 /\ pos + Len(bytes) - 1 > Len(buf)
  /\ \A k \in 1 .. Len(buf) - pos + 1 : buf[pos + k - 1] = bytes[k]

\* A varint ends at its last byte, if a reader looks that far.
LEMMA SizeOfVarint ==
  ASSUME NEW bits, bits \subseteq 0 .. 63, NEW buf \in Seq(0 .. 255), NEW pos \in Nat \ {0},
         StandsAt(buf, pos, Varint(bits)), NEW max \in Nat
  PROVE  VarintSize(buf, pos, max) = IF Uint32Length(bits) <= max THEN Uint32Length(bits) ELSE 0
<1>1. PICK n \in 1 .. 10 : n = Uint32Length(bits)
  BY VarintBytes
<1>2. \A k \in 0 .. n - 1 : Ends(buf, pos + k) <=> k = n - 1
  <2> SUFFICES ASSUME NEW k \in 0 .. n - 1 PROVE Ends(buf, pos + k) <=> k = n - 1
    OBVIOUS
  <2>1. k + 1 \in 1 .. n /\ pos + (k + 1) - 1 = pos + k
    OBVIOUS
  <2>2. Len(Varint(bits)) = n /\ (Varint(bits)[k + 1] < 128 <=> k + 1 = n)
    BY <1>1, <2>1, VarintBytes
  <2>3. buf[pos + k] = Varint(bits)[k + 1] /\ pos + k <= Len(buf)
    BY <2>1, <2>2 DEF StandsAt
  <2> QED BY <2>2, <2>3 DEF Ends
<1> DEFINE ends == {k \in 0 .. max - 1 : Ends(buf, pos + k)}
<1>3. \A k \in 0 .. n - 1 : k \in ends <=> k <= max - 1 /\ k = n - 1
  BY <1>2
<1>4. VarintSize(buf, pos, max) = IF ends = {} THEN 0 ELSE Min(ends) + 1
  BY DEF VarintSize
<1>5. ends \subseteq 0 .. max - 1
  OBVIOUS
<1> HIDE DEF ends
<1>6. CASE n <= max
  <2>1. n - 1 \in ends
    BY <1>3, <1>6
  <2>2. \A k \in ends : n - 1 <= k
    BY <1>3, <1>5
  <2>3. ends \subseteq Nat /\ ends # {}
    BY <1>5, <2>1
  <2>4. Min(ends) \in ends /\ \A k \in ends : Min(ends) <= k
    BY <2>3, Least
  <2>5. PICK m : m = Min(ends)
    OBVIOUS
  <2>6. m \in Nat /\ m <= n - 1 /\ n - 1 <= m
    BY <2>1, <2>2, <2>3, <2>4, <2>5
  <2>7. m + 1 = n
    BY <2>6
  <2>8. VarintSize(buf, pos, max) = n
    BY <1>4, <2>3, <2>5, <2>7
  <2> QED BY <1>1, <1>6, <2>8
<1>7. CASE ~(n <= max)
  <2>1. ends = {}
    BY <1>3, <1>5, <1>7
  <2> QED BY <1>1, <1>4, <1>7, <2>1
<1> QED BY <1>6, <1>7

\* The groups of a varint's first bytes are the integer's low bits.
LEMMA GroupsOfVarint ==
  ASSUME NEW bits, bits \subseteq 0 .. 63, NEW buf \in Seq(0 .. 255), NEW pos \in Nat \ {0},
         StandsAt(buf, pos, Varint(bits)), NEW m \in 1 .. Uint32Length(bits)
  PROVE  \A b : b \in Groups(buf, pos, m) <=> b \in bits /\ b < 7 * m
<1>1. PICK n \in 1 .. 10 : n = Uint32Length(bits)
  BY VarintBytes
<1>2. ASSUME NEW k \in 0 .. m - 1
      PROVE  Bits(Low7(buf, pos + k)) = {i \in 0 .. 6 : 7 * k + i \in bits}
  <2>1. k + 1 \in 1 .. n /\ pos + (k + 1) - 1 = pos + k /\ 7 * ((k + 1) - 1) = 7 * k
    BY <1>1
  <2>2. Len(Varint(bits)) = n /\ Varint(bits)[k + 1] % 128 = Group(bits, 7 * k)
    BY <1>1, <2>1, VarintBytes
  <2>3. buf[pos + k] = Varint(bits)[k + 1] /\ pos + k <= Len(buf)
    BY <2>1, <2>2 DEF StandsAt
  <2>4. Low7(buf, pos + k) = Group(bits, 7 * k)
    BY <2>2, <2>3 DEF Low7
  <2>5. 7 * k \in Nat
    OBVIOUS
  <2> QED BY <2>4, <2>5, GroupBits
<1>3. ASSUME NEW b \in Groups(buf, pos, m) PROVE b \in bits /\ b < 7 * m
  <2>1. PICK k \in 0 .. m - 1 : b \in {7 * k + i : i \in Bits(Low7(buf, pos + k))}
    BY <1>3 DEF Groups
  <2>2. PICK i \in 0 .. 6 : b = 7 * k + i /\ 7 * k + i \in bits
    BY <1>2, <2>1
  <2>3. 7 * k + i < 7 * m
    BY <1>1
  <2> QED BY <2>2, <2>3
<1>4. ASSUME NEW b \in bits, b < 7 * m PROVE b \in Groups(buf, pos, m)
  <2>1. PICK k, i : k = b \div 7 /\ i = b % 7
    OBVIOUS
  <2>2. b \in 0 .. 63 /\ m \in Nat
    BY <1>1
  <2>3. k \in 0 .. m - 1 /\ i \in 0 .. 6 /\ b = 7 * k + i
    BY <1>4, <2>1, <2>2
  <2>4. i \in Bits(Low7(buf, pos + k))
    BY <1>2, <2>3
  <2>5. b \in {7 * k + j : j \in Bits(Low7(buf, pos + k))}
    BY <2>3, <2>4
  <2> QED BY <2>3, <2>5 DEF Groups
<1> QED BY <1>3, <1>4

\* What uint32 does with a varint that ends within five bytes, and with one that
\* does not.
LEMMA Uint32Cases ==
  ASSUME NEW buf, NEW pos, NEW n \in Nat, VarintSize(buf, pos, 5) = n
  PROVE  /\ n > 0 => ReadUint32(buf, pos) = Read(Groups(buf, pos, n) \cap (0 .. 31), pos + n)
         /\ n = 0 /\ pos + 9 <= Len(buf) =>
              ReadUint32(buf, pos) = Read(Groups(buf, pos, 5) \cap (0 .. 31), pos + 10)
         /\ n = 0 /\ ~(pos + 9 <= Len(buf)) => ReadUint32(buf, pos) = Thrown
<1>1. n > 0 <=> ~(n = 0)
  OBVIOUS
<1> QED BY <1>1, Zenon DEF ReadUint32

\* readLongVarint with more than four bytes left, and a varint that ends.
LEMMA LongOfMany ==
  ASSUME NEW buf, NEW pos, NEW n \in Nat, VarintSize(buf, pos, 10) = n,
         NEW left \in Nat, left = Len(buf) - pos + 1, left > 4, n > 0
  PROVE  ReadLong(buf, pos) = Read(Groups(buf, pos, n) \cap (0 .. 63), pos + n)
<1>1. left \notin 3 .. 4 /\ ~(left <= 4)
  OBVIOUS
<1> QED BY <1>1, Zenon DEF ReadLong

\* With four left, or three, and no end among the first three.
LEMMA LongOfFour ==
  ASSUME NEW buf, NEW pos, NEW n \in Nat, VarintSize(buf, pos, 10) = n,
         NEW left \in Nat, left = Len(buf) - pos + 1, left \in 3 .. 4, n \in {0, 4}
  PROVE  ReadLong(buf, pos) = Read(Groups(buf, pos, 4), pos + 4)
<1>1. ~(left > 4) /\ n \notin 1 .. 3
  OBVIOUS
<1> QED BY <1>1, Zenon DEF ReadLong

\* With four left or fewer, and an end among the first three.
LEMMA LongOfFew ==
  ASSUME NEW buf, NEW pos, NEW n \in Nat, VarintSize(buf, pos, 10) = n,
         NEW left \in Nat, left = Len(buf) - pos + 1, left <= 4, n \in 1 .. 3
  PROVE  ReadLong(buf, pos) = Read(Groups(buf, pos, n), pos + n)
<1>1. ~(left > 4) /\ n \notin {0, 4}
  OBVIOUS
<1> QED BY <1>1, Zenon DEF ReadLong

\* Without an end, unless three or four are left.
LEMMA LongOfNone ==
  ASSUME NEW buf, NEW pos, NEW n \in Nat, VarintSize(buf, pos, 10) = n,
         NEW left \in Nat, left = Len(buf) - pos + 1, left \notin 3 .. 4, n = 0
  PROVE  ReadLong(buf, pos) = Thrown
<1>1. ~(n > 0) /\ n \notin 1 .. 3
  OBVIOUS
<1> QED BY <1>1, Zenon DEF ReadLong

\* Reader.uint32 undoes Writer.uint32 and Writer.int32, wherever the bytes
\* stand in a buffer: a negative int32 is read back from the first five of its
\* ten bytes, and the other five are passed over.
THEOREM Uint32Arrives ==
  ASSUME NEW bits, bits \subseteq 0 .. 31, NEW buf \in Seq(0 .. 255), NEW pos \in Nat \ {0}
  PROVE  /\ StandsAt(buf, pos, WriteUint32(bits).bytes) =>
              ReadUint32(buf, pos) = Read(bits, pos + WriteUint32(bits).len)
         /\ StandsAt(buf, pos, WriteInt32(bits).bytes) =>
              ReadUint32(buf, pos) = Read(bits, pos + WriteInt32(bits).len)
<1>0. bits \subseteq 0 .. 63
  OBVIOUS
<1>1. ASSUME StandsAt(buf, pos, Varint(bits))
      PROVE  ReadUint32(buf, pos) = Read(bits, pos + Uint32Length(bits))
  <2>1. PICK n \in 1 .. 10 : n = Uint32Length(bits)
    BY <1>0, VarintBytes
  <2>2. n <= 5
    <3>1. n > 1 => \E b \in bits : b >= 7 * (n - 1)
      BY <1>0, <2>1, VarintBytes
    <3> QED BY <3>1
  <2>3. VarintSize(buf, pos, 5) = n
    BY <1>1, <2>1, <2>2, <1>0, SizeOfVarint
  <2>4. \A b : b \in Groups(buf, pos, n) <=> b \in bits /\ b < 7 * n
    <3>1. n \in 1 .. Uint32Length(bits)
      BY <2>1
    <3> QED BY <1>0, <1>1, <3>1, GroupsOfVarint
  <2>5. \A b \in bits : b < 7 * n
    BY <1>0, <2>1, VarintBytes
  <2>6. Groups(buf, pos, n) \cap (0 .. 31) = bits
    BY <2>4, <2>5
  <2>7. n \in Nat /\ n > 0
    OBVIOUS
  <2>8. ReadUint32(buf, pos) = Read(Groups(buf, pos, n) \cap (0 .. 31), pos + n)
    BY <2>3, <2>7, Uint32Cases, Zenon
  <2> QED BY <2>1, <2>6, <2>8
<1>2. WriteUint32(bits).bytes = Varint(bits) /\ WriteUint32(bits).len = Uint32Length(bits)
  BY DEF WriteUint32, Written
<1>3. ASSUME StandsAt(buf, pos, WriteInt32(bits).bytes), 31 \in bits
      PROVE  ReadUint32(buf, pos) = Read(bits, pos + WriteInt32(bits).len)
  <2> DEFINE wide == bits \cup (32 .. 63)
  <2>1. wide \subseteq 0 .. 63 /\ 63 \in wide
    OBVIOUS
  <2>2. StandsAt(buf, pos, Varint(wide)) /\ WriteInt32(bits).len = 10
    <3>1. WriteInt32(bits).bytes = Varint(wide) /\ WriteInt32(bits).len = 10
      BY <1>3 DEF WriteInt32, Written
    <3> QED BY <1>3, <3>1
  <2>3. \A b \in 0 .. 31 : b \in wide <=> b \in bits
    OBVIOUS
  <2> HIDE DEF wide
  <2>4. Uint32Length(wide) = 10
    <3>1. Uint32Length(wide) \in 1 .. 10 /\ 63 < 7 * Uint32Length(wide)
      BY <1>0, <2>1, VarintBytes
    <3> QED BY <3>1
  <2>5. VarintSize(buf, pos, 5) = 0
    <3>1. 5 \in Nat /\ ~(Uint32Length(wide) <= 5)
      BY <2>4
    <3> QED BY <2>1, <2>2, <3>1, SizeOfVarint, Zenon
  <2>6. PICK m \in 1 .. Uint32Length(wide) : m = 5
    BY <2>4
  <2>7. Groups(buf, pos, 5) \cap (0 .. 31) = bits
    <3>1. \A b : b \in Groups(buf, pos, m) <=> b \in wide /\ b < 7 * m
      BY <2>1, <2>2, GroupsOfVarint
    <3>2. \A b \in wide : b \in 0 .. 31 => b < 7 * m
      BY <2>6
    <3>3. Groups(buf, pos, m) \cap (0 .. 31) = bits
      BY <2>3, <3>1, <3>2
    <3> QED BY <2>6, <3>3
  <2>8. pos + 9 <= Len(buf)
    <3>1. Len(Varint(wide)) = 10
      BY <2>1, <2>4, VarintBytes
    <3> QED BY <1>3, <2>2, <3>1 DEF StandsAt
  <2>9. 0 \in Nat
    OBVIOUS
  <2> QED BY <2>2, <2>5, <2>7, <2>8, <2>9, Uint32Cases, Zenon
<1>4. 31 \notin bits => WriteInt32(bits) = WriteUint32(bits)
  BY DEF WriteInt32
<1> QED BY <1>1, <1>2, <1>3, <1>4

\* readLongVarint undoes writeVarint64, although it treats the last four bytes
\* of a buffer differently from the others.
THEOREM LongArrives ==
  ASSUME NEW bits, bits \subseteq 0 .. 63, NEW buf \in Seq(0 .. 255), NEW pos \in Nat \ {0},
         StandsAt(buf, pos, WriteUint64(bits).bytes)
  PROVE  ReadLong(buf, pos) = Read(bits, pos + Len(WriteUint64(bits).bytes))
<1>0. WriteUint64(bits).bytes = Varint(bits)
  BY DEF WriteUint64, Written
<1>1. StandsAt(buf, pos, Varint(bits))
  BY <1>0
<1>2. PICK n \in 1 .. 10 : n = Uint32Length(bits)
  BY VarintBytes
<1>3. Len(Varint(bits)) = n
  BY <1>2, VarintBytes
<1>4. VarintSize(buf, pos, 10) = n
  <2>1. 10 \in Nat /\ n <= 10
    OBVIOUS
  <2> QED BY <1>1, <1>2, <2>1, SizeOfVarint, Zenon
<1>5. Groups(buf, pos, n) = bits
  <2>1. \A b : b \in Groups(buf, pos, n) <=> b \in bits /\ b < 7 * n
    <3>1. n \in 1 .. Uint32Length(bits)
      BY <1>2
    <3> QED BY <1>1, <3>1, GroupsOfVarint, Zenon
  <2>2. \A b \in bits : b < 7 * n
    BY <1>2, VarintBytes
  <2> QED BY <2>1, <2>2
<1>6. PICK left : left = Len(buf) - pos + 1
  OBVIOUS
<1>7. left \in Nat /\ n <= left /\ n \in Nat
  BY <1>1, <1>3, <1>6 DEF StandsAt
<1>8. ReadLong(buf, pos) = Read(bits, pos + n)
  <2>1. CASE left > 4
    <3>1. Groups(buf, pos, n) \cap (0 .. 63) = bits
      BY <1>5
    <3>2. left > 4 /\ n > 0
      BY <2>1
    <3>3. ReadLong(buf, pos) = Read(Groups(buf, pos, n) \cap (0 .. 63), pos + n)
      BY <1>4, <1>6, <1>7, <3>2, LongOfMany
    <3> QED BY <3>1, <3>3
  <2>2. CASE left <= 4 /\ n = 4
    <3>1. left \in 3 .. 4 /\ n \in {0, 4}
      BY <1>7, <2>2
    <3>2. ReadLong(buf, pos) = Read(Groups(buf, pos, 4), pos + 4)
      BY <1>4, <1>6, <1>7, <3>1, LongOfFour
    <3> QED BY <1>5, <2>2, <3>2
  <2>3. CASE left <= 4 /\ n # 4
    <3>1. left <= 4 /\ n \in 1 .. 3
      BY <1>7, <2>3
    <3>2. ReadLong(buf, pos) = Read(Groups(buf, pos, n), pos + n)
      BY <1>4, <1>6, <1>7, <3>1, LongOfFew
    <3> QED BY <1>5, <3>2
  <2> QED BY <1>7, <2>1, <2>2, <2>3
<1> QED BY <1>0, <1>3, <1>8

\* A part of 28 bits that needs m groups.
LEMMA WithinPart ==
  ASSUME NEW part, part \subseteq 0 .. 27, NEW m \in 1 .. 4,
         \A i \in part : i < 7 * m, m > 1 => \E i \in part : i >= 7 * (m - 1)
  PROVE  Within(part) = m
<1> DEFINE P(n) == /\ \A i \in part : i < 7 * n
                   /\ \A k \in 1 .. n - 1 : \E i \in part : i >= 7 * k
<1>1. P(m)
  <2>1. ASSUME NEW k \in 1 .. m - 1 PROVE \E i \in part : i >= 7 * k
    <3>1. PICK i \in part : i >= 7 * (m - 1)
      OBVIOUS
    <3>2. i >= 7 * k
      BY <3>1
    <3> QED BY <3>2
  <2> QED BY <2>1
<1>2. ASSUME NEW n \in 1 .. 4, P(n) PROVE n = m
  <2>1. ~(n < m)
    <3>1. SUFFICES ASSUME n < m PROVE FALSE
      OBVIOUS
    <3>2. PICK i \in part : i >= 7 * (m - 1)
      BY <3>1
    <3>3. i < 7 * n /\ i \in Nat
      BY <1>2
    <3> QED BY <3>1, <3>2, <3>3
  <2>2. ~(m < n)
    <3>1. SUFFICES ASSUME m < n PROVE FALSE
      OBVIOUS
    <3>2. m \in 1 .. n - 1
      BY <3>1
    <3>3. PICK i \in part : i >= 7 * m
      BY <1>2, <3>2
    <3>4. i < 7 * m /\ i \in Nat
      OBVIOUS
    <3> QED BY <3>3, <3>4
  <2> QED BY <2>1, <2>2
<1>3. Within(part) = CHOOSE n \in 1 .. 4 : P(n)
  BY DEF Within
<1> HIDE DEF P
<1> QED BY <1>1, <1>2, <1>3

\* Writer.uint64, which counts with LongBits.length, Writer.uint32 and
\* Writer.int32 add to the length of the message what they write to it, for
\* every integer: the prefix of a submessage and the size of the buffer come
\* from these lengths.
THEOREM LengthsCounted ==
  /\ \A bits \in SUBSET (0 .. 63) : WriteUint64(bits).len = Len(WriteUint64(bits).bytes)
  /\ \A bits \in SUBSET (0 .. 31) :
       /\ WriteUint32(bits).len = Len(WriteUint32(bits).bytes)
       /\ WriteInt32(bits).len = Len(WriteInt32(bits).bytes)
<1>1. ASSUME NEW bits \in SUBSET (0 .. 63) PROVE LongLength(bits) = Uint32Length(bits)
  <2>1. PICK n \in 1 .. 10 : n = Uint32Length(bits)
    BY VarintBytes
  <2>2. \A b \in bits : b < 7 * n
    BY <2>1, VarintBytes
  <2>3. n > 1 => \E b \in bits : b >= 7 * (n - 1)
    BY <2>1, VarintBytes
  <2> DEFINE part0 == {i \in bits : i < 28}
             part1 == {i - 28 : i \in {j \in bits : j >= 28 /\ j < 56}}
             part2 == {i - 56 : i \in {j \in bits : j >= 56}}
  <2>4. LongLength(bits) = IF part2 # {} THEN IF \A i \in part2 : i < 7 THEN 9 ELSE 10
                           ELSE IF part1 # {} THEN 4 + Within(part1) ELSE Within(part0)
    BY DEF LongLength
  <2>5. CASE n \in 9 .. 10
    <3>1. PICK b \in bits : b >= 7 * (n - 1)
      BY <2>3, <2>5
    <3>2. b >= 56 /\ b - 56 \in part2
      BY <2>5, <3>1
    <3>3. (\A i \in part2 : i < 7) <=> n = 9
      <4>1. CASE n = 9
        BY <2>2, <4>1
      <4>2. CASE n = 10
        <5>1. ~(b - 56 < 7)
          BY <3>1, <4>2
        <5> QED BY <3>2, <4>2, <5>1
      <4> QED BY <2>5, <4>1, <4>2
    <3> HIDE DEF part0, part1, part2
    <3> QED BY <2>1, <2>4, <2>5, <3>2, <3>3
  <2>6. CASE n \in 5 .. 8
    <3>1. PICK b \in bits : b >= 7 * (n - 1)
      BY <2>3, <2>6
    <3>2. b >= 28 /\ b < 56
      BY <2>2, <2>6, <3>1
    <3>3. part2 = {}
      <4>1. \A j \in bits : ~(j >= 56)
        BY <2>2, <2>6
      <4> QED BY <4>1
    <3>4. b - 28 \in part1 /\ part1 \subseteq 0 .. 27
      BY <3>2
    <3>5. ASSUME NEW i \in part1 PROVE i < 7 * (n - 4)
      <4>1. PICK j \in bits : i = j - 28
        OBVIOUS
      <4>2. j \in 0 .. 63 /\ j < 7 * n
        BY <2>2
      <4> QED BY <2>6, <4>1, <4>2
    <3>6. b - 28 >= 7 * ((n - 4) - 1)
      BY <2>6, <3>1
    <3>7. n - 4 \in 1 .. 4
      BY <2>6
    <3> HIDE DEF part0, part1, part2
    <3>8. Within(part1) = n - 4
      <4>1. PICK m \in 1 .. 4 : m = n - 4
        BY <3>7
      <4>2. \E i \in part1 : i >= 7 * (m - 1)
        BY <3>4, <3>6, <4>1
      <4>3. \A i \in part1 : i < 7 * m
        BY <3>5, <4>1
      <4>4. Within(part1) = m
        BY <3>4, <4>2, <4>3, WithinPart
      <4> QED BY <4>1, <4>4
    <3>9. LongLength(bits) = 4 + (n - 4)
      BY <2>4, <3>3, <3>4, <3>8
    <3> QED BY <2>1, <2>6, <3>9
  <2>7. CASE n \in 1 .. 4
    <3>1. part2 = {} /\ part1 = {} /\ part0 = bits
      BY <2>2, <2>7
    <3>2. bits \subseteq 0 .. 27
      BY <2>2, <2>7
    <3>3. Within(bits) = n
      BY <2>2, <2>3, <2>7, <3>2, WithinPart
    <3> HIDE DEF part0, part1, part2
    <3> QED BY <2>1, <2>4, <3>1, <3>3
  <2> QED BY <2>5, <2>6, <2>7
<1>2. ASSUME NEW bits \in SUBSET (0 .. 63) PROVE Len(Varint(bits)) = Uint32Length(bits)
  BY VarintBytes
<1>3. ASSUME NEW bits \in SUBSET (0 .. 31), 31 \in bits PROVE Len(Varint(bits \cup (32 .. 63))) = 10
  <2> DEFINE wide == bits \cup (32 .. 63)
  <2>1. wide \subseteq 0 .. 63 /\ 63 \in wide
    OBVIOUS
  <2> HIDE DEF wide
  <2>2. Uint32Length(wide) \in 1 .. 10 /\ 63 < 7 * Uint32Length(wide)
    BY <2>1, VarintBytes
  <2>3. Uint32Length(wide) = 10 /\ wide \in SUBSET (0 .. 63)
    BY <2>1, <2>2
  <2>4. Len(Varint(wide)) = 10
    BY <2>3, <1>2
  <2> QED BY <2>4 DEF wide
<1>4. ASSUME NEW bits \in SUBSET (0 .. 63)
      PROVE  WriteUint64(bits).len = Len(WriteUint64(bits).bytes)
  BY <1>1, <1>2 DEF WriteUint64, Written
<1>5. ASSUME NEW bits \in SUBSET (0 .. 31)
      PROVE  /\ WriteUint32(bits).len = Len(WriteUint32(bits).bytes)
             /\ WriteInt32(bits).len = Len(WriteInt32(bits).bytes)
  <2>1. bits \in SUBSET (0 .. 63)
    OBVIOUS
  <2>2. WriteUint32(bits).len = Len(WriteUint32(bits).bytes)
    BY <1>2, <2>1 DEF WriteUint32, Written
  <2>3. WriteInt32(bits).len = Len(WriteInt32(bits).bytes)
    BY <1>3, <2>2 DEF WriteInt32, Written
  <2> QED BY <2>2, <2>3
<1> QED BY <1>4, <1>5

\* A transfer that stops in the middle of an integer is noticed, by uint32
\* always and by readLongVarint unless three or four bytes arrived: then it
\* takes the fourth, or the lack of it, for the last.
THEOREM CutIntegerNoticed ==
  ASSUME NEW bits, bits \subseteq 0 .. 63, NEW buf \in Seq(0 .. 255), NEW pos \in Nat \ {0},
         CutAt(buf, pos, Varint(bits))
  PROVE  /\ ReadUint32(buf, pos) = Thrown
         /\ Len(buf) - pos + 1 \notin 3 .. 4 => ReadLong(buf, pos) = Thrown
         /\ Len(buf) - pos + 1 \in 3 .. 4 =>
              ReadLong(buf, pos) = Read(Groups(buf, pos, 4), pos + 4)
<1>1. PICK n \in 1 .. 10 : n = Uint32Length(bits)
  BY VarintBytes
<1>2. Len(Varint(bits)) = n
  BY <1>1, VarintBytes
<1>3. PICK left : left = Len(buf) - pos + 1
  OBVIOUS
<1>4. left \in Nat /\ left < n
  BY <1>2, <1>3 DEF CutAt
<1>5. ASSUME NEW k \in Nat PROVE ~Ends(buf, pos + k)
  <2>1. SUFFICES ASSUME pos + k <= Len(buf) PROVE ~(buf[pos + k] < 128)
    BY DEF Ends
  <2>2. k + 1 \in 1 .. left /\ pos + (k + 1) - 1 = pos + k
    BY <1>3, <2>1
  <2>3. buf[pos + k] = Varint(bits)[k + 1]
    BY <1>3, <2>2 DEF CutAt
  <2>4. k + 1 \in 1 .. n /\ k + 1 # n
    BY <1>4, <2>2
  <2>5. ~(Varint(bits)[k + 1] < 128)
    BY <1>1, <2>4, VarintBytes
  <2> QED BY <2>3, <2>5
<1>6. ASSUME NEW max \in Nat PROVE VarintSize(buf, pos, max) = 0
  <2>1. \A k \in 0 .. max - 1 : ~Ends(buf, pos + k)
    <3>1. \A k \in 0 .. max - 1 : k \in Nat
      OBVIOUS
    <3> QED BY <1>5, <3>1, Zenon
  <2>2. {k \in 0 .. max - 1 : Ends(buf, pos + k)} = {}
    BY <2>1, Zenon
  <2> QED BY <2>2 DEF VarintSize
<1>7. VarintSize(buf, pos, 5) = 0 /\ VarintSize(buf, pos, 10) = 0 /\ 0 \in Nat
  BY <1>6
<1>8. ~(pos + 9 <= Len(buf))
  BY <1>3, <1>4
<1>9. ReadUint32(buf, pos) = Thrown
  BY <1>7, <1>8, Uint32Cases
<1>10. left \notin 3 .. 4 => ReadLong(buf, pos) = Thrown
  BY <1>3, <1>4, <1>7, LongOfNone
<1>11. left \in 3 .. 4 => ReadLong(buf, pos) = Read(Groups(buf, pos, 4), pos + 4)
  BY <1>3, <1>4, <1>7, LongOfFour
<1> QED BY <1>3, <1>9, <1>10, <1>11

-----------------------------------------------------------------------------
(***************************************************************************)
(* Numbers in place of 64-bit integers                                     *)
(***************************************************************************)

\* The two's complement keeps the lowest bit that is one and what is below,
\* and flips what is above.
LEMMA NegatedBits ==
  ASSUME NEW bits, bits \subseteq 0 .. 63
  PROVE  \A i : i \in Negated(bits) <=>
                 /\ bits # {}
                 /\ i = Min(bits) \/ (i \in 0 .. 63 /\ i > Min(bits) /\ i \notin bits)
<1> DEFINE flipped == (0 .. 63) \ bits
           P(j) == j \notin flipped /\ \A i \in 0 .. j - 1 : i \in flipped
           top == CHOOSE j \in 0 .. 64 : P(j)
<1>1. Negated(bits) = ((flipped \ (0 .. top - 1)) \cup {top}) \ {64}
  BY DEF Negated, AddBit
<1>2. ASSUME NEW m \in 0 .. 64, P(m) PROVE top = m
  <2>1. \A j \in 0 .. 64 : P(j) => j = m
    <3>1. SUFFICES ASSUME NEW j \in 0 .. 64, P(j), j # m PROVE FALSE
      OBVIOUS
    <3>2. CASE j < m
      <4>1. j \in 0 .. m - 1
        BY <3>2
      <4> QED BY <1>2, <3>1, <4>1
    <3>3. CASE m < j
      <4>1. m \in 0 .. j - 1
        BY <3>3
      <4> QED BY <1>2, <3>1, <4>1
    <3> QED BY <3>1, <3>2, <3>3
  <2> HIDE DEF P
  <2> QED BY <1>2, <2>1
<1> HIDE DEF top
<1>3. ASSUME bits = {} PROVE Negated(bits) = {}
  <2>1. P(64)
    BY <1>3
  <2>2. top = 64
    BY <1>2, <2>1
  <2> QED BY <1>1, <1>3, <2>2
<1>4. ASSUME bits # {}
      PROVE  \A i : i \in Negated(bits) <=>
                i = Min(bits) \/ (i \in 0 .. 63 /\ i > Min(bits) /\ i \notin bits)
  <2>1. Min(bits) \in bits /\ \A k \in bits : Min(bits) <= k
    <3>1. bits \subseteq Nat
      OBVIOUS
    <3> QED BY <1>4, <3>1, Least
  <2>2. PICK m \in 0 .. 63 : m = Min(bits)
    BY <2>1
  <2>3. m \in bits /\ \A k \in bits : m <= k
    BY <2>1, <2>2
  <2>4. P(m)
    BY <2>3
  <2>5. top = m
    BY <1>2, <2>4
  <2>6. ASSUME NEW i \in Negated(bits) PROVE i = m \/ (i \in 0 .. 63 /\ i > m /\ i \notin bits)
    BY <1>1, <2>3, <2>5, <2>6
  <2>7. m \in Negated(bits)
    BY <1>1, <2>5
  <2>8. ASSUME NEW i \in 0 .. 63, i > m, i \notin bits PROVE i \in Negated(bits)
    BY <1>1, <2>5, <2>8
  <2>9. \A i : i \in Negated(bits) <=> i = m \/ (i \in 0 .. 63 /\ i > m /\ i \notin bits)
    BY <2>6, <2>7, <2>8
  <2> QED BY <2>2, <2>9
<1> QED BY <1>3, <1>4

\* Two complements give the integer back.
LEMMA NegatedTwice ==
  ASSUME NEW bits, bits \subseteq 0 .. 63
  PROVE  Negated(bits) \subseteq 0 .. 63 /\ Negated(Negated(bits)) = bits
<1>1. CASE bits = {}
  <2>1. Negated(bits) = {}
    BY <1>1, NegatedBits
  <2> QED BY <1>1, <2>1, NegatedBits
<1>2. CASE bits # {}
  <2>1. bits \subseteq Nat
    OBVIOUS
  <2>2. Min(bits) \in bits /\ \A k \in bits : Min(bits) <= k
    BY <1>2, <2>1, Least
  <2>3. PICK m \in 0 .. 63 : m = Min(bits)
    BY <2>2
  <2>4. PICK N : N = Negated(bits)
    OBVIOUS
  <2>5. \A i : i \in N <=> i = m \/ (i \in 0 .. 63 /\ i > m /\ i \notin bits)
    BY <1>2, <2>3, <2>4, NegatedBits
  <2>6. m \in bits /\ \A k \in bits : m <= k
    BY <2>2, <2>3
  <2>7. N \subseteq 0 .. 63 /\ N \subseteq Nat /\ N # {} /\ m \in N /\ \A k \in N : m <= k
    BY <2>5
  <2>8. Min(N) \in N /\ \A k \in N : Min(N) <= k
    BY <2>7, Least
  <2>9. Min(N) = m
    <3>1. PICK x \in N : x = Min(N)
      BY <2>8
    <3>2. x <= m /\ m <= x
      BY <2>7, <2>8, <3>1
    <3>3. x = m
      BY <2>7, <3>2
    <3> QED BY <3>1, <3>3
  <2>10. \A i : i \in Negated(N) <=> i = m \/ (i \in 0 .. 63 /\ i > m /\ i \notin N)
    BY <2>7, <2>9, NegatedBits
  <2>11. ASSUME NEW i PROVE i \in Negated(N) <=> i \in bits
    <3>1. i \in bits => i \in 0 .. 63 /\ m <= i
      BY <2>6
    <3> QED BY <2>5, <2>6, <2>10, <3>1
  <2>12. Negated(N) = bits
    BY <2>11
  <2> QED BY <2>4, <2>7, <2>12
<1> QED BY <1>1, <1>2

\* Without the Long library a 64-bit integer becomes a number.  It is the same
\* integer, and has the same bits when it is written again, if it takes no more
\* than 53 bits, as a negative one if its complement does: the file sizes and
\* times a program can send.
THEOREM NumberExact ==
  ASSUME NEW bits, bits \subseteq 0 .. 63
  PROVE  /\ bits \subseteq 0 .. 52 => \A signed \in BOOLEAN : ToNumber(bits, signed) = bits
         /\ 52 .. 63 \subseteq bits => ToNumber(bits, TRUE) = bits
<1>1. ASSUME NEW b, b \subseteq 0 .. 52 PROVE ToDouble(b) = b
  <2>1. CASE b = {}
    BY <2>1 DEF ToDouble
  <2>2. CASE b # {}
    <3>1. b \subseteq Nat
      BY <1>1
    <3>2. Min(b) \in b
      BY <2>2, <3>1, Least
    <3>3. 52 \in Nat
      OBVIOUS
    <3>4. Max(b) \in b
      BY <1>1, <2>2, <3>3, Highest
    <3>5. Max(b) \in 0 .. 52 /\ Min(b) \in 0 .. 52
      BY <1>1, <3>2, <3>4
    <3>6. Max(b) - Min(b) <= 52
      BY <3>5
    <3> QED BY <3>6 DEF ToDouble
  <2> QED BY <2>1, <2>2
<1>2. ASSUME bits \subseteq 0 .. 52, NEW signed \in BOOLEAN PROVE ToNumber(bits, signed) = bits
  <2>1. ToDouble(bits) = bits
    BY <1>1, <1>2
  <2>2. 63 \notin bits
    BY <1>2
  <2>3. bits \cap (0 .. 63) = bits
    OBVIOUS
  <2> QED BY <2>1, <2>2, <2>3 DEF ToNumber
<1>3. ASSUME 52 .. 63 \subseteq bits PROVE ToNumber(bits, TRUE) = bits
  <2>1. 63 \in bits /\ 52 \in bits /\ bits \subseteq Nat
    BY <1>3
  <2>2. Min(bits) \in bits /\ \A k \in bits : Min(bits) <= k
    BY <2>1, Least
  <2>3. PICK m : m = Min(bits)
    OBVIOUS
  <2>4. \A i : i \in Negated(bits) <=> i = m \/ (i \in 0 .. 63 /\ i > m /\ i \notin bits)
    BY <2>1, <2>3, NegatedBits
  <2>5. m \in bits /\ m <= 52
    BY <2>1, <2>2, <2>3
  <2>6. Negated(bits) \subseteq 0 .. 52
    <3>1. m \in 0 .. 52
      BY <2>5
    <3>2. \A i \in 0 .. 63 : i \notin bits => i \in 0 .. 52
      BY <1>3
    <3> QED BY <2>4, <3>1, <3>2
  <2>7. ToDouble(Negated(bits)) = Negated(bits)
    BY <1>1, <2>6
  <2>8. Negated(Negated(bits)) = bits /\ bits \cap (0 .. 63) = bits
    BY NegatedTwice
  <2> QED BY <2>1, <2>7, <2>8 DEF ToNumber
<1> QED BY <1>2, <1>3
=============================================================================
