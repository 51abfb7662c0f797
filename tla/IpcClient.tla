------------------------------ MODULE IpcClient ------------------------------
(***************************************************************************)
(* The multiplexing IPC client of internal/ipc/client.go.                  *)
(*                                                                         *)
(* One connection is shared by the goroutines that execute Call.  A Call   *)
(* registers a channel under a fresh request ID, writes its envelope and   *)
(* waits for its channel or its context.  The readLoop goroutine matches   *)
(* responses to channels by ID and, when the scanner stops, runs its       *)
(* deferred functions: drainReqs, conn.Close, wg.Done, in that order.      *)
(* Every step between two acquisitions of mu is an action of its own.      *)
(*                                                                         *)
(* The daemon at the other end is external: it answers the requests it     *)
(* has read in any order (the server starts one goroutine per request),    *)
(* pushes events, sends lines that do not parse, and may go away.          *)
(***************************************************************************)
EXTENDS Naturals, FiniteSets

CONSTANTS
  Calls,    \* invocations of Call, each made by a goroutine of its own
  NoCall,   \* a request ID with no registered channel
  MaxID,    \* bound on the request IDs handed out
  Faults    \* environment events that may happen, a subset of AllFaults

AllFaults == {"close", "peerDown", "tooLong", "cancel"}

ASSUME NoCallAssumption == NoCall \notin Calls
ASSUME MaxIDAssumption == MaxID \in Nat
ASSUME FaultsAssumption == Faults \subseteq AllFaults

VARIABLES
  nextID,   \* Client.nextID
  reqs,     \* Client.reqs: request ID -> Call owning the channel, or NoCall
  closed,   \* Client.closed
  connOpen, \* the local end of Client.conn has not been closed
  peerUp,   \* the daemon's end of the connection is open
  pc,       \* progress of each Call
  id,       \* the request ID of each Call, 0 before it has one
  ch,       \* channel of each Call: the buffered response (0 = none), closed?
  ctx,      \* Calls whose context is cancelled
  result,   \* what each Call returned
  wire,     \* IDs of requests the daemon has not answered yet
  inbox,    \* envelopes on their way to the client
  reader,   \* progress of readLoop
  got,      \* ID and channel owner readLoop holds between mu and ch <- resp
  closer,   \* progress of Close
  panicked  \* a channel was closed twice or written after being closed

vars == <<nextID, reqs, closed, connOpen, peerUp, pc, id, ch, ctx, result,
          wire, inbox, reader, got, closer, panicked>>

callVars == <<nextID, pc, id, result>>
connVars == <<closed, connOpen, peerUp>>

IDs == 1 .. MaxID
Event == MaxID + 1  \* an envelope that is not a response, or does not parse

Outcome == {"response", "ctx", "clientClosed", "connClosed", "writeError"}
NoResult == [kind |-> "none", of |-> 0]
Result == [kind : Outcome \cup {"none"}, of : 0 .. MaxID]
Pc == {"idle", "register", "recheck", "write", "wait", "done"}
NoGot == [id |-> 0, call |-> NoCall]

TypeOK ==
  /\ nextID \in 1 .. (MaxID + 1)
  /\ reqs \in [IDs -> Calls \cup {NoCall}]
  /\ closed \in BOOLEAN /\ connOpen \in BOOLEAN /\ peerUp \in BOOLEAN
  /\ pc \in [Calls -> Pc]
  /\ id \in [Calls -> 0 .. MaxID]
  /\ ch \in [Calls -> [resp : 0 .. MaxID, closed : BOOLEAN]]
  /\ ctx \in SUBSET Calls
  /\ result \in [Calls -> Result]
  /\ wire \in SUBSET IDs
  /\ inbox \in SUBSET (IDs \cup {Event})
  /\ reader \in {"scan", "deliver", "drain", "closeConn", "done"}
  /\ got \in [id : 0 .. MaxID, call : Calls \cup {NoCall}]
  /\ closer \in {"idle", "closeConn", "wait", "done"}
  /\ panicked \in BOOLEAN

(* NewClient: connected, one readLoop goroutine, IDs start at 1.           *)
Init ==
  /\ nextID = 1
  /\ reqs = [i \in IDs |-> NoCall]
  /\ closed = FALSE /\ connOpen = TRUE /\ peerUp = TRUE
  /\ pc = [c \in Calls |-> "idle"]
  /\ id = [c \in Calls |-> 0]
  /\ ch = [c \in Calls |-> [resp |-> 0, closed |-> FALSE]]
  /\ ctx = {}
  /\ result = [c \in Calls |-> NoResult]
  /\ wire = {} /\ inbox = {}
  /\ reader = "scan" /\ got = NoGot /\ closer = "idle"
  /\ panicked = FALSE

-----------------------------------------------------------------------------
(***************************************************************************)
(* Call                                                                    *)
(***************************************************************************)

Return(c, kind, of) ==
  /\ pc' = [pc EXCEPT ![c] = "done"]
  /\ result' = [result EXCEPT ![c] = [kind |-> kind, of |-> of]]

(* delete(c.reqs, id) under mu; deleting an absent key is a no-op.         *)
Unregistered(c) == [reqs EXCEPT ![id[c]] = NoCall]

(* The checks of closed and of the context before anything is allocated.   *)
CallEnter(c) ==
  /\ pc[c] = "idle"
  /\ \/ closed /\ Return(c, "clientClosed", 0)
     \/ ~closed /\ c \in ctx /\ Return(c, "ctx", 0)
     \/ /\ ~closed /\ c \notin ctx
        /\ pc' = [pc EXCEPT ![c] = "register"]
        /\ UNCHANGED result
  /\ UNCHANGED <<connVars, nextID, reqs, id, ch, ctx, wire, inbox, reader, got,
                 closer, panicked>>

(* Allocation of the request ID and registration of the channel, under mu. *)
Register(c) ==
  /\ pc[c] = "register" /\ nextID <= MaxID
  /\ id' = [id EXCEPT ![c] = nextID]
  /\ nextID' = nextID + 1
  /\ reqs' = [reqs EXCEPT ![nextID] = c]
  /\ pc' = [pc EXCEPT ![c] = "recheck"]
  /\ UNCHANGED <<connVars, ch, ctx, result, wire, inbox, reader, got, closer,
                 panicked>>

(* The second look at the context, which unregisters on its early return.  *)
Recheck(c) ==
  /\ pc[c] = "recheck"
  /\ \/ c \in ctx /\ Return(c, "ctx", 0) /\ reqs' = Unregistered(c)
     \/ /\ c \notin ctx
        /\ pc' = [pc EXCEPT ![c] = "write"]
        /\ UNCHANGED <<result, reqs>>
  /\ UNCHANGED <<connVars, nextID, id, ch, ctx, wire, inbox, reader, got,
                 closer, panicked>>

(* WriteEnvelope under writeMu.  It fails when either end is closed or     *)
(* the envelope exceeds maxFrameSize.                                      *)
Write(c) ==
  /\ pc[c] = "write"
  /\ \/ /\ connOpen /\ peerUp
        /\ wire' = wire \cup {id[c]}
        /\ pc' = [pc EXCEPT ![c] = "wait"]
        /\ UNCHANGED <<result, reqs>>
     \/ /\ ~(connOpen /\ peerUp) \/ "tooLong" \in Faults
        /\ Return(c, "writeError", 0) /\ reqs' = Unregistered(c)
        /\ UNCHANGED wire
  /\ UNCHANGED <<connVars, nextID, id, ch, ctx, inbox, reader, got, closer,
                 panicked>>

CtxDoneLeaks(c) ==
  /\ pc[c] = "wait" /\ c \in ctx
  /\ Return(c, "ctx", 0)
  /\ UNCHANGED <<connVars, reqs, nextID, id, ch, ctx, wire, inbox, reader, got,
                 closer, panicked>>

(* The select's ctx.Done() branch, possible even when a response is ready. *)
CtxDone(c) ==
  /\ pc[c] = "wait" /\ c \in ctx
  /\ Return(c, "ctx", 0) /\ reqs' = Unregistered(c)
  /\ UNCHANGED <<connVars, nextID, id, ch, ctx, wire, inbox, reader, got,
                 closer, panicked>>

(* The select's channel branch: a response, or a channel closed empty.     *)
Receive(c) ==
  /\ pc[c] = "wait"
  /\ \/ ch[c].resp # 0 /\ Return(c, "response", ch[c].resp)
     \/ ch[c].resp = 0 /\ ch[c].closed /\ Return(c, "connClosed", 0)
  /\ UNCHANGED <<connVars, nextID, id, ch, reqs, ctx, wire, inbox, reader, got,
                 closer, panicked>>

-----------------------------------------------------------------------------
(***************************************************************************)
(* readLoop                                                                *)
(***************************************************************************)

(* Scan fails: either end closed (a reset may discard what was still       *)
(* buffered), or a frame larger than maxFrameSize.                         *)
ScanStops ==
  /\ reader = "scan"
  /\ ~connOpen \/ ~peerUp \/ "tooLong" \in Faults
  /\ reader' = "drain"
  /\ UNCHANGED <<connVars, callVars, reqs, ch, ctx, wire, inbox, got, closer,
                 panicked>>

OwnerInOrder(e) ==
  LET waiting == {i \in IDs : reqs[i] # NoCall}
  IN IF e = Event \/ waiting = {} THEN NoCall
     ELSE reqs[CHOOSE i \in waiting : \A k \in waiting : i <= k]

(* reqs[env.GetRequestId()]; only responses have a request to match.       *)
Owner(e) == IF e = Event THEN NoCall ELSE reqs[e]

ScanEnvelopeKeepsEntry(e) ==
  /\ reader = "scan" /\ e \in inbox /\ connOpen
  /\ inbox' = inbox \ {e}
  /\ \/ closed /\ reader' = "drain" /\ UNCHANGED <<reqs, got>>
     \/ /\ ~closed
        /\ Owner(e) = NoCall
        /\ UNCHANGED <<reader, reqs, got>>
     \/ /\ ~closed /\ Owner(e) # NoCall
        /\ reader' = "deliver"
        /\ got' = [id |-> e, call |-> Owner(e)]
        /\ UNCHANGED reqs
  /\ UNCHANGED <<connVars, callVars, ch, ctx, wire, closer, panicked>>

(* One scanned line.  The loop stops if the client was closed meanwhile;   *)
(* an event, a line that does not parse or an unknown ID is skipped; a     *)
(* known ID is removed from reqs under mu and its channel kept.            *)
ScanEnvelope(e) ==
  /\ reader = "scan" /\ e \in inbox /\ connOpen
  /\ inbox' = inbox \ {e}
  /\ \/ closed /\ reader' = "drain" /\ UNCHANGED <<reqs, got>>
     \/ /\ ~closed
        /\ Owner(e) = NoCall
        /\ UNCHANGED <<reader, reqs, got>>
     \/ /\ ~closed /\ Owner(e) # NoCall
        /\ reader' = "deliver"
        /\ got' = [id |-> e, call |-> Owner(e)]
        /\ reqs' = [reqs EXCEPT ![e] = NoCall]
  /\ UNCHANGED <<connVars, callVars, ch, ctx, wire, closer, panicked>>

(* ch <- resp; close(ch), outside mu.                                      *)
Deliver ==
  /\ reader = "deliver"
  /\ ch' = [ch EXCEPT ![got.call] = [resp |-> got.id, closed |-> TRUE]]
  /\ panicked' = (panicked \/ ch[got.call].closed)
  /\ reader' = "scan" /\ got' = NoGot
  /\ UNCHANGED <<connVars, callVars, reqs, ctx, wire, inbox, closer>>

DrainNothing ==
  /\ reader = "drain"
  /\ reqs' = [i \in IDs |-> NoCall]
  /\ reader' = "closeConn"
  /\ UNCHANGED <<connVars, callVars, ch, ctx, wire, inbox, got, closer,
                 panicked>>

(* drainReqs, under mu: close every registered channel and forget it.      *)
drainReqs ==
  /\ reader = "drain"
  /\ LET drained == {c \in Calls : \E i \in IDs : reqs[i] = c}
     IN /\ ch' = [c \in Calls |->
                    IF c \in drained THEN [ch[c] EXCEPT !.closed = TRUE]
                                     ELSE ch[c]]
        /\ panicked' = (panicked \/ \E c \in drained : ch[c].closed)
  /\ reqs' = [i \in IDs |-> NoCall]
  /\ reader' = "closeConn"
  /\ UNCHANGED <<connVars, callVars, ctx, wire, inbox, got, closer>>

(* The deferred conn.Close and wg.Done.                                    *)
ReaderCloseConn ==
  /\ reader = "closeConn"
  /\ connOpen' = FALSE /\ reader' = "done"
  /\ UNCHANGED <<closed, peerUp, callVars, reqs, ch, ctx, wire, inbox, got,
                 closer, panicked>>

-----------------------------------------------------------------------------
(***************************************************************************)
(* Close                                                                   *)
(***************************************************************************)

(* The compare-and-swap of closed; a second Close returns at once.         *)
CloseFlag ==
  /\ "close" \in Faults /\ closer = "idle"
  /\ closed' = TRUE /\ closer' = "closeConn"
  /\ UNCHANGED <<connOpen, peerUp, callVars, reqs, ch, ctx, wire, inbox,
                 reader, got, panicked>>

CloseKeepsConn ==
  /\ closer = "closeConn"
  /\ closer' = "wait"
  /\ UNCHANGED <<connVars, callVars, reqs, ch, ctx, wire, inbox, reader, got,
                 panicked>>

CloseConn ==
  /\ closer = "closeConn"
  /\ connOpen' = FALSE /\ closer' = "wait"
  /\ UNCHANGED <<closed, peerUp, callVars, reqs, ch, ctx, wire, inbox, reader,
                 got, panicked>>

(* wg.Wait returns once readLoop is done.                                  *)
CloseReturns ==
  /\ closer = "wait" /\ reader = "done"
  /\ closer' = "done"
  /\ UNCHANGED <<connVars, callVars, reqs, ch, ctx, wire, inbox, reader, got,
                 panicked>>

-----------------------------------------------------------------------------
(***************************************************************************)
(* Environment: contexts and the daemon (external)                         *)
(***************************************************************************)

CancelCtx(c) ==
  /\ "cancel" \in Faults /\ c \notin ctx /\ pc[c] # "done"
  /\ ctx' = ctx \cup {c}
  /\ UNCHANGED <<connVars, callVars, reqs, ch, wire, inbox, reader, got,
                 closer, panicked>>

PeerAnswers(i) ==
  /\ peerUp /\ i \in wire
  /\ wire' = wire \ {i} /\ inbox' = inbox \cup {i}
  /\ UNCHANGED <<connVars, callVars, reqs, ch, ctx, reader, got, closer,
                 panicked>>

PeerPushes ==
  /\ peerUp /\ Event \notin inbox
  /\ inbox' = inbox \cup {Event}
  /\ UNCHANGED <<connVars, callVars, reqs, ch, ctx, wire, reader, got, closer,
                 panicked>>

PeerGoesDown ==
  /\ "peerDown" \in Faults /\ peerUp
  /\ peerUp' = FALSE /\ wire' = {}
  /\ UNCHANGED <<closed, connOpen, callVars, reqs, ch, ctx, inbox, reader, got,
                 closer, panicked>>

-----------------------------------------------------------------------------
CallStep(c) ==
  \/ CallEnter(c) \/ Register(c) \/ Recheck(c) \/ Write(c)
  \/ CtxDone(c) \/ Receive(c)

ReaderStep ==
  \/ ScanStops \/ Deliver \/ drainReqs \/ ReaderCloseConn
  \/ \E e \in IDs \cup {Event} : ScanEnvelope(e)

(* Every Call has returned and no goroutine of the client has work left.   *)
Finished ==
  /\ \A c \in Calls : pc[c] = "done"
  /\ closer \in {"idle", "done"}
  /\ UNCHANGED vars

Next ==
  \/ \E c \in Calls : CallStep(c) \/ CancelCtx(c)
  \/ ReaderStep
  \/ CloseFlag \/ CloseConn \/ CloseReturns
  \/ \E i \in IDs : PeerAnswers(i)
  \/ PeerPushes \/ PeerGoesDown
  \/ Finished

(* The Go scheduler runs every runnable goroutine; the daemon, while up,   *)
(* answers what it has read (one goroutine per request).  Nothing obliges  *)
(* a context to be cancelled, a client to be closed or a peer to go.  The  *)
(* reader sees each buffered envelope: frames arrive in a byte stream.     *)
Fairness ==
  /\ \A c \in Calls : WF_vars(CallStep(c))
  /\ \A e \in IDs \cup {Event} : SF_vars(ScanEnvelope(e))
  /\ WF_vars(ScanStops /\ ~(connOpen /\ peerUp))
  /\ WF_vars(Deliver) /\ WF_vars(drainReqs) /\ WF_vars(ReaderCloseConn)
  /\ WF_vars(CloseConn) /\ WF_vars(CloseReturns)
  /\ \A i \in IDs : WF_vars(PeerAnswers(i))

Spec == Init /\ [][Next]_vars
FairSpec == Spec /\ Fairness

-----------------------------------------------------------------------------
(***************************************************************************)
(* Properties                                                              *)
(***************************************************************************)

(* A Call returns only the response to its own request, whatever the order *)
(* in which the daemon answers (Call, readLoop: correlation by ID).        *)
OwnResponse ==
  \A c \in Calls : result[c].kind = "response" => result[c].of = id[c]

(* No channel is closed twice or written after close, with deliveries,     *)
(* cancellations and drainReqs in any order: readLoop never panics.        *)
NoPanic == ~panicked

(* A Call that has returned left nothing behind in reqs: neither an early  *)
(* return, a failed write nor a cancellation leaks its channel.            *)
NoLeakedRequest ==
  \A c \in Calls : pc[c] = "done" => \A i \in IDs : reqs[i] # c

(* The inductive invariant behind the three above.  IDs are handed out     *)
(* once; a registered channel belongs to the Call with that ID, which has  *)
(* not returned, and is still open and empty; the channel readLoop holds   *)
(* is no longer registered; a buffered response is the Call's own.         *)
HeldChannel ==
  /\ reader # "deliver" => got = NoGot
  /\ reader = "deliver" =>
       /\ got.call \in Calls /\ got.id \in IDs
       /\ got.id = id[got.call]
       /\ ch[got.call] = [resp |-> 0, closed |-> FALSE]
       /\ \A i \in IDs : reqs[i] # got.call

IDsUnique ==
  /\ \A c \in Calls : id[c] < nextID
  /\ \A c \in Calls : pc[c] \in {"idle", "register"} => id[c] = 0
  /\ \A c \in Calls : pc[c] \in {"recheck", "write", "wait"} => id[c] # 0
  /\ \A c, d \in Calls : id[c] = id[d] /\ id[c] # 0 => c = d

ChannelState ==
  /\ \A c \in Calls : id[c] = 0 => ch[c] = [resp |-> 0, closed |-> FALSE]
  /\ \A c \in Calls : ch[c].resp # 0 => ch[c].resp = id[c]

Registered ==
  \A i \in IDs : reqs[i] # NoCall =>
    /\ id[reqs[i]] = i
    /\ pc[reqs[i]] \in {"recheck", "write", "wait"}
    /\ ch[reqs[i]] = [resp |-> 0, closed |-> FALSE]

Unreturned == \A c \in Calls : pc[c] # "done" => result[c] = NoResult

ClientInv ==
  /\ TypeOK
  /\ HeldChannel /\ IDsUnique /\ ChannelState /\ Registered /\ Unreturned
  /\ OwnResponse /\ NoPanic

(* Every Call returns.  (client.go: "On connection close, drainReqs        *)
(* unblocks all outstanding callers.")                                     *)
EveryCallReturns == \A c \in Calls : (pc[c] # "idle") ~> (pc[c] = "done")

(* A Call that is registered when readLoop has yet to drain returns: by    *)
(* its response, by drainReqs, by a write error or by its context,         *)
(* whoever ends the connection and however the frames end.                 *)
OutstandingReturn ==
  \A c \in Calls :
    (pc[c] \in {"recheck", "write", "wait"} /\ reader \in {"scan", "deliver", "drain"})
      ~> (pc[c] = "done")

(* Close returns: wg.Wait never waits for a readLoop that cannot end.      *)
CloseTerminates == (closer = "closeConn") ~> (closer = "done")

=============================================================================
