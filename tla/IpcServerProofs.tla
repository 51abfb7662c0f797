-------------------------- MODULE IpcServerProofs --------------------------
(***************************************************************************)
(* What the server never does to the bytes of a connection and after Stop, *)
(* who can still hold Stop up, what a writer waits for, and that no frame  *)
(* comes twice: for any clients, requests, broadcasts and sizes.           *)
(***************************************************************************)
EXTENDS IpcServer, FiniteSetTheorems, TLAPS

\* Only the goroutine of a request runs a handler or answers, and the frame
\* it belongs to has been scanned.
Owners ==
  \A g \in Goroutines :
    /\ pc[g] \in {"handler", "respond"} => g \in Requests
    /\ g \in Requests /\ pc[g] # "idle" => g[2] <= scanned[g[1]]

\* Who holds connWriter.mu writes to that connection.
Holders ==
  \A c \in Conns : lock[c] # NoOne => Writing(lock[c]) /\ Target(lock[c]) = c

\* What was accepted is open or was, and does not open again.
Opened ==
  \A c \in Conns :
    /\ client[c] = "out" => sock[c] = "none"
    /\ wire[c] # << >> \/ c \in tracked \/ acceptor = c \/ handler[c] = "scan" =>
         sock[c] \in {"open", "closed"} /\ client[c] # "out"

\* A frame that is not complete is its writer's, who holds the lock, or will
\* never be completed.
Unfinished ==
  \A c \in Conns : wire[c] # << >> /\ Last(wire[c]).part = 1 =>
    \/ ~Connected(c)
    \/ Last(wire[c]).by = lock[c] /\ Last(wire[c]).kind = Kind(lock[c])

\* An open socket is in serve's hands or in those of a handleConn.
Attended ==
  /\ \A c \in Conns : sock[c] = "open" => acceptor = c \/ handler[c] = "scan"
  /\ stop \in {"new", "stopped"} => acceptor = "returned"
  /\ stop = "stopped" => \A c \in Conns : handler[c] \in {"none", "done"}

ServerInv ==
  TypeOK /\ Owners /\ Holders /\ Opened /\ FramesWhole /\ Unfinished /\ Attended

-----------------------------------------------------------------------------
(***************************************************************************)
(* Goroutines and targets of writes.                                       *)
(***************************************************************************)
LEMMA RequestShape ==
  /\ \A g \in Requests : g[1] \in Conns /\ g[2] \in 1 .. MaxFrames[g[1]]
                         /\ g = <<g[1], g[2]>> /\ g \notin Pushers
  /\ \A c \in Conns, n \in Nat : n \in 1 .. MaxFrames[c] => <<c, n>> \in Requests
  /\ Requests \subseteq Goroutines /\ NoOne \notin Goroutines
BY BoundsAssumption, GoroutinesAssumption DEF Requests, Goroutines

LEMMA TargetConn ==
  ASSUME TypeOK, Owners, NEW g \in Goroutines, Writing(g)
  PROVE  /\ Target(g) \in Conns /\ Kind(g) \in {"event", "response"}
         /\ pc[g] = "broadcast" => Tail(todo[g]) \in Seq(Conns)
<1>1. CASE pc[g] = "respond"
  BY <1>1, RequestShape DEF Owners, Target, Kind
<1>2. CASE pc[g] = "broadcast" /\ todo[g] # << >>
  <2>1. todo[g] \in Seq(Conns)
    BY DEF TypeOK
  <2>. QED BY <1>2, <2>1 DEF Target, Kind
<1>. QED BY <1>1, <1>2 DEF Writing

LEMMA LastChunk ==
  ASSUME TypeOK, NEW c \in Conns, wire[c] # << >>
  PROVE  Last(wire[c]) \in Chunk /\ Last(wire[c]) = wire[c][Len(wire[c])]
BY DEF TypeOK, Last

(* Who writes the frame that is not complete on a live connection.         *)
LEMMA UnfinishedByHolder ==
  ASSUME TypeOK, Holders, Unfinished, NEW c \in Conns,
         wire[c] # << >>, Last(wire[c]).part = 1, Connected(c)
  PROVE  /\ lock[c] \in Goroutines /\ Writing(lock[c]) /\ Target(lock[c]) = c
         /\ Last(wire[c]) = [by |-> lock[c], kind |-> Kind(lock[c]), part |-> 1]
BY LastChunk, RequestShape DEF Holders, Unfinished, Chunk

(* What no goroutine writes to stays as it is: nobody writes, and the      *)
(* connections that cannot be written to will never be.                    *)
LEMMA NobodyWrites ==
  ASSUME ServerInv, UNCHANGED <<wire, lock, pc, todo>>,
         \A c \in Conns : wire[c] # << >> /\ ~Connected(c) => ~Connected(c)'
  PROVE  Holders' /\ FramesWhole' /\ Unfinished'
<1>1. \A g : Writing(g)' = Writing(g) /\ Target(g)' = Target(g) /\ Kind(g)' = Kind(g)
  BY DEF Writing, Target, Kind
<1>2. Holders'
  BY <1>1 DEF ServerInv, Holders
<1>3. FramesWhole'
  BY DEF ServerInv, FramesWhole, Whole
<1>4. Unfinished'
  BY <1>1 DEF ServerInv, Unfinished
<1>. QED BY <1>2, <1>3, <1>4

LEMMA OwnersStay ==
  ASSUME ServerInv, UNCHANGED <<pc, scanned>>
  PROVE  Owners'
BY DEF ServerInv, Owners

-----------------------------------------------------------------------------
(***************************************************************************)
(* The clients.                                                            *)
(***************************************************************************)
LEMMA ConnectStep ==
  ASSUME ServerInv, NEW c \in Conns, Connect(c)
  PROVE  ServerInv'
<1>. USE DEF Connect, listenVars, readVars, writeVars
<1>1. TypeOK'
  BY DEF ServerInv, TypeOK
<1>2. Opened' /\ \A d \in Conns : wire[d] # << >> /\ ~Connected(d) => ~Connected(d)'
  BY DEF ServerInv, TypeOK, Opened, Connected
<1>3. Attended'
  BY DEF ServerInv, TypeOK, Attended, Listening
<1>. QED BY <1>1, <1>2, <1>3, NobodyWrites, OwnersStay DEF ServerInv

LEMMA SendStep ==
  ASSUME ServerInv, NEW c \in Conns, NEW n \in 0 .. maxFrameSize, Send(c, n)
  PROVE  ServerInv'
<1>. USE DEF Send, listenVars, connVars, writeVars
<1>1. TypeOK'
  <2>1. sent[c] \in Seq(0 .. maxFrameSize) /\ MaxFrames[c] \in Nat /\ scanned[c] \in Nat
    BY BoundsAssumption DEF ServerInv, TypeOK
  <2>2. /\ sent' \in [Conns -> Seq(0 .. maxFrameSize)]
        /\ Len(sent'[c]) = Len(sent[c]) + 1
        /\ \A d \in Conns : d # c => sent'[d] = sent[d]
    <3>1. sent \in [Conns -> Seq(0 .. maxFrameSize)] /\ sent' = [sent EXCEPT ![c] = Append(@, n)]
      BY DEF ServerInv, TypeOK
    <3>2. Append(sent[c], n) \in Seq(0 .. maxFrameSize) /\ Len(Append(sent[c], n)) = Len(sent[c]) + 1
      BY <2>1
    <3>. HIDE DEF Send
    <3>. QED BY <3>1, <3>2
  <2>3. \A d \in Conns : scanned[d] <= Len(sent'[d]) /\ Len(sent'[d]) <= MaxFrames[d]
    <3>1. \A d \in Conns : scanned[d] <= Len(sent[d]) /\ Len(sent[d]) <= MaxFrames[d]
      BY DEF ServerInv, TypeOK
    <3>2. Len(sent[c]) \in Nat /\ Len(sent[c]) < MaxFrames[c]
      BY <2>1
    <3>. HIDE DEF Send
    <3>3. scanned[c] <= Len(sent'[c]) /\ Len(sent'[c]) <= MaxFrames[c]
      BY <2>1, <2>2, <3>1, <3>2
    <3>. QED BY <2>2, <3>1, <3>3
  <2>4. UNCHANGED <<stop, acceptor, client, sock, tracked, late, handler, scanned, wire, seen,
                    pc, todo, size, lock>>
    OBVIOUS
  <2>. HIDE DEF Send
  <2>. QED BY <2>2, <2>3, <2>4 DEF ServerInv, TypeOK
<1>2. Opened' /\ \A d \in Conns : wire[d] # << >> /\ ~Connected(d) => ~Connected(d)'
  BY DEF ServerInv, Opened, Connected
<1>3. Attended'
  BY DEF ServerInv, Attended
<1>. QED BY <1>1, <1>2, <1>3, NobodyWrites, OwnersStay DEF ServerInv

LEMMA ClientReadsStep ==
  ASSUME ServerInv, NEW c \in Conns, ClientReads(c)
  PROVE  ServerInv'
<1>. USE DEF ClientReads, listenVars, readVars, writeVars
<1>1. TypeOK'
  <2>1. seen[c] \in Nat /\ Len(wire[c]) \in Nat /\ Cap \in Nat
    BY BoundsAssumption DEF ServerInv, TypeOK
  <2>2. /\ seen' \in [Conns -> Nat] /\ seen'[c] = seen[c] + 1
        /\ \A d \in Conns : d # c => seen'[d] = seen[d]
    BY <2>1 DEF ServerInv, TypeOK
  <2>3. client' \in [Conns -> {"out", "in", "left", "broken"}]
    BY DEF ServerInv, TypeOK
  <2>4. \A d \in Conns : seen'[d] <= Len(wire[d]) /\ Len(wire[d]) <= seen'[d] + Cap
    BY <2>1, <2>2 DEF ServerInv, TypeOK
  <2>. QED BY <2>2, <2>3, <2>4 DEF ServerInv, TypeOK
<1>2. Opened' /\ \A d \in Conns : wire[d] # << >> /\ ~Connected(d) => ~Connected(d)'
  BY DEF ServerInv, TypeOK, Opened, Connected
<1>3. Attended'
  BY DEF ServerInv, Attended
<1>. QED BY <1>1, <1>2, <1>3, NobodyWrites, OwnersStay DEF ServerInv

LEMMA HangUpStep ==
  ASSUME ServerInv, NEW c \in Conns, HangUp(c)
  PROVE  ServerInv'
<1>. USE DEF HangUp, listenVars, readVars, writeVars
<1>1. TypeOK'
  BY DEF ServerInv, TypeOK
<1>2. Opened' /\ \A d \in Conns : wire[d] # << >> /\ ~Connected(d) => ~Connected(d)'
  BY DEF ServerInv, TypeOK, Opened, Connected
<1>3. Attended'
  BY DEF ServerInv, Attended
<1>. QED BY <1>1, <1>2, <1>3, NobodyWrites, OwnersStay DEF ServerInv

-----------------------------------------------------------------------------
(***************************************************************************)
(* Start, Stop, serve and handleConn.                                      *)
(***************************************************************************)
(* A step that leaves the goroutines and the frames of clients alone, and  *)
(* closes connections if it does anything to them.                         *)
ServesOnly ==
  /\ UNCHANGED <<client, sent, scanned, writeVars, seen>>
  /\ \A c \in Conns : \/ sock'[c] = sock[c]
                      \/ sock[c] = "backlog"
                      \/ sock[c] = "open" /\ sock'[c] = "closed"

LEMMA ServingStep ==
  ASSUME ServerInv, ServesOnly, TypeOK', Opened', Attended'
  PROVE  ServerInv'
<1>1. \A d \in Conns : wire[d] # << >> /\ ~Connected(d) => ~Connected(d)'
  BY DEF ServerInv, Opened, Connected, ServesOnly
<1>. QED BY <1>1, NobodyWrites, OwnersStay DEF ServerInv, ServesOnly, writeVars

LEMMA StartStopStep ==
  ASSUME ServerInv, Start \/ StopSetsClosing \/ Stopping \/ AcceptFails
  PROVE  ServerInv'
<1>. USE DEF ServesOnly, connVars, readVars, writeVars, ServerInv
<1>1. CASE Start
  <2>. USE <1>1 DEF Start
  <2>1. TypeOK'
    BY DEF TypeOK
  <2>2. Opened' /\ Attended'
    BY ConnsAssumption DEF TypeOK, Opened, Attended
  <2>. QED BY <2>1, <2>2, ServingStep
<1>2. CASE StopSetsClosing
  <2>. USE <1>2 DEF StopSetsClosing
  <2>1. TypeOK'
    BY DEF TypeOK
  <2>2. Opened' /\ Attended'
    BY DEF Opened, Attended
  <2>. QED BY <2>1, <2>2, ServingStep
<1>3. CASE StopClosesListener
  <2>. USE <1>3 DEF StopClosesListener
  <2>1. TypeOK'
    BY DEF TypeOK
  <2>2. Opened'
    BY DEF TypeOK, Opened
  <2>4. Attended'
    BY DEF TypeOK, Attended
  <2>3. ServesOnly
    OBVIOUS
  <2>. QED BY <2>1, <2>2, <2>3, <2>4, ServingStep
<1>4. CASE closeActiveConnections
  <2>. USE <1>4 DEF closeActiveConnections
  <2>1. TypeOK'
    BY DEF TypeOK
  <2>2. Opened' /\ Attended'
    BY DEF TypeOK, Opened, Attended
  <2>3. ServesOnly
    BY DEF Opened
  <2>. QED BY <2>1, <2>2, <2>3, ServingStep
<1>5. CASE StopReturns
  <2>. USE <1>5 DEF StopReturns
  <2>1. TypeOK'
    BY DEF TypeOK
  <2>2. Opened' /\ Attended'
    BY DEF Opened, Attended
  <2>. QED BY <2>1, <2>2, ServingStep
<1>6. CASE AcceptFails
  <2>. USE <1>6 DEF AcceptFails
  <2>1. TypeOK'
    BY DEF TypeOK
  <2>2. Opened' /\ Attended'
    BY ConnsAssumption DEF Opened, Attended
  <2>. QED BY <2>1, <2>2, ServingStep
<1>. QED BY <1>1, <1>2, <1>3, <1>4, <1>5, <1>6 DEF Stopping

LEMMA ServeStep ==
  ASSUME ServerInv, NEW c \in Conns, Accept(c) \/ trackConn(c) \/ untrackConn(c)
  PROVE  ServerInv'
<1>. USE DEF ServesOnly, readVars, writeVars, ServerInv
<1>1. CASE Accept(c)
  <2>. USE <1>1 DEF Accept
  <2>1. TypeOK'
    BY DEF TypeOK
  <2>2. Opened'
    BY ConnsAssumption DEF TypeOK, Opened
  <2>3. Attended'
    BY ConnsAssumption DEF TypeOK, Attended, Listening
  <2>. QED BY <2>1, <2>2, <2>3, ServingStep
<1>2. CASE trackConn(c)
  <2>. USE <1>2 DEF trackConn
  <2>1. TypeOK'
    BY DEF TypeOK
  <2>2. Opened' /\ Attended'
    BY ConnsAssumption DEF TypeOK, Opened, Attended
  <2>. QED BY <2>1, <2>2, ServingStep
<1>3. CASE untrackConn(c)
  <2>. USE <1>3 DEF untrackConn, listenVars
  <2>1. TypeOK'
    BY DEF TypeOK
  <2>2. Opened' /\ Attended'
    BY DEF TypeOK, Opened, Attended
  <2>. QED BY <2>1, <2>2, ServingStep
<1>. QED BY <1>1, <1>2, <1>3

LEMMA ScanEndsStep ==
  ASSUME ServerInv, NEW c \in Conns, ScanEnds(c)
  PROVE  ServerInv'
<1>. USE DEF ServesOnly, ScanEnds, HandlerEnds, readVars, writeVars, listenVars, ServerInv
<1>1. TypeOK'
  BY DEF TypeOK
<1>2. Opened' /\ Attended' /\ ServesOnly
  BY DEF TypeOK, Opened, Attended
<1>. QED BY <1>1, <1>2, ServingStep

LEMMA ScanFrameStep ==
  ASSUME ServerInv, NEW c \in Conns, ScanFrame(c)
  PROVE  ServerInv'
<1>. DEFINE n == scanned[c] + 1
            g == <<c, n>>
<1>1. /\ scanned[c] \in Nat /\ n \in 1 .. MaxFrames[c] /\ n <= Len(sent[c])
      /\ scanned' = [scanned EXCEPT ![c] = n]
  <2>1. scanned[c] \in Nat /\ Len(sent[c]) \in Nat /\ MaxFrames[c] \in Nat
        /\ Len(sent[c]) <= MaxFrames[c]
    BY BoundsAssumption DEF ServerInv, TypeOK
  <2>2. scanned[c] < Len(sent[c]) /\ scanned' = [scanned EXCEPT ![c] = n]
    BY DEF ScanFrame
  <2>. QED BY <2>1, <2>2
<1>2. g \in Requests /\ g \in Goroutines /\ g[1] = c /\ g[2] = n
  BY <1>1, RequestShape
<1>3. pc[g] = "idle"
  BY <1>1, <1>2 DEF ServerInv, TypeOK, Owners
<1>4. CASE pc' = pc
  <2>1. TypeOK'
    <3>1. scanned' \in [Conns -> Nat] /\ \A d \in Conns : scanned'[d] <= Len(sent[d])
      BY <1>1 DEF ServerInv, TypeOK
    <3>. QED BY <3>1, <1>4
         DEF ServerInv, TypeOK, ScanFrame, HandlerEnds, connVars, listenVars
  <2>2. Owners'
    BY <1>1, <1>4, RequestShape DEF ServerInv, TypeOK, Owners
  <2>3. Opened' /\ \A d \in Conns : wire[d] # << >> /\ ~Connected(d) => ~Connected(d)'
    BY DEF ServerInv, TypeOK, Opened, Connected, ScanFrame, HandlerEnds, connVars, listenVars
  <2>4. Attended'
    BY DEF ServerInv, TypeOK, Attended, ScanFrame, HandlerEnds, connVars, listenVars
  <2>. QED BY <1>4, <2>1, <2>2, <2>3, <2>4, NobodyWrites DEF ServerInv, ScanFrame
<1>5. CASE pc' = [pc EXCEPT ![g] = "handler"] /\ UNCHANGED connVars
  <2>. USE DEF ScanFrame, connVars, listenVars
  <2>1. TypeOK'
    <3>1. scanned' \in [Conns -> Nat] /\ \A d \in Conns : scanned'[d] <= Len(sent[d])
      BY <1>1 DEF ServerInv, TypeOK
    <3>2. pc' \in [Goroutines -> {"idle", "handler", "broadcast", "respond", "done"}]
      BY <1>2, <1>5 DEF ServerInv, TypeOK
    <3>. QED BY <3>1, <3>2, <1>5 DEF ServerInv, TypeOK
  <2>2. Owners'
    BY <1>1, <1>2, <1>5, RequestShape DEF ServerInv, TypeOK, Owners
  <2>3. \A h \in Goroutines : Writing(h) =>
          h # g /\ Writing(h)' /\ Target(h)' = Target(h) /\ Kind(h)' = Kind(h)
    BY <1>2, <1>3, <1>5 DEF ServerInv, TypeOK, Writing, Target, Kind
  <2>4. Holders'
    BY <2>3 DEF ServerInv, TypeOK, Holders
  <2>5. FramesWhole' /\ Opened' /\ Attended'
    BY <1>5 DEF ServerInv, FramesWhole, Opened, Attended
  <2>6. Unfinished'
    BY <2>3, <1>5, UnfinishedByHolder DEF ServerInv, Unfinished, Connected
  <2>. QED BY <2>1, <2>2, <2>4, <2>5, <2>6 DEF ServerInv
<1>. QED BY <1>4, <1>5 DEF ScanFrame

-----------------------------------------------------------------------------
(***************************************************************************)
(* The goroutines that write.                                              *)
(***************************************************************************)
OnlyOf(g) == \A h \in Goroutines : h # g => pc'[h] = pc[h] /\ todo'[h] = todo[h]

LEMMA OthersStay ==
  ASSUME NEW g \in Goroutines, OnlyOf(g), NEW h \in Goroutines, h # g
  PROVE  Writing(h)' = Writing(h) /\ Target(h)' = Target(h) /\ Kind(h)' = Kind(h)
BY DEF OnlyOf, Writing, Target, Kind

(* A goroutine that holds no lock and writes nothing.                      *)
LEMMA FreeStep ==
  ASSUME ServerInv, NEW g \in Goroutines, OnlyOf(g), UNCHANGED <<wire, lock>>,
         \A c \in Conns : lock[c] # g,
         UNCHANGED <<listenVars, connVars>>
  PROVE  Holders' /\ FramesWhole' /\ Opened' /\ Attended' /\ Unfinished'
<1>. USE DEF listenVars, connVars
<1>1. Holders'
  BY OthersStay DEF ServerInv, TypeOK, Holders
<1>2. FramesWhole' /\ Opened' /\ Attended'
  BY DEF ServerInv, FramesWhole, Opened, Attended
<1>3. Unfinished'
  BY OthersStay, UnfinishedByHolder DEF ServerInv, Unfinished, Connected
<1>. QED BY <1>1, <1>2, <1>3

LEMMA HoldsNothing ==
  ASSUME ServerInv, NEW g \in Goroutines, ~Writing(g) \/ lock[Target(g)] # g
  PROVE  \A c \in Conns : lock[c] # g
BY RequestShape DEF ServerInv, Holders

LEMMA OrdersAreSequences ==
  ASSUME TypeOK, NEW order \in SetToSeqs(tracked)
  PROVE  order \in Seq(Conns)
<1>1. IsFiniteSet(tracked)
  BY ConnsAssumption, FS_Subset DEF TypeOK
<1>2. Cardinality(tracked) \in Nat
  BY <1>1, FS_CardinalityType
<1>3. order \in [1 .. Cardinality(tracked) -> tracked]
  BY DEF SetToSeqs
<1>4. order \in [1 .. Cardinality(tracked) -> Conns]
  BY <1>3 DEF TypeOK
<1>. QED BY <1>2, <1>4

LEMMA BroadcastEventStep ==
  ASSUME ServerInv, NEW g \in Goroutines, BroadcastEvent(g)
  PROVE  ServerInv'
<1>1. pc' = [pc EXCEPT ![g] = "broadcast"] /\ pc[g] \in {"idle", "handler"}
      /\ (pc[g] = "idle" => g \notin Requests)
  BY RequestShape DEF BroadcastEvent
<1>2. PICK order \in SetToSeqs(tracked) : todo' = [todo EXCEPT ![g] = order]
  BY DEF BroadcastEvent
<1>3. order \in Seq(Conns)
  BY OrdersAreSequences DEF ServerInv
<1>4. pc' \in [Goroutines -> {"idle", "handler", "broadcast", "respond", "done"}]
  BY <1>1 DEF ServerInv, TypeOK
<1>5. todo' \in [Goroutines -> Seq(Conns)]
  BY <1>2, <1>3 DEF ServerInv, TypeOK
<1>6. TypeOK'
  BY <1>4, <1>5 DEF ServerInv, TypeOK, BroadcastEvent, listenVars, connVars, readVars
<1>7. Owners'
  BY <1>1 DEF ServerInv, TypeOK, Owners, BroadcastEvent, readVars
<1>8. OnlyOf(g) /\ ~Writing(g)
  BY <1>1, <1>2 DEF ServerInv, TypeOK, OnlyOf, Writing
<1>. QED BY <1>6, <1>7, <1>8, FreeStep, HoldsNothing DEF ServerInv, BroadcastEvent

LEMMA BroadcastReturnsStep ==
  ASSUME ServerInv, NEW g \in Goroutines, BroadcastReturns(g)
  PROVE  ServerInv'
<1>1. \/ g \in Requests /\ pc' = [pc EXCEPT ![g] = "respond"]
         /\ size' = [size EXCEPT ![g] = 1]
      \/ g \notin Requests /\ pc' = [pc EXCEPT ![g] = "done"] /\ size' = size
  BY DEF BroadcastReturns
<1>2. TypeOK'
  <2>1. pc' \in [Goroutines -> {"idle", "handler", "broadcast", "respond", "done"}]
    BY <1>1 DEF ServerInv, TypeOK
  <2>2. size' \in [Requests -> Nat]
    <3>1. size \in [Requests -> Nat]
      BY DEF ServerInv, TypeOK
    <3>. QED BY <1>1, <3>1
  <2>. QED BY <2>1, <2>2
       DEF ServerInv, TypeOK, BroadcastReturns, listenVars, connVars, readVars
<1>3. Owners'
  BY <1>1 DEF ServerInv, TypeOK, Owners, BroadcastReturns, readVars
<1>4. OnlyOf(g) /\ ~Writing(g)
  BY <1>1 DEF ServerInv, TypeOK, OnlyOf, Writing, BroadcastReturns
<1>. QED BY <1>2, <1>3, <1>4, FreeStep, HoldsNothing DEF ServerInv, BroadcastReturns

LEMMA HandlerReturnsStep ==
  ASSUME ServerInv, NEW g \in Requests, HandlerReturns(g)
  PROVE  ServerInv'
<1>1. g \in Goroutines
  BY RequestShape
<1>2. pc[g] = "handler" /\ pc' = [pc EXCEPT ![g] = "respond"]
  BY DEF HandlerReturns
<1>3. \E n \in Nat : size' = [size EXCEPT ![g] = n]
  BY SizesAssumption DEF HandlerReturns
<1>4. TypeOK'
  <2>1. pc' \in [Goroutines -> {"idle", "handler", "broadcast", "respond", "done"}]
    BY <1>2 DEF ServerInv, TypeOK
  <2>2. size' \in [Requests -> Nat]
    BY <1>3 DEF ServerInv, TypeOK
  <2>. QED BY <2>1, <2>2
       DEF ServerInv, TypeOK, HandlerReturns, listenVars, connVars, readVars
<1>5. Owners'
  BY <1>2 DEF ServerInv, TypeOK, Owners, HandlerReturns, readVars
<1>6. OnlyOf(g) /\ ~Writing(g)
  BY <1>1, <1>2 DEF ServerInv, TypeOK, OnlyOf, Writing, HandlerReturns
<1>. QED BY <1>1, <1>4, <1>5, <1>6, FreeStep, HoldsNothing DEF ServerInv, HandlerReturns

(* What follows a write.                                                   *)
LEMMA WrittenStep ==
  ASSUME ServerInv, NEW g \in Goroutines, Writing(g), Written(g), UNCHANGED readVars
  PROVE  /\ OnlyOf(g) /\ Owners'
         /\ pc' \in [Goroutines -> {"idle", "handler", "broadcast", "respond", "done"}]
         /\ todo' \in [Goroutines -> Seq(Conns)]
<1>1. CASE pc[g] = "respond"
  BY <1>1 DEF ServerInv, TypeOK, Owners, Written, OnlyOf, readVars
<1>2. CASE pc[g] # "respond"
  <2>1. Tail(todo[g]) \in Seq(Conns)
    BY <1>2, TargetConn DEF ServerInv, Writing
  <2>. QED BY <1>2, <2>1 DEF ServerInv, TypeOK, Owners, Written, OnlyOf, readVars
<1>. QED BY <1>1, <1>2

LEMMA WriteEnvStep ==
  ASSUME ServerInv, NEW g \in Goroutines, writeEnv(g)
  PROVE  ServerInv'
<1>1. /\ Writing(g) /\ lock[Target(g)] = NoOne /\ Target(g) \in Conns
      /\ UNCHANGED <<listenVars, connVars, readVars, size, wire, seen>>
  BY TargetConn DEF writeEnv, ServerInv
<1>2. \A c \in Conns : lock[c] # g
  BY <1>1, HoldsNothing, RequestShape
<1>3. CASE Written(g) /\ UNCHANGED lock
  <2>1. TypeOK'
    BY <1>1, <1>3, WrittenStep DEF ServerInv, TypeOK, listenVars, connVars, readVars
  <2>. QED BY <1>1, <1>2, <1>3, <2>1, WrittenStep, FreeStep DEF ServerInv
<1>4. CASE lock' = [lock EXCEPT ![Target(g)] = g] /\ UNCHANGED <<pc, todo>>
  <2>. USE DEF listenVars, connVars, readVars
  <2>1. TypeOK'
    BY <1>1, <1>4 DEF ServerInv, TypeOK
  <2>2. \A h : Writing(h)' = Writing(h) /\ Target(h)' = Target(h) /\ Kind(h)' = Kind(h)
    BY <1>4 DEF Writing, Target, Kind
  <2>3. Holders'
    BY <1>1, <1>4, <2>2 DEF ServerInv, TypeOK, Holders
  <2>4. FramesWhole' /\ Opened' /\ Attended' /\ Owners'
    BY <1>1, <1>4 DEF ServerInv, FramesWhole, Opened, Attended, Owners
  <2>5. Unfinished'
    BY <1>1, <1>4, <2>2, UnfinishedByHolder, RequestShape
    DEF ServerInv, TypeOK, Unfinished, Connected
  <2>. QED BY <2>1, <2>3, <2>4, <2>5 DEF ServerInv
<1>. QED BY <1>3, <1>4 DEF writeEnv

LEMMA WriteFailsStep ==
  ASSUME ServerInv, NEW g \in Goroutines, WriteFails(g)
  PROVE  ServerInv'
<1>. DEFINE c == Target(g)
<1>1. /\ Writing(g) /\ c \in Conns /\ lock[c] = g /\ ~Connected(c) /\ Written(g)
      /\ lock' = [lock EXCEPT ![c] = NoOne]
      /\ UNCHANGED <<listenVars, connVars, readVars, size, wire, seen>>
  BY TargetConn DEF WriteFails, ServerInv
<1>2. \A d \in Conns : lock'[d] # g /\ (d # c => lock'[d] = lock[d]) /\ lock'[c] = NoOne
  BY <1>1, RequestShape DEF ServerInv, TypeOK, Holders
<1>. HIDE DEF c
<1>. USE DEF listenVars, connVars, readVars
<1>3. TypeOK'
  BY <1>1, WrittenStep DEF ServerInv, TypeOK
<1>4. Holders'
  BY <1>1, <1>2, WrittenStep, OthersStay DEF ServerInv, TypeOK, Holders
<1>5. FramesWhole' /\ Opened' /\ Attended'
  BY <1>1 DEF ServerInv, FramesWhole, Opened, Attended
<1>6. Unfinished'
  BY <1>1, <1>2, WrittenStep, OthersStay, UnfinishedByHolder
  DEF ServerInv, Unfinished, Connected
<1>. QED BY <1>1, <1>3, <1>4, <1>5, <1>6, WrittenStep DEF ServerInv

(* A chunk appended to frames that are whole up to the last, the second    *)
(* part of the one that is not complete or the first part of a new one.    *)
LEMMA AppendedChunk ==
  ASSUME NEW w \in Seq(Chunk), NEW k \in Chunk, Whole(w),
         k.part = 2 => w # << >> /\ w[Len(w)] = [k EXCEPT !.part = 1],
         k.part = 1 => w = << >> \/ w[Len(w)].part # 1
  PROVE  Whole(Append(w, k))
<1>. DEFINE u == Append(w, k)
            n == Len(w)
<1>1. n \in Nat /\ Len(u) = n + 1 /\ u[n + 1] = k /\ \A i \in 1 .. n : u[i] = w[i]
  OBVIOUS
<1>2. w = << >> <=> n = 0
  OBVIOUS
<1>3. \A i \in 1 .. n : w[i] \in Chunk
  OBVIOUS
<1>. HIDE DEF u, n
<1>. SUFFICES ASSUME NEW i \in 1 .. n + 1
              PROVE /\ u[i].part = 2 => i > 1 /\ u[i - 1] = [u[i] EXCEPT !.part = 1]
                    /\ u[i].part = 1 /\ i < n + 1 => u[i + 1] = [u[i] EXCEPT !.part = 2]
  BY <1>1 DEF u, Whole
<1>4. CASE i = n + 1
  BY <1>1, <1>2, <1>4 DEF n
<1>5. CASE i = n
  <2>1. w[n].part = 1 => k = [w[n] EXCEPT !.part = 2]
    BY <1>1, <1>2, <1>3, <1>5 DEF Chunk, n
  <2>2. u[i] = w[i] /\ u[i + 1] = k /\ (i > 1 => u[i - 1] = w[i - 1])
    BY <1>1, <1>5
  <2>3. w[i].part = 2 => i > 1 /\ w[i - 1] = [w[i] EXCEPT !.part = 1]
    <3>1. i \in 1 .. Len(w)
      BY <1>1, <1>5 DEF n
    <3>. QED BY <3>1 DEF Whole
  <2>. QED BY <1>5, <2>1, <2>2, <2>3
<1>6. CASE i < n
  <2>1. u[i] = w[i] /\ u[i + 1] = w[i + 1] /\ (i > 1 => u[i - 1] = w[i - 1])
    BY <1>1, <1>6
  <2>2. /\ w[i].part = 2 => i > 1 /\ w[i - 1] = [w[i] EXCEPT !.part = 1]
        /\ w[i].part = 1 => w[i + 1] = [w[i] EXCEPT !.part = 2]
    BY <1>1, <1>6 DEF Whole, n
  <2>. QED BY <2>1, <2>2
<1>. QED BY <1>1, <1>4, <1>5, <1>6

LEMMA WriteChunkStep ==
  ASSUME ServerInv, NEW g \in Goroutines, WriteChunk(g)
  PROVE  ServerInv'
<1>. DEFINE c == Target(g)
            p == NextPart(g, c)
            k == [by |-> g, kind |-> Kind(g), part |-> p]
<1>1. /\ Writing(g) /\ c \in Conns /\ lock[c] = g /\ Connected(c)
      /\ Len(wire[c]) - seen[c] < Cap /\ wire' = [wire EXCEPT ![c] = Append(@, k)]
      /\ p = 1 => UNCHANGED <<lock, pc, todo>>
      /\ p = 2 => lock' = [lock EXCEPT ![c] = NoOne] /\ Written(g)
      /\ UNCHANGED <<listenVars, connVars, readVars, size, seen>>
  BY TargetConn DEF WriteChunk, ServerInv, NextPart
<1>2. wire[c] \in Seq(Chunk) /\ k \in Chunk /\ p \in 1 .. 2
  <2>1. wire[c] \in Seq(Chunk)
    BY <1>1 DEF ServerInv, TypeOK
  <2>2. p \in 1 .. 2 /\ Kind(g) \in {"event", "response"}
    BY <1>1, TargetConn DEF ServerInv, NextPart
  <2>. QED BY <2>1, <2>2 DEF Chunk
<1>3. /\ p = 2 => wire[c] # << >> /\ wire[c][Len(wire[c])] = [k EXCEPT !.part = 1]
      /\ p = 1 => wire[c] = << >> \/ wire[c][Len(wire[c])].part # 1
  BY <1>1, UnfinishedByHolder, LastChunk DEF ServerInv, NextPart
<1>4. /\ wire'[c] = Append(wire[c], k) /\ wire' \in [Conns -> Seq(Chunk)]
      /\ \A d \in Conns : d # c => wire'[d] = wire[d]
  BY <1>1, <1>2 DEF ServerInv, TypeOK
<1>5. Last(wire'[c]) = k /\ wire'[c] # << >> /\ Len(wire'[c]) = Len(wire[c]) + 1
  <2>1. ASSUME NEW w \in Seq(Chunk), NEW x \in Chunk
        PROVE  Last(Append(w, x)) = x /\ Append(w, x) # << >>
               /\ Len(Append(w, x)) = Len(w) + 1
    BY DEF Last
  <2>. QED BY <1>2, <1>4, <2>1
<1>6. /\ OnlyOf(g) /\ Owners'
      /\ pc' \in [Goroutines -> {"idle", "handler", "broadcast", "respond", "done"}]
      /\ todo' \in [Goroutines -> Seq(Conns)]
  <2>1. CASE p = 1
    BY <1>1, <2>1 DEF ServerInv, TypeOK, OnlyOf, Owners, readVars
  <2>2. CASE p = 2
    BY <1>1, <2>2, WrittenStep
  <2>. QED BY <1>2, <2>1, <2>2
<1>7. /\ \A d \in Conns : d # c => lock'[d] = lock[d] /\ lock[d] # g
      /\ p = 1 => lock'[c] = g /\ Writing(g)' = Writing(g) /\ Target(g)' = Target(g)
                  /\ Kind(g)' = Kind(g)
      /\ p = 2 => lock'[c] = NoOne
      /\ lock' \in [Conns -> Goroutines \cup {NoOne}]
  <2>1. \A d \in Conns : d # c => lock[d] # g
    BY RequestShape DEF ServerInv, Holders
  <2>2. lock \in [Conns -> Goroutines \cup {NoOne}]
    BY DEF ServerInv, TypeOK
  <2>3. CASE p = 1
    <3>1. UNCHANGED <<lock, pc, todo>>
      BY <1>1, <2>3
    <3>2. Writing(g)' = Writing(g) /\ Target(g)' = Target(g) /\ Kind(g)' = Kind(g)
      BY <3>1 DEF Writing, Target, Kind
    <3>. QED BY <1>1, <2>1, <2>2, <2>3, <3>1, <3>2
  <2>4. CASE p = 2
    <3>. HIDE DEF p, c
    <3>. QED BY <1>1, <2>1, <2>2, <2>4
  <2>. QED BY <1>2, <2>3, <2>4
<1>. HIDE DEF p
<1>8. FramesWhole'
  <2>1. Whole(wire[c]) /\ k.part = p
    BY <1>1 DEF ServerInv, FramesWhole
  <2>2. Whole(wire'[c])
    BY <1>2, <1>3, <1>4, <2>1, AppendedChunk
  <2>. QED BY <1>4, <2>2 DEF ServerInv, FramesWhole
<1>. HIDE DEF c
<1>. USE DEF listenVars, connVars, readVars
<1>9. TypeOK'
  <2>1. \A d \in Conns : seen[d] <= Len(wire'[d]) /\ Len(wire'[d]) <= seen[d] + Cap
    <3>1. seen[c] \in Nat /\ Len(wire[c]) \in Nat /\ Cap \in Nat
          /\ seen[c] <= Len(wire[c])
      BY <1>1, BoundsAssumption DEF ServerInv, TypeOK
    <3>2. seen[c] <= Len(wire'[c]) /\ Len(wire'[c]) <= seen[c] + Cap
      BY <1>1, <1>5, <3>1
    <3>. QED BY <1>4, <3>2 DEF ServerInv, TypeOK
  <2>. QED BY <1>1, <1>4, <1>6, <1>7, <2>1 DEF ServerInv, TypeOK
<1>10. Holders'
  <2>. SUFFICES ASSUME NEW d \in Conns, NEW h, h = lock'[d], h # NoOne
                PROVE  Writing(h)' /\ Target(h)' = d
    BY DEF Holders
  <2>1. CASE d = c
    <3>1. Target(g) = c
      BY DEF c
    <3>2. p = 1 /\ h = g
      BY <1>2, <1>7, <2>1
    <3>3. Writing(g)' /\ Target(g)' = Target(g)
      BY <1>1, <1>7, <3>2
    <3>. QED BY <2>1, <3>1, <3>2, <3>3
  <2>2. CASE d # c
    <3>1. lock[d] = h /\ h # g /\ h \in Goroutines
      BY <1>7, <2>2 DEF ServerInv, TypeOK
    <3>2. Writing(h) /\ Target(h) = d
      BY <3>1 DEF ServerInv, Holders
    <3>. QED BY <1>6, <3>1, <3>2, OthersStay
  <2>. QED BY <2>1, <2>2
<1>11. Opened' /\ Attended'
  BY <1>1, <1>4 DEF ServerInv, TypeOK, Opened, Attended, Connected
<1>12. Unfinished'
  <2>1. CASE p = 1
    BY <1>1, <1>4, <1>5, <1>6, <1>7, <2>1, OthersStay, UnfinishedByHolder
    DEF ServerInv, Unfinished, Connected
  <2>2. CASE p = 2
    BY <1>1, <1>4, <1>5, <1>6, <1>7, <2>2, OthersStay, UnfinishedByHolder
    DEF ServerInv, Unfinished, Connected
  <2>. QED BY <1>2, <2>1, <2>2
<1>. QED BY <1>6, <1>8, <1>9, <1>10, <1>11, <1>12 DEF ServerInv

-----------------------------------------------------------------------------
(***************************************************************************)
(* The theorems.                                                           *)
(***************************************************************************)
LEMMA InitServerInv == Init => ServerInv
<1>. SUFFICES ASSUME Init PROVE ServerInv
  OBVIOUS
<1>. USE DEF Init
<1>1. TypeOK
  BY BoundsAssumption, SizesAssumption DEF TypeOK
<1>2. Owners
  BY RequestShape DEF Owners
<1>3. FramesWhole
  BY DEF FramesWhole, Whole
<1>4. Opened /\ Attended
  BY ConnsAssumption DEF Opened, Attended
<1>5. Holders /\ Unfinished
  BY DEF Holders, Unfinished
<1>. QED BY <1>1, <1>2, <1>3, <1>4, <1>5 DEF ServerInv

LEMMA ServerInvStays == ServerInv /\ [Next]_vars => ServerInv'
<1>. SUFFICES ASSUME ServerInv, [Next]_vars PROVE ServerInv'
  OBVIOUS
<1>1. CASE Start \/ StopSetsClosing \/ Stopping \/ AcceptFails
  BY <1>1, StartStopStep
<1>2. ASSUME NEW c \in Conns, Serving(c) \/ ClientReads(c) PROVE ServerInv'
  BY <1>2, ServeStep, ScanFrameStep, ScanEndsStep, ClientReadsStep DEF Serving
<1>3. ASSUME NEW g \in Goroutines, Running(g) PROVE ServerInv'
  BY <1>3, BroadcastReturnsStep, WriteEnvStep, WriteChunkStep, WriteFailsStep DEF Running
<1>4. ASSUME NEW g \in Requests, HandlerReturns(g) PROVE ServerInv'
  BY <1>4, HandlerReturnsStep
<1>5. ASSUME NEW c \in Conns, Connect(c) \/ HangUp(c) \/ \E n \in 0 .. maxFrameSize : Send(c, n)
      PROVE ServerInv'
  BY <1>5, ConnectStep, HangUpStep, SendStep
<1>6. ASSUME NEW g \in Goroutines, BroadcastEvent(g) PROVE ServerInv'
  BY <1>6, BroadcastEventStep
<1>7. CASE UNCHANGED vars
  <2>. USE <1>7 DEF vars, ServerInv
  <2>1. TypeOK' /\ Opened' /\ Attended'
    BY DEF TypeOK, Opened, Attended
  <2>. QED BY <2>1, NobodyWrites, OwnersStay DEF Connected
<1>. QED BY <1>1, <1>2, <1>3, <1>4, <1>5, <1>6, <1>7 DEF Next, System

\* The inductive invariant of the server: what goroutines, connWriter's locks,
\* sockets and frames have to do with each other (server.go).
THEOREM ServerCorrect == Spec => []ServerInv
BY InitServerInv, ServerInvStays, PTL DEF Spec

\* The frames of concurrent responses and broadcasts never mix on a connection
\* (connWriter.mu in server.go).
THEOREM FramesWholeAlways == Spec => []FramesWhole
<1>1. ServerInv => FramesWhole
  BY DEF ServerInv
<1>. QED BY <1>1, ServerCorrect, PTL

LEMMA QuietStep ==
  ASSUME ServerInv, [Next]_vars, stop = "stopped" PROVE wire' = wire
<1>1. ASSUME NEW g \in Goroutines, WriteChunk(g) PROVE FALSE
  <2>1. Target(g) \in Conns /\ sock[Target(g)] = "open"
    BY <1>1, TargetConn DEF WriteChunk, ServerInv, Connected
  <2>. QED BY <2>1, ConnsAssumption DEF ServerInv, Attended
<1>. QED BY <1>1
  DEF Next, System, vars, Start, StopSetsClosing, Stopping, StopClosesListener,
      closeActiveConnections, StopReturns, AcceptFails, Serving, Accept, trackConn,
      ScanFrame, ScanEnds, untrackConn, ClientReads, Running, BroadcastReturns,
      writeEnv, WriteFails, HandlerReturns, Connect, HangUp, Send, BroadcastEvent,
      writeVars

\* Nothing is written after Stop has returned, whatever the requests and the
\* broadcasts it does not wait for still do (Server.Stop).
THEOREM QuietAfterStopAlways == Spec => QuietAfterStop
<1>1. ServerInv /\ [Next]_vars => [stop = "stopped" => wire' = wire]_vars
  BY QuietStep
<1>. QED BY <1>1, ServerCorrect, PTL DEF Spec, QuietAfterStop

-----------------------------------------------------------------------------
(***************************************************************************)
(* What Stop waits for.                                                    *)
(***************************************************************************)
\* Whom closeActiveConnections finds, and whom it misses: the connection serve
\* had in its hands at that moment, and no other.
Tracking ==
  /\ \A c \in Conns :
       /\ handler[c] = "scan" /\ sock[c] = "open" => c \in tracked
       /\ handler[c] \in {"none", "done"} => c \notin tracked
       /\ sock[c] = "backlog" => Listening
       /\ stop \in {"waiting", "stopped"} /\ handler[c] = "scan" /\ sock[c] = "open" =>
            c \in late
  /\ late # {} => stop \in {"waiting", "stopped"} /\ acceptor \notin Conns
  /\ \A c, d \in late : c = d

LEMMA TrackingKept ==
  ASSUME Tracking, UNCHANGED <<stop, acceptor, sock, tracked, handler, late>>
  PROVE  Tracking'
BY DEF Tracking, Listening

LEMMA TrackingStops ==
  ASSUME ServerInv, Tracking, Start \/ StopSetsClosing \/ Stopping \/ AcceptFails
  PROVE  Tracking'
<1>. USE DEF ServerInv, Tracking, Listening, connVars
<1>1. CASE Start
  BY <1>1, ConnsAssumption DEF Start
<1>2. CASE StopSetsClosing
  BY <1>2 DEF StopSetsClosing
<1>3. CASE StopClosesListener
  BY <1>3 DEF StopClosesListener, TypeOK
<1>4. CASE closeActiveConnections
  BY <1>4 DEF closeActiveConnections, TypeOK
<1>5. CASE StopReturns
  BY <1>5 DEF StopReturns
<1>6. CASE AcceptFails
  BY <1>6, ConnsAssumption DEF AcceptFails
<1>. QED BY <1>1, <1>2, <1>3, <1>4, <1>5, <1>6 DEF Stopping

LEMMA TrackingServes ==
  ASSUME ServerInv, Tracking, NEW c \in Conns, Serving(c) \/ Connect(c)
  PROVE  Tracking'
<1>. USE DEF ServerInv, Tracking, Listening, listenVars
<1>1. CASE Accept(c)
  BY <1>1, ConnsAssumption DEF Accept, TypeOK, Opened
<1>2. CASE trackConn(c)
  <2>1. stop # "stopped" /\ late = {} /\ acceptor' = "accept" /\ "accept" \notin Conns
    BY <1>2, ConnsAssumption DEF trackConn, Attended
  <2>. QED BY <1>2, <2>1 DEF trackConn, TypeOK
<1>3. CASE ScanFrame(c) \/ ScanEnds(c)
  BY <1>3 DEF ScanFrame, ScanEnds, HandlerEnds, TypeOK, connVars
<1>4. CASE untrackConn(c)
  BY <1>4 DEF untrackConn, TypeOK
<1>5. CASE Connect(c)
  BY <1>5 DEF Connect, TypeOK
<1>. QED BY <1>1, <1>2, <1>3, <1>4, <1>5 DEF Serving

LEMMA TrackingNext == ServerInv /\ Tracking /\ [Next]_vars => Tracking'
<1>. SUFFICES ASSUME ServerInv, Tracking, [Next]_vars PROVE Tracking'
  OBVIOUS
<1>1. CASE Start \/ StopSetsClosing \/ Stopping \/ AcceptFails
  BY <1>1, TrackingStops
<1>2. ASSUME NEW c \in Conns, Serving(c) \/ Connect(c) PROVE Tracking'
  BY <1>2, TrackingServes
<1>3. ASSUME NEW c \in Conns,
             ClientReads(c) \/ HangUp(c) \/ \E n \in 0 .. maxFrameSize : Send(c, n)
      PROVE  Tracking'
  BY <1>3, TrackingKept DEF ClientReads, HangUp, Send, listenVars, connVars
<1>4. ASSUME NEW g \in Goroutines,
             Running(g) \/ BroadcastEvent(g) \/ HandlerReturns(g)
      PROVE  Tracking'
  BY <1>4, TrackingKept
  DEF Running, BroadcastReturns, writeEnv, WriteChunk, WriteFails, BroadcastEvent,
      HandlerReturns, listenVars, connVars
<1>5. CASE UNCHANGED vars
  BY <1>5, TrackingKept DEF vars
<1>. QED BY <1>1, <1>2, <1>3, <1>4, <1>5, RequestShape DEF Next, System

\* While Stop waits, each handleConn it waits for can end, or its peer is the
\* one client closeActiveConnections came too early for; and once Stop has
\* returned no connection is open, tracked or read.
OnlyLateDelays ==
  /\ stop = "waiting" => \A c \in Conns : handler[c] = "scan" =>
       sock[c] = "closed" \/ client[c] # "in" \/ (c \in late /\ Connected(c))
  /\ \A c, d \in late : c = d
  /\ stop = "stopped" =>
       /\ acceptor = "returned" /\ tracked = {}
       /\ \A c \in Conns : handler[c] \in {"none", "done"} /\ sock[c] # "open"

\* What Stop waits for can only become less: nobody is accepted any more, and
\* no handleConn begins that serve did not have in its hands.
NoNewWork ==
  ~Listening =>
    \A c \in Conns : /\ sock'[c] = "open" => sock[c] = "open"
                     /\ handler'[c] = "scan" => handler[c] = "scan" \/ acceptor = c
                     /\ acceptor' = c => acceptor = c

LEMMA NoNewWorkStep ==
  ASSUME ServerInv, [Next]_vars PROVE NoNewWork
<1>. SUFFICES ASSUME ~Listening PROVE NoNewWork
  BY DEF NoNewWork
<1>. USE DEF NoNewWork, ServerInv, TypeOK
<1>1. CASE Start \/ StopSetsClosing \/ Stopping \/ AcceptFails
  BY <1>1, ConnsAssumption
  DEF Start, StopSetsClosing, Stopping, StopClosesListener, closeActiveConnections,
      StopReturns, AcceptFails, connVars
<1>2. ASSUME NEW c \in Conns, Serving(c) \/ Connect(c) PROVE NoNewWork
  <2>1. CASE trackConn(c)
    BY <2>1, ConnsAssumption DEF trackConn
  <2>2. CASE ScanFrame(c) \/ ScanEnds(c) \/ untrackConn(c)
    BY <2>2 DEF ScanFrame, ScanEnds, HandlerEnds, untrackConn, listenVars, connVars
  <2>. QED BY <1>2, <2>1, <2>2 DEF Serving, Accept, Connect
<1>3. ASSUME NEW c \in Conns,
             ClientReads(c) \/ HangUp(c) \/ \E n \in 0 .. maxFrameSize : Send(c, n)
      PROVE  NoNewWork
  BY <1>3 DEF ClientReads, HangUp, Send, listenVars, connVars
<1>4. ASSUME NEW g \in Goroutines,
             Running(g) \/ BroadcastEvent(g) \/ HandlerReturns(g)
      PROVE  NoNewWork
  BY <1>4
  DEF Running, BroadcastReturns, writeEnv, WriteChunk, WriteFails, BroadcastEvent,
      HandlerReturns, listenVars, connVars
<1>5. CASE UNCHANGED vars
  BY <1>5 DEF vars
<1>. QED BY <1>1, <1>2, <1>3, <1>4, <1>5, RequestShape DEF Next, System

\* Why Stop terminates (Server.Stop): every connection it waits for can end but
\* one accepted too late for closeActiveConnections, of which there is at most
\* one, and nothing is added to what it waits for.
THEOREM OneCanDelayStop == Spec => [](OnlyLateDelays) /\ [][NoNewWork]_vars
<1>1. Init => Tracking
  BY ConnsAssumption DEF Init, Tracking
<1>2. ServerInv /\ Tracking => OnlyLateDelays
  <2>. SUFFICES ASSUME ServerInv, Tracking PROVE OnlyLateDelays
    OBVIOUS
  <2>1. stop = "waiting" => \A c \in Conns : handler[c] = "scan" =>
          sock[c] = "closed" \/ client[c] # "in" \/ (c \in late /\ Connected(c))
    BY DEF ServerInv, Opened, Tracking, Connected
  <2>2. stop = "stopped" =>
          \A c \in Conns : handler[c] \in {"none", "done"} /\ sock[c] # "open"
    BY ConnsAssumption DEF ServerInv, Attended
  <2>3. stop = "stopped" => acceptor = "returned" /\ tracked = {}
    BY <2>2 DEF ServerInv, Attended, Tracking, TypeOK
  <2>. QED BY <2>1, <2>2, <2>3 DEF OnlyLateDelays, Tracking
<1>3. ServerInv /\ [Next]_vars => [NoNewWork]_vars
  BY NoNewWorkStep
<1>. QED BY <1>1, <1>2, <1>3, ServerCorrect, TrackingNext, PTL DEF Spec

-----------------------------------------------------------------------------
(***************************************************************************)
(* What a writer waits for.                                                *)
(***************************************************************************)
WaitsFor(g, h) == Writing(g) /\ lock[Target(g)] = h /\ h # g /\ h # NoOne

\* A writer that finds a connection taken waits for a goroutine that waits for
\* no other: its chunk fits or its write fails, or the buffer is full of what
\* the client has not read.
WaitsAreShort ==
  \A g, h \in Goroutines : WaitsFor(g, h) =>
    /\ Writing(h) /\ Target(h) = Target(g) /\ \A other \in Goroutines : ~WaitsFor(h, other)
    /\ LET c == Target(h)
       IN \/ ~Connected(c) \/ Len(wire[c]) - seen[c] < Cap
          \/ client[c] = "in" /\ seen[c] < Len(wire[c])

\* Nobody waits in a circle for the locks of two connections (connWriter.mu): a
\* broadcast holds one lock at a time, and lets go of it before the next.
THEOREM NoCircularWait == Spec => []WaitsAreShort
<1>1. ServerInv => WaitsAreShort
  <2>. SUFFICES ASSUME ServerInv, NEW g \in Goroutines, NEW h \in Goroutines, WaitsFor(g, h)
                PROVE  /\ Writing(h) /\ Target(h) = Target(g)
                       /\ \A other \in Goroutines : ~WaitsFor(h, other)
                       /\ \/ ~Connected(Target(h))
                          \/ Len(wire[Target(h)]) - seen[Target(h)] < Cap
                          \/ client[Target(h)] = "in" /\ seen[Target(h)] < Len(wire[Target(h)])
    BY DEF WaitsAreShort
  <2>1. Target(g) \in Conns
    BY TargetConn DEF WaitsFor, ServerInv
  <2>2. Writing(h) /\ Target(h) = Target(g) /\ lock[Target(h)] = h
    BY <2>1 DEF WaitsFor, ServerInv, Holders
  <2>3. /\ seen[Target(h)] \in Nat /\ Len(wire[Target(h)]) \in Nat
        /\ Cap \in Nat \ {0} /\ seen[Target(h)] <= Len(wire[Target(h)])
    BY <2>1, <2>2, BoundsAssumption DEF ServerInv, TypeOK
  <2>. QED BY <2>2, <2>3 DEF WaitsFor, Connected
<1>. QED BY <1>1, ServerCorrect, PTL

-----------------------------------------------------------------------------
(***************************************************************************)
(* No frame comes twice.                                                   *)
(***************************************************************************)
Meant(g, c) == pc[g] = "broadcast" /\ \E n \in 1 .. Len(todo[g]) : todo[g][n] = c

\* The frame is not over for its writer.
Due(k, c) == \/ k.kind = "response" /\ pc[k.by] = "respond"
             \/ k.kind = "event" /\ Meant(k.by, c)

\* What is on a connection was written by a goroutine that has got that far; if
\* its frame is not over, that goroutine is writing it: it holds the lock, and
\* its first part is the last chunk.
Origin(k, c) ==
  /\ k.kind = "response" =>
       k.by \in Requests /\ k.by[1] = c /\ pc[k.by] \in {"respond", "done"}
  /\ k.kind = "event" => pc[k.by] \in {"broadcast", "respond", "done"}
  /\ Due(k, c) => lock[c] = k.by /\ k.part = 1 /\ k.kind = Kind(k.by)

Origins ==
  \A c \in Conns : \A i \in 1 .. Len(wire[c]) :
    /\ Origin(wire[c][i], c)
    /\ Due(wire[c][i], c) => i = Len(wire[c])

Once(s) == \A i, j \in 1 .. Len(s) : s[i] = s[j] => i = j

\* No goroutine has a connection twice before it, and no chunk is on a
\* connection twice.
OrdersOnce == \A g \in Goroutines : Once(todo[g])
ChunksOnce == \A c \in Conns : Once(wire[c])

OnceInv == Origins /\ OrdersOnce /\ ChunksOnce

LEMMA ChunkAt ==
  ASSUME ServerInv, NEW c \in Conns, NEW i \in 1 .. Len(wire[c])
  PROVE  wire[c][i] \in Chunk /\ wire[c][i].by \in Goroutines
         /\ wire[c][i].kind \in {"event", "response"} /\ wire[c][i].part \in 1 .. 2
<1>1. wire[c] \in Seq(Chunk)
  BY DEF ServerInv, TypeOK
<1>2. wire[c][i] \in Chunk
  BY <1>1
<1>. QED BY <1>2 DEF Chunk

(* A step that writes nothing and leaves the broadcasts and responses that *)
(* are under way as they are.                                              *)
LEMMA OnceKept ==
  ASSUME ServerInv, OnceInv, UNCHANGED <<wire, lock, todo>>,
         \A g \in Goroutines :
           pc'[g] = pc[g] \/ (pc[g] = "idle" /\ pc'[g] = "handler")
  PROVE  OnceInv'
<1>1. \A c \in Conns : \A i \in 1 .. Len(wire[c]) :
        LET k == wire[c][i]
        IN /\ k.by \in Goroutines /\ k.kind \in {"event", "response"}
           /\ pc[k.by] # "idle"
  BY ChunkAt DEF OnceInv, Origins, Origin
<1>2. \A c \in Conns : \A i \in 1 .. Len(wire[c]) :
        Origin(wire[c][i], c)' /\ (Due(wire[c][i], c)' => i = Len(wire[c]))
  <2>. SUFFICES ASSUME NEW c \in Conns, NEW i \in 1 .. Len(wire[c])
                PROVE  Origin(wire[c][i], c)' /\ (Due(wire[c][i], c)' => i = Len(wire[c]))
    OBVIOUS
  <2>. DEFINE h == wire[c][i].by
  <2>1. h \in Goroutines /\ pc'[h] = pc[h] /\ todo' = todo
    BY <1>1
  <2>2. wire' = wire /\ lock' = lock
    OBVIOUS
  <2>3. Meant(h, c)' = Meant(h, c) /\ Kind(h)' = Kind(h)
    BY <2>1 DEF Meant, Kind
  <2>4. Origin(wire[c][i], c) /\ (Due(wire[c][i], c) => i = Len(wire[c]))
    BY DEF OnceInv, Origins
  <2>. QED BY <2>1, <2>2, <2>3, <2>4 DEF Origin, Due
<1>. QED BY <1>2 DEF OnceInv, Origins, OrdersOnce, ChunksOnce, Once

(* A goroutine that has written nothing yet moves on.                      *)
LEMMA FirstStep ==
  ASSUME ServerInv, OnceInv, UNCHANGED <<wire, lock>>, OrdersOnce',
         NEW g \in Goroutines, OnlyOf(g), pc[g] \in {"idle", "handler"}
  PROVE  OnceInv'
<1>1. \A c \in Conns : \A i \in 1 .. Len(wire[c]) :
        LET k == wire[c][i]
        IN k.by \in Goroutines /\ k.kind \in {"event", "response"} /\ k.by # g
  BY ChunkAt DEF OnceInv, Origins, Origin
<1>2. \A c \in Conns : \A i \in 1 .. Len(wire[c]) :
        Origin(wire[c][i], c)' /\ (Due(wire[c][i], c)' => i = Len(wire[c]))
  <2>. SUFFICES ASSUME NEW c \in Conns, NEW i \in 1 .. Len(wire[c])
                PROVE  Origin(wire[c][i], c)' /\ (Due(wire[c][i], c)' => i = Len(wire[c]))
    OBVIOUS
  <2>. DEFINE h == wire[c][i].by
  <2>1. h \in Goroutines /\ pc'[h] = pc[h] /\ todo'[h] = todo[h]
    BY <1>1 DEF OnlyOf
  <2>2. wire' = wire /\ lock' = lock
    OBVIOUS
  <2>3. Meant(h, c)' = Meant(h, c) /\ Kind(h)' = Kind(h)
    BY <2>1 DEF Meant, Kind
  <2>4. Origin(wire[c][i], c) /\ (Due(wire[c][i], c) => i = Len(wire[c]))
    BY DEF OnceInv, Origins
  <2>. QED BY <2>1, <2>2, <2>3, <2>4 DEF Origin, Due
<1>. QED BY <1>2 DEF OnceInv, Origins, ChunksOnce, Once

(* What a write that ends leaves to its goroutine is for other connections.*)
LEMMA LeftOver ==
  ASSUME ServerInv, OrdersOnce, NEW g \in Goroutines, Writing(g), Written(g),
         NEW k \in Chunk, k.by = g, NEW d \in Conns, Due(k, d)'
  PROVE  Due(k, d) /\ d # Target(g)
<1>1. pc[g] # "respond"
  <2>. SUFFICES ASSUME pc[g] = "respond" PROVE FALSE
    OBVIOUS
  <2>. QED BY DEF ServerInv, TypeOK, Written, Due, Meant
<1>2. pc[g] = "broadcast" /\ todo[g] # << >> /\ Target(g) = Head(todo[g])
  BY <1>1 DEF Writing, Target
<1>3. todo'[g] = Tail(todo[g]) /\ pc' = pc /\ todo[g] \in Seq(Conns)
  BY <1>1 DEF ServerInv, TypeOK, Written
<1>4. k.kind = "event" /\ k.kind # "response" /\ Meant(g, d)'
  BY <1>2, <1>3 DEF Due
<1>5. PICK n \in 1 .. Len(Tail(todo[g])) : Tail(todo[g])[n] = d
  BY <1>3, <1>4 DEF Meant
<1>6. n + 1 \in 1 .. Len(todo[g]) /\ todo[g][n + 1] = d /\ 1 \in 1 .. Len(todo[g])
      /\ Head(todo[g]) = todo[g][1] /\ n + 1 # 1
  BY <1>2, <1>3, <1>5
<1>7. Once(todo[g])
  BY DEF OrdersOnce
<1>8. d # todo[g][1]
  BY <1>6, <1>7 DEF Once
<1>. QED BY <1>2, <1>4, <1>6, <1>8 DEF Due, Meant

LEMMA NothingDue ==
  ASSUME ServerInv, OnceInv, NEW g \in Goroutines, Writing(g), Written(g),
         NEW c \in Conns, NEW i \in 1 .. Len(wire[c]), NEW k, k = wire[c][i], k.by = g
  PROVE  ~Due(k, c)'
<1>. SUFFICES ASSUME Due(k, c)' PROVE FALSE
  OBVIOUS
<1>1. k \in Chunk
  BY ChunkAt
<1>2. Due(k, c) /\ c # Target(g)
  BY <1>1, LeftOver DEF OnceInv
<1>3. lock[c] = g
  BY <1>2 DEF OnceInv, Origins, Origin
<1>. QED BY <1>2, <1>3, RequestShape DEF ServerInv, Holders

LEMMA WrittenOnce ==
  ASSUME ServerInv, OrdersOnce, NEW g \in Goroutines, Writing(g), Written(g)
  PROVE  OrdersOnce'
<1>1. CASE pc[g] = "respond"
  BY <1>1 DEF Written, OrdersOnce
<1>2. CASE pc[g] # "respond"
  <2>1. todo[g] \in Seq(Conns) /\ todo[g] # << >> /\ Once(todo[g])
    BY <1>2 DEF ServerInv, TypeOK, Writing, OrdersOnce
  <2>2. todo'[g] = Tail(todo[g]) /\ \A h \in Goroutines : h # g => todo'[h] = todo[h]
    BY <1>2 DEF ServerInv, TypeOK, Written
  <2>3. Once(Tail(todo[g]))
    <3>. SUFFICES ASSUME NEW i \in 1 .. Len(Tail(todo[g])), NEW j \in 1 .. Len(Tail(todo[g])),
                         Tail(todo[g])[i] = Tail(todo[g])[j]
                  PROVE  i = j
      BY DEF Once
    <3>1. i + 1 \in 1 .. Len(todo[g]) /\ j + 1 \in 1 .. Len(todo[g])
          /\ todo[g][i + 1] = todo[g][j + 1]
      BY <2>1
    <3>. QED BY <2>1, <3>1 DEF Once
  <2>. QED BY <2>2, <2>3 DEF OrdersOnce
<1>. QED BY <1>1, <1>2

(* What is due on a connection is its holder's.                            *)
LEMMA DueIsHolders ==
  ASSUME ServerInv, OnceInv, NEW c \in Conns, NEW i \in 1 .. Len(wire[c]),
         NEW k, k = wire[c][i], Due(k, c)
  PROVE  /\ lock[c] = k.by /\ k.by \in Goroutines /\ lock[c] # NoOne /\ i = Len(wire[c])
         /\ k = [by |-> lock[c], kind |-> Kind(lock[c]), part |-> 1]
         /\ Target(k.by) = c
BY ChunkAt, RequestShape DEF OnceInv, Origins, Origin, ServerInv, Holders, Chunk

(* A step of g that puts nothing on a connection: a lock it lets go of was *)
(* its own, one it takes was free.                                         *)
LEMMA QuietlyOnce ==
  ASSUME ServerInv, OnceInv, UNCHANGED wire, OrdersOnce',
         NEW g \in Goroutines, OnlyOf(g),
         \A c \in Conns : lock'[c] = lock[c] \/ lock[c] \in {g, NoOne},
         \A c \in Conns : \A i \in 1 .. Len(wire[c]) :
           wire[c][i].by = g => Origin(wire[c][i], c)'
                                /\ (Due(wire[c][i], c)' => i = Len(wire[c]))
  PROVE  OnceInv'
<1>1. ASSUME NEW c \in Conns, NEW i \in 1 .. Len(wire[c]), wire[c][i].by # g
      PROVE  Origin(wire[c][i], c)' /\ (Due(wire[c][i], c)' => i = Len(wire[c]))
  <2>1. PICK k : k = wire[c][i]
    OBVIOUS
  <2>2. k.by \in Goroutines /\ k.by # g
    BY <1>1, <2>1, ChunkAt
  <2>3. Due(k, c)' = Due(k, c) /\ pc'[k.by] = pc[k.by] /\ Kind(k.by)' = Kind(k.by)
    BY <2>2 DEF OnlyOf, Due, Meant, Kind
  <2>4. Origin(k, c) /\ (Due(k, c) => i = Len(wire[c]))
    BY <2>1 DEF OnceInv, Origins
  <2>5. Due(k, c) => lock[c] = k.by /\ lock[c] # NoOne
    BY <2>1, DueIsHolders
  <2>6. Origin(k, c)'
    BY <2>2, <2>3, <2>4, <2>5 DEF Origin
  <2>. QED BY <2>1, <2>3, <2>4, <2>6
<1>2. Origins'
  BY <1>1 DEF Origins
<1>. QED BY <1>2 DEF OnceInv, ChunksOnce, Once

(* Where a goroutine is when a write of it has ended.                      *)
LEMMA AfterWrite ==
  ASSUME ServerInv, NEW g \in Goroutines, Writing(g), Written(g)
  PROVE  /\ pc[g] = "respond" => pc'[g] = "done" /\ g \in Requests
         /\ pc[g] # "respond" => pc[g] = "broadcast" /\ pc'[g] = "broadcast"
BY DEF ServerInv, TypeOK, Owners, Writing, Written

LEMMA WrittenQuietly ==
  ASSUME ServerInv, OnceInv, NEW g \in Goroutines, Writing(g), Written(g),
         UNCHANGED wire, UNCHANGED readVars,
         \A c \in Conns : lock'[c] = lock[c] \/ lock[c] \in {g, NoOne}
  PROVE  OnceInv'
<1>1. OnlyOf(g) /\ OrdersOnce'
  BY WrittenStep, WrittenOnce DEF OnceInv
<1>2. ASSUME NEW c \in Conns, NEW i \in 1 .. Len(wire[c]), wire[c][i].by = g
      PROVE  Origin(wire[c][i], c)' /\ (Due(wire[c][i], c)' => i = Len(wire[c]))
  <2>1. PICK k : k = wire[c][i]
    OBVIOUS
  <2>2. ~Due(k, c)'
    BY <1>2, <2>1, NothingDue
  <2>3. Origin(k, c)'
    <3>1. Origin(k, c)
      BY <2>1 DEF OnceInv, Origins
    <3>. QED BY <1>2, <2>1, <2>2, <3>1, AfterWrite DEF Origin
  <2>. QED BY <2>1, <2>2, <2>3
<1>. QED BY <1>1, <1>2, QuietlyOnce

LEMMA OnceWriteEnv ==
  ASSUME ServerInv, OnceInv, NEW g \in Goroutines, writeEnv(g)
  PROVE  OnceInv'
<1>1. Target(g) \in Conns /\ Writing(g) /\ lock[Target(g)] = NoOne
  BY TargetConn DEF writeEnv, ServerInv
<1>2. CASE Written(g) /\ UNCHANGED lock
  BY <1>1, <1>2, WrittenQuietly DEF writeEnv
<1>3. CASE lock' = [lock EXCEPT ![Target(g)] = g] /\ UNCHANGED <<pc, todo>>
  <2>1. OrdersOnce' /\ OnlyOf(g) /\ UNCHANGED wire
    BY <1>3 DEF OnceInv, OrdersOnce, OnlyOf, writeEnv
  <2>2. \A c \in Conns : lock'[c] = lock[c] \/ lock[c] \in {g, NoOne}
    BY <1>1, <1>3 DEF ServerInv, TypeOK
  <2>3. ASSUME NEW c \in Conns, NEW i \in 1 .. Len(wire[c]), wire[c][i].by = g
        PROVE  Origin(wire[c][i], c)' /\ (Due(wire[c][i], c)' => i = Len(wire[c]))
    <3>1. PICK k : k = wire[c][i]
      OBVIOUS
    <3>2. Due(k, c)' = Due(k, c) /\ Kind(k.by)' = Kind(k.by)
      BY <1>3 DEF Due, Meant, Kind
    <3>3. Origin(k, c) /\ (Due(k, c) => i = Len(wire[c]))
      BY <3>1 DEF OnceInv, Origins
    <3>4. Due(k, c) => lock[c] # NoOne
      BY <3>1, DueIsHolders
    <3>5. Due(k, c) => lock'[c] = lock[c]
      BY <1>1, <1>3, <3>4 DEF ServerInv, TypeOK
    <3>6. Origin(k, c)'
      BY <1>3, <3>2, <3>3, <3>5 DEF Origin
    <3>. QED BY <3>1, <3>2, <3>3, <3>6, <2>1
  <2>. QED BY <2>1, <2>2, <2>3, QuietlyOnce
<1>. QED BY <1>2, <1>3 DEF writeEnv

LEMMA OnceWriteFails ==
  ASSUME ServerInv, OnceInv, NEW g \in Goroutines, WriteFails(g)
  PROVE  OnceInv'
<1>1. \A c \in Conns : lock'[c] = lock[c] \/ lock[c] \in {g, NoOne}
  BY DEF WriteFails, ServerInv, TypeOK
<1>. QED BY <1>1, WrittenQuietly DEF WriteFails

(* A chunk that is not there yet, put behind those that are.               *)
LEMMA AppendedOnce ==
  ASSUME NEW w \in Seq(Chunk), NEW k \in Chunk, Once(w), \A i \in 1 .. Len(w) : w[i] # k
  PROVE  Once(Append(w, k))
<1>. SUFFICES ASSUME NEW i \in 1 .. Len(w) + 1, NEW j \in 1 .. Len(w) + 1,
                     Append(w, k)[i] = Append(w, k)[j]
              PROVE  i = j
  BY DEF Once
<1>1. \A n \in 1 .. Len(w) : Append(w, k)[n] = w[n]
  OBVIOUS
<1>2. Append(w, k)[Len(w) + 1] = k /\ Len(w) \in Nat
  OBVIOUS
<1>3. CASE i \in 1 .. Len(w) /\ j \in 1 .. Len(w)
  BY <1>1, <1>3 DEF Once
<1>4. CASE i = Len(w) + 1 \/ j = Len(w) + 1
  BY <1>1, <1>2, <1>4
<1>. QED BY <1>2, <1>3, <1>4

LEMMA OnceWriteChunk ==
  ASSUME ServerInv, OnceInv, NEW g \in Goroutines, WriteChunk(g)
  PROVE  OnceInv'
<1>1. PICK c : c = Target(g)
  OBVIOUS
<1>2. PICK p : p = NextPart(g, c)
  OBVIOUS
<1>3. PICK k : k = [by |-> g, kind |-> Kind(g), part |-> p]
  OBVIOUS
<1>4. /\ Writing(g) /\ c \in Conns /\ lock[c] = g /\ Connected(c)
      /\ wire' = [wire EXCEPT ![c] = Append(@, k)]
      /\ p = 1 => UNCHANGED <<lock, pc, todo>>
      /\ p = 2 => lock' = [lock EXCEPT ![c] = NoOne] /\ Written(g)
      /\ UNCHANGED readVars /\ p \in 1 .. 2
  BY <1>1, <1>2, <1>3, TargetConn DEF WriteChunk, ServerInv, NextPart
<1>5. k \in Chunk /\ k.by = g /\ k.kind = Kind(g) /\ k.part = p
      /\ k.kind \in {"event", "response"}
  BY <1>1, <1>3, <1>4, TargetConn DEF Chunk, ServerInv
<1>6. /\ wire'[c] = Append(wire[c], k) /\ wire[c] \in Seq(Chunk)
      /\ \A d \in Conns : d # c => wire'[d] = wire[d]
      /\ Len(wire'[c]) = Len(wire[c]) + 1 /\ Len(wire[c]) \in Nat
      /\ wire'[c][Len(wire[c]) + 1] = k
      /\ \A i \in 1 .. Len(wire[c]) : wire'[c][i] = wire[c][i]
  BY <1>4, <1>5 DEF ServerInv, TypeOK
<1>7. Due(k, c)
  <2>1. CASE pc[g] = "respond"
    BY <1>5, <2>1 DEF Due, Kind
  <2>2. CASE pc[g] = "broadcast" /\ todo[g] # << >>
    <3>1. todo[g] \in Seq(Conns)
      BY DEF ServerInv, TypeOK
    <3>2. 1 \in 1 .. Len(todo[g]) /\ todo[g][1] = c
      BY <1>1, <2>2, <3>1 DEF Target
    <3>. QED BY <1>5, <2>2, <3>2 DEF Due, Kind, Meant
  <2>. QED BY <1>4, <2>1, <2>2 DEF Writing
<1>8. ASSUME NEW i \in 1 .. Len(wire[c]), Due(wire[c][i], c)
      PROVE  p = 2 /\ wire[c][i].by = g
  <2>1. PICK x : x = wire[c][i]
    OBVIOUS
  <2>2. x = [by |-> g, kind |-> Kind(g), part |-> 1] /\ i = Len(wire[c])
    BY <1>4, <1>8, <2>1, DueIsHolders
  <2>3. wire[c] # << >> /\ Last(wire[c]) = wire[c][Len(wire[c])]
    BY <1>4, <1>6, LastChunk DEF ServerInv
  <2>4. Last(wire[c]) = [by |-> g, kind |-> Kind(g), part |-> 1]
    BY <2>1, <2>2, <2>3
  <2>. QED BY <1>2, <2>1, <2>2, <2>3, <2>4 DEF NextPart
<1>9. \A i \in 1 .. Len(wire[c]) : wire[c][i] # k
  <2>. SUFFICES ASSUME NEW i \in 1 .. Len(wire[c]), wire[c][i] = k PROVE FALSE
    OBVIOUS
  <2>1. p = 2
    BY <1>7, <1>8
  <2>2. k.part = 1
    BY <1>4, <1>7, DueIsHolders
  <2>. QED BY <1>5, <2>1, <2>2
<1>10. ChunksOnce'
  <2>1. Once(wire'[c])
    BY <1>4, <1>5, <1>6, <1>9, AppendedOnce DEF OnceInv, ChunksOnce
  <2>. QED BY <1>6, <2>1 DEF OnceInv, ChunksOnce
<1>11. OrdersOnce' /\ OnlyOf(g)
  <2>1. CASE p = 1
    BY <1>4, <2>1 DEF OnceInv, OrdersOnce, OnlyOf
  <2>2. CASE p = 2
    BY <1>4, <2>2, WrittenOnce, WrittenStep DEF OnceInv
  <2>. QED BY <1>4, <2>1, <2>2
<1>12. ASSUME NEW d \in Conns, NEW i \in 1 .. Len(wire[d])
       PROVE  Origin(wire[d][i], d)
  BY DEF OnceInv, Origins
<1>13. Origins'
  <2>. SUFFICES ASSUME NEW d \in Conns, NEW i \in 1 .. Len(wire'[d]),
                       NEW x, x = wire'[d][i]
                PROVE  Origin(x, d)' /\ (Due(x, d)' => i = Len(wire'[d]))
    BY DEF Origins
  <2>1. CASE d = c /\ i = Len(wire[c]) + 1
    <3>1. x = k /\ i = Len(wire'[d])
      BY <1>6, <2>1
    <3>2. CASE p = 1
      <4>1. Due(k, c)' = Due(k, c) /\ Kind(g)' = Kind(g) /\ pc' = pc /\ lock' = lock
        BY <1>4, <3>2 DEF Due, Meant, Kind
      <4>2. /\ k.kind = "response" => g \in Requests /\ g[1] = c /\ pc[g] = "respond"
            /\ k.kind = "event" => pc[g] = "broadcast"
        BY <1>1, <1>4, <1>5 DEF Kind, Target, Writing, ServerInv, Owners
      <4>. QED BY <1>4, <1>5, <2>1, <3>1, <3>2, <4>1, <4>2 DEF Origin
    <3>3. CASE p = 2
      <4>1. ~Due(k, c)'
        BY <1>1, <1>4, <1>5, <3>3, LeftOver DEF OnceInv
      <4>2. /\ k.kind = "response" => g \in Requests /\ g[1] = c /\ pc'[g] = "done"
            /\ k.kind = "event" => pc'[g] = "broadcast"
        BY <1>1, <1>4, <1>5, <3>3, AfterWrite DEF Kind, Target
      <4>. QED BY <1>5, <2>1, <3>1, <4>1, <4>2 DEF Origin
    <3>. QED BY <1>4, <3>2, <3>3
  <2>2. CASE ~(d = c /\ i = Len(wire[c]) + 1)
    <3>1. i \in 1 .. Len(wire[d]) /\ x = wire[d][i]
      BY <1>6, <2>2
    <3>2. Origin(x, d) /\ x.by \in Goroutines
      BY <3>1, <1>12, ChunkAt
    <3>3. CASE p = 1
      <4>1. Due(x, d)' = Due(x, d) /\ Kind(x.by)' = Kind(x.by) /\ pc' = pc /\ lock' = lock
        BY <1>4, <3>3 DEF Due, Meant, Kind
      <4>2. Origin(x, d)'
        BY <3>2, <4>1 DEF Origin
      <4>3. Due(x, d) => d # c
        BY <1>8, <3>1, <3>3
      <4>4. Due(x, d) => i = Len(wire[d])
        BY <3>1 DEF OnceInv, Origins
      <4>. QED BY <1>6, <4>1, <4>2, <4>3, <4>4
    <3>4. CASE p = 2 /\ x.by = g
      <4>1. ~Due(x, d)'
        BY <1>4, <3>1, <3>4, NothingDue
      <4>2. Origin(x, d)'
        BY <1>4, <3>2, <3>4, <4>1, AfterWrite DEF Origin
      <4>. QED BY <4>1, <4>2
    <3>5. CASE p = 2 /\ x.by # g
      <4>1. Due(x, d)' = Due(x, d) /\ pc'[x.by] = pc[x.by] /\ Kind(x.by)' = Kind(x.by)
        BY <1>11, <3>2, <3>5 DEF OnlyOf, Due, Meant, Kind
      <4>2. Due(x, d) => d # c /\ lock[d] = x.by /\ i = Len(wire[d])
        BY <1>4, <3>1, <3>5, DueIsHolders
      <4>3. Due(x, d) => lock'[d] = lock[d]
        BY <1>4, <3>5, <4>2 DEF ServerInv, TypeOK
      <4>4. Origin(x, d)'
        BY <3>2, <4>1, <4>3 DEF Origin
      <4>. QED BY <1>6, <4>1, <4>2, <4>4
    <3>. QED BY <1>4, <3>3, <3>4, <3>5
  <2>. QED BY <2>1, <2>2
<1>. QED BY <1>10, <1>11, <1>13 DEF OnceInv

LEMMA OnceBroadcasts ==
  ASSUME ServerInv, OnceInv, NEW g \in Goroutines,
         BroadcastEvent(g) \/ BroadcastReturns(g) \/ (g \in Requests /\ HandlerReturns(g))
  PROVE  OnceInv'
<1>1. CASE BroadcastEvent(g)
  <2>1. pc' = [pc EXCEPT ![g] = "broadcast"] /\ pc[g] \in {"idle", "handler"}
        /\ UNCHANGED <<wire, lock>>
    BY <1>1 DEF BroadcastEvent
  <2>2. PICK order \in SetToSeqs(tracked) : todo' = [todo EXCEPT ![g] = order]
    BY <1>1 DEF BroadcastEvent
  <2>3. Once(order)
    <3>1. PICK D : D = 1 .. Cardinality(tracked)
      OBVIOUS
    <3>2. /\ order \in [D -> tracked] /\ \A i, j \in D : i # j => order[i] # order[j]
      BY <3>1 DEF SetToSeqs
    <3>3. order \in Seq(Conns)
      BY OrdersAreSequences DEF ServerInv
    <3>4. 1 .. Len(order) = D
      BY <3>2, <3>3
    <3>. QED BY <3>2, <3>4 DEF Once
  <2>4. OrdersOnce' /\ OnlyOf(g)
    BY <2>1, <2>2, <2>3 DEF OnceInv, OrdersOnce, OnlyOf, ServerInv, TypeOK
  <2>. QED BY <2>1, <2>4, FirstStep
<1>2. CASE BroadcastReturns(g)
  <2>1. /\ pc[g] = "broadcast" /\ todo[g] = << >> /\ UNCHANGED <<wire, lock, todo>>
        /\ pc'[g] \in {"respond", "done"} /\ (pc'[g] = "respond" => g \in Requests)
        /\ OnlyOf(g)
    BY <1>2 DEF BroadcastReturns, ServerInv, TypeOK, OnlyOf
  <2>2. OrdersOnce'
    BY <2>1 DEF OnceInv, OrdersOnce
  <2>3. ASSUME NEW c \in Conns, NEW i \in 1 .. Len(wire[c]), wire[c][i].by = g
        PROVE  Origin(wire[c][i], c)' /\ (Due(wire[c][i], c)' => i = Len(wire[c]))
    <3>1. PICK k : k = wire[c][i]
      OBVIOUS
    <3>2. Origin(k, c) /\ k.kind \in {"event", "response"}
      BY <3>1, ChunkAt DEF OnceInv, Origins
    <3>3. k.kind = "event"
      BY <2>1, <2>3, <3>1, <3>2 DEF Origin
    <3>4. k.kind # "response"
      BY <3>3
    <3>5. ~Due(k, c)'
      BY <2>1, <2>3, <3>1, <3>3, <3>4 DEF Due, Meant
    <3>. QED BY <2>1, <2>3, <3>1, <3>3, <3>4, <3>5 DEF Origin
  <2>. QED BY <2>1, <2>2, <2>3, QuietlyOnce
<1>3. CASE g \in Requests /\ HandlerReturns(g)
  <2>1. pc[g] = "handler" /\ UNCHANGED <<wire, lock, todo>> /\ OnlyOf(g)
    BY <1>3 DEF HandlerReturns, ServerInv, TypeOK, OnlyOf
  <2>2. OrdersOnce'
    BY <2>1 DEF OnceInv, OrdersOnce
  <2>. QED BY <2>1, <2>2, FirstStep
<1>. QED BY <1>1, <1>2, <1>3

LEMMA OnceNext == ServerInv /\ OnceInv /\ [Next]_vars => OnceInv'
<1>. SUFFICES ASSUME ServerInv, OnceInv, [Next]_vars PROVE OnceInv'
  OBVIOUS
<1>1. CASE Start \/ StopSetsClosing \/ Stopping \/ AcceptFails
  BY <1>1, OnceKept
  DEF Start, StopSetsClosing, Stopping, StopClosesListener, closeActiveConnections,
      StopReturns, AcceptFails, writeVars
<1>2. ASSUME NEW c \in Conns,
             Accept(c) \/ trackConn(c) \/ ScanEnds(c) \/ untrackConn(c) \/ Connect(c)
             \/ ClientReads(c) \/ HangUp(c) \/ \E n \in 0 .. maxFrameSize : Send(c, n)
      PROVE  OnceInv'
  BY <1>2, OnceKept
  DEF Accept, trackConn, ScanEnds, untrackConn, Connect, ClientReads, HangUp, Send,
      writeVars
<1>3. ASSUME NEW c \in Conns, ScanFrame(c) PROVE OnceInv'
  <2>1. UNCHANGED <<wire, lock, todo>>
    BY <1>3 DEF ScanFrame
  <2>2. pc' = pc \/ pc' = [pc EXCEPT ![<<c, scanned[c] + 1>>] = "handler"]
    BY <1>3 DEF ScanFrame
  <2>3. scanned[c] \in Nat /\ Len(sent[c]) <= MaxFrames[c]
        /\ MaxFrames[c] \in Nat /\ Len(sent[c]) \in Nat
    BY BoundsAssumption DEF ServerInv, TypeOK
  <2>4. <<c, scanned[c] + 1>> \in Requests /\ <<c, scanned[c] + 1>> \in Goroutines
    <3>1. scanned[c] + 1 \in 1 .. MaxFrames[c]
      BY <1>3, <2>3 DEF ScanFrame
    <3>. QED BY <2>3, <3>1, RequestShape
  <2>5. pc[<<c, scanned[c] + 1>>] = "idle"
    BY <2>3, <2>4 DEF ServerInv, Owners
  <2>6. \A g \in Goroutines : pc'[g] = pc[g] \/ (pc[g] = "idle" /\ pc'[g] = "handler")
    BY <2>2, <2>4, <2>5 DEF ServerInv, TypeOK
  <2>. QED BY <2>1, <2>6, OnceKept
<1>4. ASSUME NEW g \in Goroutines,
             Running(g) \/ BroadcastEvent(g) \/ (g \in Requests /\ HandlerReturns(g))
      PROVE  OnceInv'
  BY <1>4, OnceBroadcasts, OnceWriteEnv, OnceWriteChunk, OnceWriteFails DEF Running
<1>5. CASE UNCHANGED vars
  BY <1>5, OnceKept DEF vars
<1>. QED BY <1>1, <1>2, <1>3, <1>4, <1>5, RequestShape DEF Next, System, Serving

\* Responses go to the connection their request came on.
ResponsesHome ==
  \A c \in Conns : \A i \in 1 .. Len(wire[c]) :
    wire[c][i].kind = "response" => wire[c][i].by[1] = c

\* No client gets a response or an event twice, or the response to a request of
\* another, whatever writes to it and to others fail (processEnvelope,
\* BroadcastEvent): a broadcast goes over each connection it found once, and a
\* frame cut short is never begun again.
THEOREM EachFrameOnce == Spec => [](ChunksOnce /\ ResponsesHome)
<1>1. Init => OnceInv
  <2>. SUFFICES ASSUME Init PROVE OnceInv
    OBVIOUS
  <2>1. (\A c \in Conns : wire[c] = << >>) /\ \A g \in Goroutines : todo[g] = << >>
    BY DEF Init
  <2>. QED BY <2>1 DEF OnceInv, Origins, OrdersOnce, ChunksOnce, Once
<1>2. OnceInv => ChunksOnce /\ ResponsesHome
  BY DEF OnceInv, Origins, Origin, ResponsesHome
<1>. QED BY <1>1, <1>2, ServerCorrect, OnceNext, PTL DEF Spec

-----------------------------------------------------------------------------
(***************************************************************************)
(* No request and no connection of a broadcast is passed over.             *)
(***************************************************************************)
Delivered(g, c, kind) ==
  \E i \in 1 .. Len(wire[c]) : wire[c][i] = [by |-> g, kind |-> kind, part |-> 2]

\* The goroutine of a request is over only when its response is on the wire,
\* the connection is gone, or the response is longer than a frame may be; and
\* every request that was read got a goroutine, but one that came with the end
\* of its connection.
RequestsServed ==
  /\ \A g \in Requests : pc[g] = "done" =>
       Delivered(g, g[1], "response") \/ ~Connected(g[1]) \/ ~Writable(size[g])
  /\ \A c \in Conns : \A n \in 1 .. scanned[c] :
       sent[c][n] # 0 /\ pc[<<c, n>>] = "idle" => handler[c] \in {"untrack", "done"}

\* What has been read came over a connection that was accepted, and each
\* connection has one handleConn.
ReadFrom ==
  \A c \in Conns :
    /\ scanned[c] > 0 => sock[c] \in {"open", "closed"} /\ client[c] # "out"
    /\ acceptor = c \/ sock[c] \in {"none", "backlog"} => handler[c] = "none"

\* A connection leaves a broadcast only with the event on it, or gone.
EventsServed ==
  \A g \in Goroutines, c \in Conns :
    Meant(g, c) => Meant(g, c)' \/ Delivered(g, c, "event")' \/ ~Connected(c)

LEMMA GoneStays ==
  ASSUME ServerInv, [Next]_vars, NEW c \in Conns,
         sock[c] \in {"open", "closed"}, client[c] # "out"
  PROVE  /\ sock'[c] \in {"open", "closed"} /\ client'[c] # "out"
         /\ ~Connected(c) => ~Connected(c)'
<1>. USE DEF ServerInv, TypeOK, Connected
<1>1. CASE Start \/ StopSetsClosing \/ Stopping \/ AcceptFails
  BY <1>1
  DEF Start, StopSetsClosing, Stopping, StopClosesListener, closeActiveConnections,
      StopReturns, AcceptFails, connVars
<1>2. ASSUME NEW d \in Conns, Serving(d)
      PROVE  /\ sock'[c] \in {"open", "closed"} /\ client'[c] # "out"
             /\ ~Connected(c) => ~Connected(c)'
  BY <1>2
  DEF Serving, Accept, trackConn, ScanFrame, ScanEnds, HandlerEnds, untrackConn, connVars
<1>3. ASSUME NEW d \in Conns,
             Connect(d) \/ ClientReads(d) \/ HangUp(d)
             \/ \E n \in 0 .. maxFrameSize : Send(d, n)
      PROVE  /\ sock'[c] \in {"open", "closed"} /\ client'[c] # "out"
             /\ ~Connected(c) => ~Connected(c)'
  BY <1>3 DEF Connect, ClientReads, HangUp, Send, connVars
<1>4. ASSUME NEW g \in Goroutines,
             Running(g) \/ BroadcastEvent(g) \/ HandlerReturns(g)
      PROVE  UNCHANGED connVars
  BY <1>4
  DEF Running, BroadcastReturns, writeEnv, WriteChunk, WriteFails, BroadcastEvent,
      HandlerReturns
<1>5. CASE UNCHANGED vars
  BY <1>5 DEF vars
<1>. QED BY <1>1, <1>2, <1>3, <1>4, <1>5, RequestShape DEF Next, System, connVars

(* All a goroutine does to the wire.                                       *)
LEMMA ChunkWritten ==
  ASSUME ServerInv, NEW g \in Goroutines, WriteChunk(g),
         NEW c, c = Target(g), NEW kind, kind = Kind(g)
  PROVE  /\ \A d \in Conns : \A i \in 1 .. Len(wire[d]) :
              i \in 1 .. Len(wire'[d]) /\ wire'[d][i] = wire[d][i]
         /\ UNCHANGED <<pc, todo>> \/ (Written(g) /\ Delivered(g, c, kind)')
<1>2. PICK k : k = [by |-> g, kind |-> kind, part |-> NextPart(g, c)]
  OBVIOUS
<1>3. /\ Writing(g) /\ c \in Conns /\ wire' = [wire EXCEPT ![c] = Append(@, k)]
      /\ NextPart(g, c) # 2 => UNCHANGED <<pc, todo>>
      /\ NextPart(g, c) = 2 => Written(g)
      /\ NextPart(g, c) \in 1 .. 2
  BY <1>2, TargetConn DEF WriteChunk, ServerInv, NextPart
<1>4. k \in Chunk
  BY <1>2, <1>3, TargetConn DEF Chunk, ServerInv
<1>5. /\ wire'[c] = Append(wire[c], k) /\ wire[c] \in Seq(Chunk)
      /\ \A d \in Conns : d # c => wire'[d] = wire[d]
      /\ Len(wire'[c]) = Len(wire[c]) + 1 /\ Len(wire[c]) \in Nat
      /\ wire'[c][Len(wire[c]) + 1] = k
      /\ \A i \in 1 .. Len(wire[c]) : wire'[c][i] = wire[c][i]
  BY <1>3, <1>4 DEF ServerInv, TypeOK
<1>6. NextPart(g, c) = 2 => Delivered(g, c, kind)'
  BY <1>2, <1>5 DEF Delivered
<1>. QED BY <1>3, <1>5, <1>6

LEMMA TargetDone ==
  ASSUME ServerInv, NEW g \in Goroutines, Written(g), NEW c \in Conns, Meant(g, c)
  PROVE  /\ Writing(g) /\ pc[g] = "broadcast" /\ Kind(g) = "event"
         /\ Meant(g, c)' \/ c = Target(g)
<1>1. PICK n \in 1 .. Len(todo[g]) : todo[g][n] = c
  BY DEF Meant
<1>2. pc[g] = "broadcast" /\ todo[g] \in Seq(Conns) /\ todo[g] # << >>
  BY <1>1 DEF Meant, ServerInv, TypeOK
<1>3. pc' = pc /\ todo'[g] = Tail(todo[g])
  BY <1>2 DEF Written, ServerInv, TypeOK
<1>4. CASE n = 1
  BY <1>1, <1>2, <1>4 DEF Writing, Kind, Target
<1>5. CASE n # 1
  <2>1. n - 1 \in 1 .. Len(todo'[g]) /\ todo'[g][n - 1] = c
    BY <1>1, <1>2, <1>3, <1>5
  <2>. QED BY <1>2, <1>3, <2>1 DEF Meant, Writing, Kind
<1>. QED BY <1>4, <1>5

(* What the steps of others do to a goroutine: they start it, at most.     *)
LEMMA OtherSteps ==
  ASSUME ServerInv, [Next]_vars, NEW g \in Goroutines
  PROVE  \/ Running(g) \/ BroadcastEvent(g) \/ (g \in Requests /\ HandlerReturns(g))
         \/ /\ pc'[g] = pc[g] \/ (pc[g] = "idle" /\ pc'[g] = "handler")
            /\ todo'[g] = todo[g] /\ (g \in Requests => size'[g] = size[g])
<1>. USE DEF ServerInv, TypeOK
<1>1. CASE Start \/ StopSetsClosing \/ Stopping \/ AcceptFails
  BY <1>1
  DEF Start, StopSetsClosing, Stopping, StopClosesListener, closeActiveConnections,
      StopReturns, AcceptFails, writeVars
<1>2. ASSUME NEW c \in Conns,
             Accept(c) \/ trackConn(c) \/ ScanEnds(c) \/ untrackConn(c) \/ Connect(c)
             \/ ClientReads(c) \/ HangUp(c) \/ \E n \in 0 .. maxFrameSize : Send(c, n)
      PROVE  UNCHANGED <<pc, todo, size>>
  BY <1>2
  DEF Accept, trackConn, ScanEnds, untrackConn, Connect, ClientReads, HangUp, Send,
      writeVars
<1>3. ASSUME NEW c \in Conns, ScanFrame(c)
      PROVE  /\ UNCHANGED <<todo, size>>
             /\ pc'[g] = pc[g] \/ (pc[g] = "idle" /\ pc'[g] = "handler")
  <2>1. UNCHANGED <<todo, size>>
        /\ (pc' = pc \/ pc' = [pc EXCEPT ![<<c, scanned[c] + 1>>] = "handler"])
    BY <1>3 DEF ScanFrame
  <2>2. scanned[c] \in Nat
    OBVIOUS
  <2>3. <<c, scanned[c] + 1>> \in Goroutines => pc[<<c, scanned[c] + 1>>] = "idle"
    <3>1. ASSUME <<c, scanned[c] + 1>> \in Goroutines
          PROVE  <<c, scanned[c] + 1>> \in Requests
      <4>1. <<c, scanned[c] + 1>> \in Conns \X Nat
        BY <2>2
      <4>2. <<c, scanned[c] + 1>> \notin Pushers
        BY <4>1, GoroutinesAssumption
      <4>. QED BY <3>1, <4>2 DEF Goroutines
    <3>. QED BY <2>2, <3>1 DEF Owners
  <2>. QED BY <2>1, <2>3
<1>4. ASSUME NEW h \in Goroutines, h # g,
             Running(h) \/ BroadcastEvent(h) \/ (h \in Requests /\ HandlerReturns(h))
      PROVE  pc'[g] = pc[g] /\ todo'[g] = todo[g] /\ (g \in Requests => size'[g] = size[g])
  BY <1>4
  DEF Running, BroadcastReturns, writeEnv, WriteChunk, WriteFails, Written, BroadcastEvent,
      HandlerReturns, NextPart
<1>5. CASE UNCHANGED vars
  BY <1>5 DEF vars
<1>. QED BY <1>1, <1>2, <1>3, <1>4, <1>5, RequestShape DEF Next, System, Serving

LEMMA EventsServedStep == ServerInv /\ [Next]_vars => EventsServed
<1>. SUFFICES ASSUME ServerInv, [Next]_vars, NEW g \in Goroutines, NEW c \in Conns,
                     Meant(g, c)
              PROVE  Meant(g, c)' \/ Delivered(g, c, "event")' \/ ~Connected(c)
  BY DEF EventsServed
<1>1. pc[g] = "broadcast" /\ todo[g] # << >>
  BY DEF Meant, ServerInv, TypeOK
<1>2. CASE writeEnv(g)
  <2>1. pc' = pc /\ todo' = todo
    BY <1>1, <1>2 DEF writeEnv
  <2>. QED BY <2>1 DEF Meant
<1>3. CASE WriteChunk(g)
  <2>1. PICK d : d = Target(g)
    OBVIOUS
  <2>2. UNCHANGED <<pc, todo>> \/ (Written(g) /\ Delivered(g, d, "event")')
    BY <1>1, <1>3, <2>1, ChunkWritten DEF Kind
  <2>. QED BY <2>1, <2>2, TargetDone DEF Meant
<1>4. CASE WriteFails(g)
  BY <1>4, TargetDone DEF WriteFails
<1>5. CASE pc'[g] = pc[g] /\ todo'[g] = todo[g]
  BY <1>5 DEF Meant
<1>. QED BY <1>1, <1>2, <1>3, <1>4, <1>5, OtherSteps
     DEF Running, BroadcastReturns, BroadcastEvent, HandlerReturns

LEMMA WireGrows ==
  ASSUME ServerInv, [Next]_vars, NEW c \in Conns, NEW i \in 1 .. Len(wire[c])
  PROVE  i \in 1 .. Len(wire'[c]) /\ wire'[c][i] = wire[c][i]
<1>1. ASSUME NEW g \in Goroutines, WriteChunk(g)
      PROVE  i \in 1 .. Len(wire'[c]) /\ wire'[c][i] = wire[c][i]
  BY <1>1, ChunkWritten
<1>2. (\A g \in Goroutines : ~WriteChunk(g)) => wire' = wire
  BY RequestShape
  DEF Next, System, Start, StopSetsClosing, Stopping, StopClosesListener,
      closeActiveConnections, StopReturns, AcceptFails, Serving, Accept, trackConn,
      ScanFrame, ScanEnds, untrackConn, ClientReads, Connect, HangUp, Send, Running,
      BroadcastReturns, writeEnv, WriteFails, HandlerReturns, BroadcastEvent, writeVars, vars
<1>. QED BY <1>1, <1>2

LEMMA ConnMoves ==
  ASSUME ServerInv, [Next]_vars, NEW c \in Conns
  PROVE  /\ scanned'[c] = scanned[c] \/ ScanFrame(c)
         /\ \A n \in 1 .. scanned[c] : sent'[c][n] = sent[c][n]
         /\ \/ handler'[c] = handler[c]
            \/ trackConn(c) \/ ScanFrame(c) \/ ScanEnds(c) \/ untrackConn(c)
         /\ acceptor' = c => acceptor = c \/ Accept(c)
         /\ sock'[c] \in {"none", "backlog"} => sock[c] \in {"none", "backlog"}
<1>. USE DEF ServerInv, TypeOK
<1>1. CASE Start \/ StopSetsClosing \/ Stopping \/ AcceptFails
  BY <1>1, ConnsAssumption
  DEF Start, StopSetsClosing, Stopping, StopClosesListener, closeActiveConnections,
      StopReturns, AcceptFails, connVars, readVars
<1>2. ASSUME NEW d \in Conns, Serving(d)
      PROVE  /\ scanned'[c] = scanned[c] \/ (d = c /\ ScanFrame(c))
             /\ sent' = sent
             /\ \/ handler'[c] = handler[c]
                \/ d = c /\ (trackConn(c) \/ ScanFrame(c) \/ ScanEnds(c) \/ untrackConn(c))
             /\ acceptor' = c => acceptor = c \/ (d = c /\ Accept(c))
             /\ sock'[c] \in {"none", "backlog"} => sock[c] \in {"none", "backlog"}
  <2>1. CASE Accept(d)
    BY <2>1 DEF Accept, readVars
  <2>2. CASE trackConn(d)
    BY <2>2, ConnsAssumption DEF trackConn, readVars
  <2>3. CASE ScanFrame(d) \/ ScanEnds(d)
    BY <2>3 DEF ScanFrame, ScanEnds, HandlerEnds, connVars, listenVars, readVars
  <2>4. CASE untrackConn(d)
    BY <2>4 DEF untrackConn, listenVars, readVars
  <2>. QED BY <1>2, <2>1, <2>2, <2>3, <2>4 DEF Serving
<1>3. ASSUME NEW d \in Conns, Connect(d) \/ ClientReads(d) \/ HangUp(d)
      PROVE  /\ UNCHANGED <<scanned, sent, handler, acceptor>>
             /\ sock'[c] \in {"none", "backlog"} => sock[c] \in {"none", "backlog"}
  BY <1>3 DEF Connect, ClientReads, HangUp, listenVars, readVars, Opened
<1>4. ASSUME NEW d \in Conns, NEW m \in 0 .. maxFrameSize, Send(d, m)
      PROVE  /\ UNCHANGED <<scanned, handler, acceptor, sock>>
             /\ \A n \in 1 .. scanned[c] : sent'[c][n] = sent[c][n]
  <2>1. sent[c] \in Seq(0 .. maxFrameSize) /\ scanned[c] \in Nat /\ scanned[c] <= Len(sent[c])
    OBVIOUS
  <2>2. sent'[c] = sent[c] \/ sent'[c] = Append(sent[c], m)
    BY <1>4 DEF Send
  <2>3. UNCHANGED <<scanned, handler, acceptor, sock>>
    BY <1>4 DEF Send, listenVars, connVars
  <2>4. ASSUME NEW n \in 1 .. scanned[c] PROVE sent'[c][n] = sent[c][n]
    <3>. HIDE DEF ServerInv, TypeOK
    <3>1. n \in 1 .. Len(sent[c])
      BY <2>1
    <3>2. Append(sent[c], m)[n] = sent[c][n]
      BY <2>1, <3>1
    <3>. QED BY <2>2, <3>2
  <2>. QED BY <2>3, <2>4
<1>5. ASSUME NEW g \in Goroutines,
             Running(g) \/ BroadcastEvent(g) \/ HandlerReturns(g)
      PROVE  UNCHANGED <<scanned, sent, handler, acceptor, sock>>
  BY <1>5
  DEF Running, BroadcastReturns, writeEnv, WriteChunk, WriteFails, BroadcastEvent,
      HandlerReturns, connVars, listenVars, readVars
<1>6. CASE UNCHANGED vars
  BY <1>6 DEF vars
<1>7. CASE \E d \in Conns : Serving(d)
  BY <1>2, <1>7
<1>. QED BY <1>1, <1>3, <1>4, <1>5, <1>6, <1>7, RequestShape DEF Next, System

LEMMA ReadFromNext == ServerInv /\ ReadFrom /\ [Next]_vars => ReadFrom'
<1>. SUFFICES ASSUME ServerInv, ReadFrom, [Next]_vars, NEW c \in Conns
              PROVE  /\ scanned'[c] > 0 => sock'[c] \in {"open", "closed"} /\ client'[c] # "out"
                     /\ acceptor' = c \/ sock'[c] \in {"none", "backlog"} => handler'[c] = "none"
  BY DEF ReadFrom
<1>1. scanned'[c] > 0 => sock[c] \in {"open", "closed"} /\ client[c] # "out"
  BY ConnMoves DEF ReadFrom, ScanFrame, ServerInv, Opened
<1>2. scanned'[c] > 0 => sock'[c] \in {"open", "closed"} /\ client'[c] # "out"
  BY <1>1, GoneStays
<1>3. ASSUME acceptor' = c \/ sock'[c] \in {"none", "backlog"}
      PROVE  handler'[c] = "none"
  <2>1. acceptor = c \/ sock[c] \in {"none", "backlog"}
    BY <1>3, ConnMoves DEF Accept
  <2>2. handler[c] = "none"
    BY <2>1 DEF ReadFrom
  <2>3. ~trackConn(c)
    <3>. SUFFICES ASSUME trackConn(c) PROVE FALSE
      OBVIOUS
    <3>1. acceptor' = "accept" /\ sock'[c] = sock[c] /\ acceptor = c
      BY DEF trackConn
    <3>. QED BY <1>3, <3>1, ConnsAssumption DEF ServerInv, Opened
  <2>. QED BY <2>2, <2>3, ConnMoves DEF ScanFrame, ScanEnds, untrackConn
<1>. QED BY <1>2, <1>3

LEMMA DoneServed ==
  ASSUME ServerInv, ReadFrom, RequestsServed, [Next]_vars, NEW g \in Requests,
         pc'[g] = "done", NEW c, c = g[1]
  PROVE  Delivered(g, c, "response")' \/ ~Connected(c)' \/ ~Writable(size'[g])
<1>. c \in Conns /\ g \in Goroutines
  BY RequestShape
<1>1. CASE pc[g] = "done"
  <2>1. size'[g] = size[g]
    BY <1>1, OtherSteps
    DEF Running, BroadcastReturns, writeEnv, WriteChunk, WriteFails, Writing,
        BroadcastEvent, HandlerReturns
  <2>2. Delivered(g, c, "response") \/ ~Connected(c) \/ ~Writable(size[g])
    BY <1>1 DEF RequestsServed
  <2>3. Delivered(g, c, "response") => Delivered(g, c, "response")'
    BY WireGrows DEF Delivered
  <2>4. scanned[c] > 0
    <3>1. scanned[c] \in Nat /\ MaxFrames[c] \in Nat
      BY BoundsAssumption DEF ServerInv, TypeOK
    <3>2. g[2] \in 1 .. MaxFrames[c]
      BY RequestShape
    <3>3. g[2] <= scanned[c]
      BY <1>1 DEF ServerInv, Owners
    <3>. QED BY <3>1, <3>2, <3>3
  <2>5. ~Connected(c) => ~Connected(c)'
    BY <2>4, GoneStays DEF ReadFrom
  <2>. QED BY <2>1, <2>2, <2>3, <2>5
<1>2. CASE pc[g] # "done"
  <2>1. writeEnv(g) \/ WriteChunk(g) \/ WriteFails(g)
    BY <1>2, OtherSteps
    DEF Running, BroadcastReturns, BroadcastEvent, HandlerReturns, ServerInv, TypeOK
  <2>2. Writing(g) /\ pc' # pc
    BY <1>2, <2>1 DEF writeEnv, WriteChunk, WriteFails
  <2>3. Written(g) => pc[g] = "respond" /\ Target(g) = c /\ Kind(g) = "response"
    BY <1>2, <2>2 DEF Written, Target, Kind
  <2>4. CASE writeEnv(g)
    BY <2>2, <2>4 DEF writeEnv
  <2>5. CASE WriteChunk(g)
    <3>1. PICK d : d = Target(g)
      OBVIOUS
    <3>2. PICK kind : kind = Kind(g)
      OBVIOUS
    <3>3. Written(g) /\ Delivered(g, d, kind)'
      BY <2>2, <2>5, <3>1, <3>2, ChunkWritten
    <3>. QED BY <2>3, <3>1, <3>2, <3>3
  <2>6. CASE WriteFails(g)
    BY <2>3, <2>6 DEF WriteFails, Connected, connVars
  <2>. QED BY <2>1, <2>4, <2>5, <2>6
<1>. QED BY <1>1, <1>2

LEMMA ReadServed ==
  ASSUME ServerInv, ReadFrom, RequestsServed, [Next]_vars, NEW c \in Conns,
         NEW n \in 1 .. scanned'[c], sent'[c][n] # 0, pc'[<<c, n>>] = "idle"
  PROVE  handler'[c] \in {"untrack", "done"}
<1>1. scanned[c] \in Nat /\ Len(sent[c]) \in Nat /\ scanned[c] <= Len(sent[c])
      /\ MaxFrames[c] \in Nat /\ Len(sent[c]) <= MaxFrames[c]
  BY BoundsAssumption DEF ServerInv, TypeOK
<1>2. CASE n \in 1 .. scanned[c]
  <2>1. <<c, n>> \in Goroutines /\ <<c, n>> \in Requests
    BY <1>1, <1>2, RequestShape
  <2>2. pc[<<c, n>>] = "idle"
    BY <2>1, OtherSteps
    DEF Running, BroadcastReturns, writeEnv, WriteChunk, WriteFails, Written,
        BroadcastEvent, HandlerReturns, ServerInv, TypeOK
  <2>3. handler[c] \in {"untrack", "done"}
    BY <1>2, <2>2, ConnMoves DEF RequestsServed
  <2>4. ~trackConn(c)
    BY <2>3 DEF ReadFrom, trackConn
  <2>5. untrackConn(c) => handler'[c] = "done"
    BY DEF untrackConn, ServerInv, TypeOK
  <2>6. ~ScanFrame(c) /\ ~ScanEnds(c)
    BY <2>3 DEF ScanFrame, ScanEnds
  <2>. QED BY <2>3, <2>4, <2>5, <2>6, ConnMoves
<1>3. CASE n \notin 1 .. scanned[c]
  <2>1. ScanFrame(c)
    BY <1>1, <1>3, ConnMoves
  <2>2. scanned[c] < Len(sent[c]) /\ scanned'[c] = scanned[c] + 1 /\ sent' = sent
    BY <1>1, <2>1 DEF ScanFrame, ServerInv, TypeOK
  <2>3. n = scanned[c] + 1 /\ n \in 1 .. MaxFrames[c]
    BY <1>1, <1>3, <2>2
  <2>4. <<c, n>> \in Goroutines /\ <<c, n>> \in Requests
    BY <2>3, RequestShape
  <2>5. pc' # [pc EXCEPT ![<<c, n>>] = "handler"]
    BY <2>4 DEF ServerInv, TypeOK
  <2>6. HandlerEnds(c)
    BY <2>1, <2>2, <2>3, <2>5 DEF ScanFrame
  <2>. QED BY <2>6 DEF HandlerEnds, ServerInv, TypeOK
<1>. QED BY <1>2, <1>3

LEMMA RequestsServedNext ==
  ServerInv /\ ReadFrom /\ RequestsServed /\ [Next]_vars => RequestsServed'
<1>. SUFFICES ASSUME ServerInv, ReadFrom, RequestsServed, [Next]_vars
              PROVE  RequestsServed'
  OBVIOUS
<1>1. ASSUME NEW g \in Requests, pc'[g] = "done"
      PROVE  Delivered(g, g[1], "response")' \/ ~Connected(g[1])' \/ ~Writable(size'[g])
  <2>1. PICK c : c = g[1]
    OBVIOUS
  <2>. QED BY <1>1, <2>1, DoneServed
<1>2. ASSUME NEW c \in Conns, NEW n \in 1 .. scanned'[c], sent'[c][n] # 0,
             pc'[<<c, n>>] = "idle"
      PROVE  handler'[c] \in {"untrack", "done"}
  BY <1>2, ReadServed
<1>. QED BY <1>1, <1>2 DEF RequestsServed, Writable

\* Every request and every connection of a broadcast is served, whatever else
\* fails (handleConn, processEnvelope, BroadcastEvent in server.go): a request
\* that was read is answered before its goroutine ends, and a write that fails
\* costs no other connection its event, unless the connection is gone or the
\* response is longer than maxFrameSize.
THEOREM NobodyPassedOver == Spec => []RequestsServed /\ [][EventsServed]_vars
<1>1. Init => ReadFrom /\ RequestsServed
  <2>. SUFFICES ASSUME Init PROVE ReadFrom /\ RequestsServed
    OBVIOUS
  <2>1. ReadFrom
    BY ConnsAssumption DEF Init, ReadFrom
  <2>2. RequestsServed
    BY RequestShape DEF Init, RequestsServed
  <2>. QED BY <2>1, <2>2
<1>2. ServerInv /\ [Next]_vars => [EventsServed]_vars
  BY EventsServedStep
<1>. QED BY <1>1, <1>2, ServerCorrect, ReadFromNext, RequestsServedNext, PTL DEF Spec
=============================================================================
