------------------------------ MODULE IpcServer ------------------------------
(***************************************************************************)
(* The IPC server of internal/ipc/server.go and the frames of framing.go.  *)
(*                                                                         *)
(* serve accepts connections; handleConn reads the frames of one           *)
(* connection and starts a goroutine per request, which runs the handler   *)
(* and writes the response.  A handler that changes tags broadcasts an     *)
(* event before it responds (handleTag calls onFileTagged), and so do      *)
(* goroutines outside the server: the scan, the processor, the GUI         *)
(* manager.  All of them write through connWriter, which serialises the    *)
(* frames of a connection.  A frame is written in two chunks, because a    *)
(* write on a socket blocks when the peer does not read.                   *)
(***************************************************************************)
EXTENDS Naturals, Sequences, FiniteSets, SequencesExt

CONSTANTS
  Conns,        \* clients, one connection each
  Deaf,         \* the clients that have stopped reading
  Pushers,      \* goroutines outside the server that broadcast one event
  NoOne,        \* a connWriter.mu that is free
  MaxFrames,    \* bound on the frames each client sends
  MaxLeave,     \* bound on the clients that leave
  Cap,          \* chunks the socket buffers towards a client
  maxFrameSize, \* the limit of framing.go
  Sizes         \* sizes of the responses handlers return

ASSUME ConnsAssumption ==
  Deaf \subseteq Conns /\ IsFiniteSet(Conns) /\ Conns \cap {"accept", "returned"} = {}
ASSUME GoroutinesAssumption ==
  NoOne \notin Pushers \cup (Conns \X Nat) /\ Pushers \cap (Conns \X Nat) = {}
ASSUME BoundsAssumption ==
  MaxFrames \in [Conns -> Nat] /\ MaxLeave \in Nat /\ Cap \in Nat \ {0}
ASSUME SizesAssumption ==
  maxFrameSize \in Nat /\ Sizes \subseteq Nat /\ 1 < maxFrameSize

VARIABLES
  stop,     \* progress of Start and Stop
  acceptor, \* serve: waiting, returned, or the connection in its hands
  client,   \* the client's end of each connection
  sock,     \* the server's end
  tracked,  \* Server.conns
  handler,  \* progress of handleConn
  sent,     \* sizes of the frames each client has sent; 0 is no request
  scanned,  \* how many of them the server's scanner has read
  pc,       \* progress of each goroutine that writes
  todo,     \* connections a broadcast has not written yet
  size,     \* size of the response of each request
  lock,     \* connWriter.mu: the goroutine that holds it
  wire,     \* chunks written to each connection
  seen,     \* how many of them the client has read
  late      \* history: connections tracked after closeActiveConnections

vars == <<stop, acceptor, client, sock, tracked, handler, sent, scanned,
          pc, todo, size, lock, wire, seen, late>>

listenVars == <<stop, acceptor>>
connVars == <<client, sock, tracked, handler, late>>
readVars == <<sent, scanned>>
writeVars == <<pc, todo, size, lock, wire>>

Requests == UNION {{c} \X (1 .. MaxFrames[c]) : c \in Conns}
Goroutines == Requests \cup Pushers
Chunk == [by : Goroutines, kind : {"event", "response"}, part : 1 .. 2]

closing == stop \in {"closing", "unlistening", "waiting", "stopped"}
Listening == stop \in {"running", "closing"}

(* WriteEnvelope refuses a longer frame; the Scanner, whose buffer has to  *)
(* hold the newline as well, fails on one of that size already.            *)
Writable(n) == n <= maxFrameSize
Scannable(n) == n < maxFrameSize

TypeOK ==
  /\ stop \in {"new", "failed", "running", "closing", "unlistening", "waiting",
               "stopped"}
  /\ acceptor \in Conns \cup {"accept", "returned"}
  /\ client \in [Conns -> {"out", "in", "left", "broken"}]
  /\ sock \in [Conns -> {"none", "backlog", "open", "closed"}]
  /\ tracked \subseteq Conns /\ late \subseteq Conns
  /\ handler \in [Conns -> {"none", "scan", "untrack", "done"}]
  /\ sent \in [Conns -> Seq(0 .. maxFrameSize)]
  /\ scanned \in [Conns -> Nat]
  /\ wire \in [Conns -> Seq(Chunk)]
  /\ seen \in [Conns -> Nat]
  /\ \A c \in Conns :
       /\ scanned[c] <= Len(sent[c]) /\ Len(sent[c]) <= MaxFrames[c]
       /\ seen[c] <= Len(wire[c]) /\ Len(wire[c]) <= seen[c] + Cap
  /\ pc \in [Goroutines -> {"idle", "handler", "broadcast", "respond", "done"}]
  /\ todo \in [Goroutines -> Seq(Conns)]
  /\ size \in [Requests -> Nat]
  /\ lock \in [Conns -> Goroutines \cup {NoOne}]

Init ==
  /\ stop = "new"
  /\ acceptor = "returned"
  /\ client = [c \in Conns |-> "out"]
  /\ sock = [c \in Conns |-> "none"]
  /\ tracked = {} /\ late = {}
  /\ handler = [c \in Conns |-> "none"]
  /\ sent = [c \in Conns |-> << >>]
  /\ scanned = [c \in Conns |-> 0]
  /\ pc = [g \in Goroutines |-> "idle"]
  /\ todo = [g \in Goroutines |-> << >>]
  /\ size = [g \in Requests |-> 0]
  /\ lock = [c \in Conns |-> NoOne]
  /\ wire = [c \in Conns |-> << >>]
  /\ seen = [c \in Conns |-> 0]

-----------------------------------------------------------------------------
(* The clients.  A client that meets a frame its scanner cannot hold ends  *)
(* its connection (IpcClient).                                             *)

Connect(c) ==
  /\ Listening /\ client[c] = "out"
  /\ client' = [client EXCEPT ![c] = "in"]
  /\ sock' = [sock EXCEPT ![c] = "backlog"]
  /\ UNCHANGED <<listenVars, tracked, handler, late, readVars, writeVars, seen>>

Send(c, n) ==
  /\ client[c] = "in" /\ sock[c] # "closed"
  /\ Len(sent[c]) < MaxFrames[c] /\ Writable(n)
  /\ sent' = [sent EXCEPT ![c] = Append(@, n)]
  /\ UNCHANGED <<listenVars, connVars, scanned, writeVars, seen>>

EndsLongFrame(chunk) ==
  chunk.part = 2 /\ chunk.kind = "response" /\ ~Scannable(size[chunk.by])

ClientReads(c) ==
  /\ c \notin Deaf /\ client[c] = "in" /\ seen[c] < Len(wire[c])
  /\ seen' = [seen EXCEPT ![c] = @ + 1]
  /\ client' = [client EXCEPT ![c] =
                  IF EndsLongFrame(wire[c][seen[c] + 1]) THEN "broken" ELSE @]
  /\ UNCHANGED <<listenVars, sock, tracked, handler, late, readVars, writeVars>>

HangUp(c) ==
  /\ client[c] = "in" /\ sock[c] # "closed"
  /\ Cardinality({d \in Conns : client[d] = "left"}) < MaxLeave
  /\ client' = [client EXCEPT ![c] = "left"]
  /\ UNCHANGED <<listenVars, sock, tracked, handler, late, readVars, writeVars, seen>>

-----------------------------------------------------------------------------
(* Start and Stop.                                                         *)

Start ==
  /\ stop = "new"
  /\ \/ stop' = "running" /\ acceptor' = "accept"
     \/ stop' = "failed" /\ UNCHANGED acceptor
  /\ UNCHANGED <<connVars, readVars, writeVars, seen>>

StopSetsClosing ==
  /\ stop = "running"
  /\ stop' = "closing"
  /\ UNCHANGED <<acceptor, connVars, readVars, writeVars, seen>>

(* ln.Close: connections nobody has accepted are reset.                    *)
StopClosesListener ==
  /\ stop = "closing"
  /\ stop' = "unlistening"
  /\ sock' = [c \in Conns |-> IF sock[c] = "backlog" THEN "closed" ELSE sock[c]]
  /\ UNCHANGED <<acceptor, client, tracked, handler, late, readVars, writeVars, seen>>

ForgetsConnections ==
  /\ stop = "unlistening"
  /\ stop' = "waiting"
  /\ UNCHANGED <<acceptor, connVars, readVars, writeVars, seen>>

closeActiveConnections ==
  /\ stop = "unlistening"
  /\ stop' = "waiting"
  /\ sock' = [c \in Conns |-> IF c \in tracked THEN "closed" ELSE sock[c]]
  /\ UNCHANGED <<acceptor, client, tracked, handler, late, readVars, writeVars, seen>>

StopWaitsForServe ==
  /\ stop = "waiting" /\ acceptor = "returned"
  /\ stop' = "stopped"
  /\ UNCHANGED <<acceptor, connVars, readVars, writeVars, seen>>

(* wg counts serve and the running handleConn, not the request goroutines. *)
StopReturns ==
  /\ stop = "waiting"
  /\ acceptor = "returned"
  /\ \A c \in Conns : handler[c] \in {"none", "done"}
  /\ stop' = "stopped"
  /\ UNCHANGED <<acceptor, connVars, readVars, writeVars, seen>>

-----------------------------------------------------------------------------
(* serve.  An Accept that fails while the server is not closing is         *)
(* logged and tried again, which changes nothing.                          *)

Accept(c) ==
  /\ acceptor = "accept" /\ Listening /\ sock[c] = "backlog"
  /\ acceptor' = c
  /\ sock' = [sock EXCEPT ![c] = "open"]
  /\ UNCHANGED <<stop, client, tracked, handler, late, readVars, writeVars, seen>>

AcceptFails ==
  /\ acceptor = "accept" /\ ~Listening /\ closing
  /\ acceptor' = "returned"
  /\ UNCHANGED <<stop, connVars, readVars, writeVars, seen>>

trackConn(c) ==
  /\ acceptor = c
  /\ acceptor' = "accept"
  /\ tracked' = tracked \cup {c}
  /\ handler' = [handler EXCEPT ![c] = "scan"]
  /\ late' = IF stop = "waiting" THEN late \cup {c} ELSE late
  /\ UNCHANGED <<stop, client, sock, readVars, writeVars, seen>>

-----------------------------------------------------------------------------
(* handleConn.  Its deferred functions close the connection, untrack it    *)
(* and leave the wait group, in this order.                                *)

HandlerEnds(c) ==
  /\ handler' = [handler EXCEPT ![c] = "untrack"]
  /\ sock' = [sock EXCEPT ![c] = "closed"]
  /\ UNCHANGED <<client, tracked, late>>

ScanFrame(c) ==
  /\ handler[c] = "scan" /\ scanned[c] < Len(sent[c])
  /\ LET n == scanned[c] + 1
         frame == sent[c][n]
     IN /\ scanned' = [scanned EXCEPT ![c] = n]
        /\ \/ (~Scannable(frame) \/ closing) /\ HandlerEnds(c) /\ UNCHANGED pc
           \/ /\ Scannable(frame) /\ ~closing
              /\ pc' = IF frame = 0 THEN pc ELSE [pc EXCEPT ![<<c, n>>] = "handler"]
              /\ UNCHANGED connVars
  /\ UNCHANGED <<listenVars, sent, todo, size, lock, wire, seen>>

(* End of the stream, or an error because the socket was closed here.      *)
ScanEnds(c) ==
  /\ handler[c] = "scan"
  /\ \/ sock[c] = "closed"
     \/ client[c] # "in" /\ scanned[c] = Len(sent[c])
  /\ HandlerEnds(c)
  /\ UNCHANGED <<listenVars, readVars, writeVars, seen>>

untrackConn(c) ==
  /\ handler[c] = "untrack"
  /\ tracked' = tracked \ {c}
  /\ handler' = [handler EXCEPT ![c] = "done"]
  /\ UNCHANGED <<listenVars, client, sock, late, readVars, writeVars, seen>>

-----------------------------------------------------------------------------
(* BroadcastEvent and processEnvelope.                                     *)

BroadcastEvent(g) ==
  /\ \/ g \in Pushers /\ pc[g] = "idle" /\ stop \notin {"new", "failed"}
     \/ g \in Requests /\ pc[g] = "handler"
  /\ pc' = [pc EXCEPT ![g] = "broadcast"]
  /\ todo' \in {[todo EXCEPT ![g] = order] : order \in SetToSeqs(tracked)}
  /\ UNCHANGED <<listenVars, connVars, readVars, size, lock, wire, seen>>

BroadcastReturns(g) ==
  /\ pc[g] = "broadcast" /\ todo[g] = << >>
  /\ IF g \in Requests
       THEN pc' = [pc EXCEPT ![g] = "respond"] /\ size' = [size EXCEPT ![g] = 1]
       ELSE pc' = [pc EXCEPT ![g] = "done"] /\ UNCHANGED size
  /\ UNCHANGED <<listenVars, connVars, readVars, todo, lock, wire, seen>>

HandlerErrorDropped(g) ==
  /\ pc[g] = "handler"
  /\ \/ pc' = [pc EXCEPT ![g] = "done"] /\ UNCHANGED size
     \/ pc' = [pc EXCEPT ![g] = "respond"]
        /\ \E n \in Sizes : size' = [size EXCEPT ![g] = n]
  /\ UNCHANGED <<listenVars, connVars, readVars, todo, lock, wire, seen>>

(* The handler returns: its response, or an ErrorResponse in place of an   *)
(* error or of nil.                                                        *)
HandlerReturns(g) ==
  /\ pc[g] = "handler"
  /\ pc' = [pc EXCEPT ![g] = "respond"]
  /\ \/ \E n \in Sizes : size' = [size EXCEPT ![g] = n]
     \/ size' = [size EXCEPT ![g] = 1]
  /\ UNCHANGED <<listenVars, connVars, readVars, todo, lock, wire, seen>>

Writing(g) == pc[g] = "respond" \/ (pc[g] = "broadcast" /\ todo[g] # << >>)
Target(g) == IF pc[g] = "respond" THEN g[1] ELSE Head(todo[g])
Kind(g) == IF pc[g] = "respond" THEN "response" ELSE "event"

(* A write that ends, with success or not, is only logged: a broadcast     *)
(* goes on with the next connection, a request is over.                    *)
Written(g) ==
  IF pc[g] = "respond"
    THEN pc' = [pc EXCEPT ![g] = "done"] /\ UNCHANGED todo
    ELSE todo' = [todo EXCEPT ![g] = Tail(@)] /\ UNCHANGED pc

writeEnvUnlocked(g) ==
  /\ Writing(g) /\ lock[Target(g)] # g
  /\ lock' = [lock EXCEPT ![Target(g)] = g]
  /\ UNCHANGED <<listenVars, connVars, readVars, pc, todo, size, wire, seen>>

(* writeEnv takes connWriter.mu; WriteEnvelope refuses what is too large.  *)
writeEnv(g) ==
  /\ Writing(g) /\ lock[Target(g)] = NoOne
  /\ IF pc[g] = "respond" /\ ~Writable(size[g])
       THEN Written(g) /\ UNCHANGED lock
       ELSE lock' = [lock EXCEPT ![Target(g)] = g] /\ UNCHANGED <<pc, todo>>
  /\ UNCHANGED <<listenVars, connVars, readVars, size, wire, seen>>

Connected(c) == sock[c] = "open" /\ client[c] = "in"

NextPart(g, c) ==
  IF wire[c] # << >> /\ Last(wire[c]) = [by |-> g, kind |-> Kind(g), part |-> 1]
    THEN 2 ELSE 1

WriteChunk(g) ==
  /\ Writing(g)
  /\ LET c == Target(g)
         p == NextPart(g, c)
     IN /\ lock[c] = g /\ Connected(c) /\ Len(wire[c]) - seen[c] < Cap
        /\ wire' = [wire EXCEPT ![c] =
                      Append(@, [by |-> g, kind |-> Kind(g), part |-> p])]
        /\ IF p = 2
             THEN lock' = [lock EXCEPT ![c] = NoOne] /\ Written(g)
             ELSE UNCHANGED <<lock, pc, todo>>
  /\ UNCHANGED <<listenVars, connVars, readVars, size, seen>>

WriteFailureEnds(g) ==
  /\ Writing(g)
  /\ lock[Target(g)] = g /\ ~Connected(Target(g))
  /\ lock' = [lock EXCEPT ![Target(g)] = NoOne]
  /\ pc' = [pc EXCEPT ![g] = "done"]
  /\ UNCHANGED <<listenVars, connVars, readVars, todo, size, wire, seen>>

WriteFails(g) ==
  /\ Writing(g)
  /\ lock[Target(g)] = g /\ ~Connected(Target(g))
  /\ lock' = [lock EXCEPT ![Target(g)] = NoOne]
  /\ Written(g)
  /\ UNCHANGED <<listenVars, connVars, readVars, size, wire, seen>>

-----------------------------------------------------------------------------
Stopping == StopClosesListener \/ closeActiveConnections \/ StopReturns

Serving(c) ==
  Accept(c) \/ trackConn(c) \/ ScanFrame(c) \/ ScanEnds(c) \/ untrackConn(c)

Running(g) ==
  BroadcastReturns(g) \/ writeEnv(g) \/ WriteChunk(g) \/ WriteFails(g)

(* What happens without anybody's decision.                                *)
System ==
  \/ Stopping \/ AcceptFails
  \/ \E c \in Conns : Serving(c) \/ ClientReads(c)
  \/ \E g \in Goroutines : Running(g)
  \/ \E g \in Requests : HandlerReturns(g)

Next ==
  \/ Start \/ StopSetsClosing \/ System
  \/ \E c \in Conns :
       Connect(c) \/ HangUp(c) \/ \E n \in 0 .. maxFrameSize : Send(c, n)
  \/ \E g \in Goroutines : BroadcastEvent(g)

Spec == Init /\ [][Next]_vars

(* The scheduler runs a goroutine that can run, handlers return, clients   *)
(* that are not deaf read.  There is only so much to do for what clients   *)
(* send, so fairness of the whole is fairness of every part.  Nobody has   *)
(* to connect, send, leave, broadcast or stop.                             *)
Fairness == WF_vars(System)

FairSpec == Spec /\ Fairness

-----------------------------------------------------------------------------
Whole(w) ==
  \A i \in 1 .. Len(w) :
    /\ w[i].part = 2 => i > 1 /\ w[i - 1] = [w[i] EXCEPT !.part = 1]
    /\ w[i].part = 1 /\ i < Len(w) => w[i + 1] = [w[i] EXCEPT !.part = 2]

(* The bytes of a connection are whole frames, one after the other, but    *)
(* for a last one that is still being written or never will be: responses  *)
(* and broadcasts of concurrent goroutines do not mix (connWriter.mu).     *)
FramesWhole == \A c \in Conns : Whole(wire[c])

(* Once Stop has returned nothing is written to any client, although the   *)
(* request goroutines and broadcasts it did not wait for go on.            *)
QuietAfterStop == [][stop = "stopped" => wire' = wire]_vars

Received(c, g, kind) ==
  \E i \in 1 .. seen[c] : wire[c][i] = [by |-> g, kind |-> kind, part |-> 2]

(* The client left, or the daemon stops.                                   *)
Ended(c) == client[c] = "left" \/ closing

(* A frame of this connection reached the limit of framing.go.             *)
LongFrame(c) ==
  \/ \E i \in 1 .. Len(sent[c]) : ~Scannable(sent[c][i])
  \/ \E n \in 1 .. MaxFrames[c] : ~Scannable(size[<<c, n>>])

(* A broadcast has come to a client that does not read.                    *)
AtDeaf(g) == pc[g] = "broadcast" /\ todo[g] # << >>
             /\ Head(todo[g]) \in Deaf /\ Connected(Head(todo[g]))

IsRequest(c, n) == n \in 1 .. Len(sent[c]) /\ sent[c][n] # 0

(* Every request of a client that reads is answered, whatever the other    *)
(* clients do, unless the connection ends, a frame of it is too long, or   *)
(* the handler broadcasts to a client that does not read.                  *)
RequestsAnswered ==
  \A c \in Conns \ Deaf : \A n \in 1 .. MaxFrames[c] :
    IsRequest(c, n) ~>
      (Received(c, <<c, n>>, "response") \/ Ended(c) \/ LongFrame(c)
       \/ AtDeaf(<<c, n>>))

(* A broadcast reaches every client it was meant for, also when writes to  *)
(* others fail, unless a client that does not read comes before it.        *)
EventsReach ==
  \A c \in Conns \ Deaf, g \in Goroutines :
    (pc[g] = "broadcast" /\ \E i \in 1 .. Len(todo[g]) : todo[g][i] = c) ~>
      (Received(c, g, "event") \/ Ended(c) \/ LongFrame(c) \/ AtDeaf(g))

(* Stop returns; it can wait only for a client that stays connected        *)
(* without sending and was accepted too late for closeActiveConnections.   *)
StopTerminates ==
  closing ~> (stop = "stopped"
              \/ (stop = "waiting" /\ \E c \in late : Connected(c)))

(* A client that does not read delays nobody else's responses.             *)
(* (server.go: "broadcasting events to one slow client doesn't block       *)
(* responses to other clients.")                                           *)
SlowClientIsolated ==
  \A c \in Conns \ Deaf : \A n \in 1 .. MaxFrames[c] :
    IsRequest(c, n) ~>
      (Received(c, <<c, n>>, "response") \/ Ended(c) \/ LongFrame(c))
=============================================================================
