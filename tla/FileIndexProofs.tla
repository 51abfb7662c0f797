-------------------------- MODULE FileIndexProofs --------------------------
(***************************************************************************)
(* Why the index follows the filesystem: a row is right once the newest    *)
(* event of its file has been handled, and the startup scan repairs what   *)
(* was missed without dropping what it found, for any files, any number of *)
(* changes and restarts and any capacity of the events channel.            *)
(***************************************************************************)
EXTENDS FileIndex, SequenceTheorems, TLAPS

\* Nothing is on its way to the index.
Empty ==
  /\ loop.at = "idle" /\ out = << >>
  /\ \A p \in Paths : kq[p] = << >> /\ pending[p] = "none" /\ flying[p] = {}

\* Rows, stamps and what was read of a file; when nothing can be in flight.
Sound ==
  /\ TypeOK
  /\ scan.start <= clock
  /\ \A p \in Paths : index[p].at <= clock /\ (index[p].ver = Absent => index[p] = NoRow)
  /\ loop.at \in {"read", "apply"} => loop.seen # Absent
  /\ scan.at \in {"read", "apply"} => scan.seen # Absent
  /\ ~up => Empty /\ scan.at = "off"
  /\ ~dirty => Empty

-----------------------------------------------------------------------------
\* The newest event of a file tells whether it exists, wherever the event has
\* got to; once none is on its way, the loop or the row has what the file is.
Fits(kind, p) == kind = "Delete" <=> fs[p] = Absent

Unread(p) == kq[p] # << >>
Waiting(p) == ~Unread(p) /\ pending[p] # "none"
Taken(p) == ~Unread(p) /\ ~Waiting(p) /\ flying[p] # {}
Last(i, p) == out[i].path = p /\ \A k \in 1 .. Len(out) : out[k].path = p => k <= i
Sent(p) == ~Unread(p) /\ ~Waiting(p) /\ ~Taken(p) /\ p \notin lost
Handled(p) == Sent(p) /\ \A i \in 1 .. Len(out) : out[i].path # p

LoopFits ==
  /\ loop.at = "delete" => fs[loop.path] = Absent
  /\ loop.at = "stat" => fs[loop.path] # Absent
  /\ loop.at \in {"read", "apply"} => loop.seen = fs[loop.path]

Underway(p) ==
  /\ Unread(p) => Fits(Kind(kq[p][Len(kq[p])]), p)
  /\ Waiting(p) => Fits(pending[p], p)
  /\ Taken(p) => \A k \in flying[p] : Fits(k, p)
  /\ Sent(p) => \A i \in 1 .. Len(out) : Last(i, p) => Fits(out[i].kind, p)

Arrived(p) == IF loop.at # "idle" /\ loop.path = p THEN LoopFits ELSE Consistent(p)

Newest(p) == Underway(p) /\ (Handled(p) => Arrived(p))

InOrder ==
  stops = 0 /\ world.faults = {} =>
    /\ up /\ scan.at = "done"
    /\ \A p \in Paths : Newest(p) /\ \A a, b \in flying[p] : a = b

-----------------------------------------------------------------------------
\* Rows from before the scan started and rows it has refreshed.
Old(p) == index[p] = NoRow \/ index[p].at < scan.start
Fresh(p) == Consistent(p) /\ index[p] # NoRow /\ index[p].at >= scan.start
Visiting(p) == scan.at \in {"read", "apply"} /\ scan.path = p
Walking == scan.at \in {"walk", "read", "apply"}

ScanInv ==
  ~dirty =>
    /\ scan.at \in {"read", "apply"} => scan.seen = fs[scan.path]
    /\ failed \subseteq {"dir"} =>
         /\ scan.at = "list" => \A p \in Paths : Old(p)
         /\ Walking => \A p \in Paths :
              \/ Fresh(p)
              \/ Old(p) /\ (fs[p] = Absent \/ p \in scan.todo \/ Visiting(p) \/ "dir" \in failed)
         /\ scan.at = "done" => \A p \in Paths :
              Consistent(p) \/ ("dir" \in failed /\ index[p] = NoRow)
    /\ "db" \notin failed =>
         /\ scan.at = "list" => visited = {}
         /\ Walking => \A p \in visited : Visiting(p) \/ (index[p] # NoRow /\ index[p].at >= scan.start)
         /\ scan.at = "done" => \A p \in visited : index[p] # NoRow

-----------------------------------------------------------------------------
(***************************************************************************)
(* Types and rows                                                          *)
(***************************************************************************)

Filesystem(p) ==
  FileCreated(p) \/ FileWritten(p) \/ FileDeleted(p) \/ FileMovedOut(p) \/ FileMovedIn(p)

\* The steps there are, and the world they happen in.
LEMMA StepIs ==
  ASSUME TypeOK, [Next]_vars
  PROVE  /\ world' = world /\ world \in Worlds
         /\ world.changes \in 0 .. MaxChanges /\ world.clock \in 0 .. MaxClock
         /\ \/ \E p \in Paths : Filesystem(p)
            \/ Tick
            \/ \E p \in Paths : ReadEvent(p)
            \/ \E p \in Paths : TimerTakes(p)
            \/ \E p \in Paths, kind \in Kinds : TimerSends(p, kind)
            \/ LoopReceives \/ LoopDeletes \/ LoopStats \/ LoopReads \/ LoopApplies
            \/ ScanLists \/ (\E p \in Paths : ScanVisits(p)) \/ ScanReads \/ ScanApplies
            \/ ScanDeletesStale
            \/ Stop \/ Start
            \/ UNCHANGED vars
<1>1. /\ world \in Worlds /\ world.paths \subseteq Paths
      /\ world.changes \in 0 .. MaxChanges /\ world.clock \in 0 .. MaxClock
  BY WorldsAssumption DEF TypeOK
<1>2. CASE Next
  <2>1. world' = world /\ Step
    BY <1>2 DEF Next
  <2> QED BY <1>1, <2>1 DEF Step, Environment, Watcher, EventLoop, Scan, Filesystem
<1>3. CASE UNCHANGED vars
  BY <1>1, <1>3 DEF vars
<1> QED BY <1>2, <1>3

\* What a change to a file does.
LEMMA Changing ==
  ASSUME TypeOK, NEW p \in Paths, Filesystem(p)
  PROVE  \E v \in Versions \cup {Absent}, bit \in Bits :
           Change(p, v, bit) /\ (v = Absent <=> Kind({bit}) = "Delete")
<1>1. changes < world.changes /\ changes \in 0 .. MaxChanges /\ world.changes \in 0 .. MaxChanges
  BY WorldsAssumption DEF TypeOK, Filesystem, FileCreated, FileWritten, FileDeleted,
     FileMovedOut, FileMovedIn, Change
<1>2. NewVersion \in Versions /\ NewVersion # Absent
  BY <1>1, BoundsAssumption DEF NewVersion, Versions, Absent
<1>3. \A bit \in Bits : bit \in {"DELETE", "MOVED_FROM"} <=> Kind({bit}) = "Delete"
  BY DEF Bits, Kind
<1>4. CASE FileCreated(p)
  BY <1>2, <1>3, <1>4 DEF FileCreated, Bits
<1>5. CASE FileWritten(p)
  BY <1>2, <1>3, <1>5 DEF FileWritten, Bits
<1>6. CASE FileDeleted(p)
  BY <1>2, <1>3, <1>6 DEF FileDeleted, Bits
<1>7. CASE FileMovedOut(p)
  BY <1>2, <1>3, <1>7 DEF FileMovedOut, Bits
<1>8. CASE FileMovedIn(p)
  BY <1>2, <1>3, <1>8 DEF FileMovedIn, Bits
<1> QED BY <1>4, <1>5, <1>6, <1>7, <1>8 DEF Filesystem

\* A statement on the index that gives each path its row, a new one stamped
\* with the current second or none, keeps the rows well formed.
RowOK(r) == r.at <= clock /\ (r.ver = Absent => r = NoRow)

LEMMA Executing ==
  ASSUME TypeOK, NEW rows, Execute(rows),
         \A p \in Paths : RowOK(index[p]),
         \/ \E p \in Paths, v \in Versions : rows = Upserted(p, v)
         \/ \E p \in Paths : rows = DeleteFile(p)
         \/ rows = DeleteStaleFiles(scan.start)
  PROVE  /\ index' \in [Paths -> Rows] /\ \A p \in Paths : RowOK(index'[p])
         /\ failed' = failed \/ failed' = failed \cup {"db"}
<1>0. index \in [Paths -> Rows] /\ clock \in 0 .. MaxClock /\ MaxClock \in Nat
  BY BoundsAssumption DEF TypeOK, Rows
<1>1. NoRow \in Rows /\ RowOK(NoRow)
  BY <1>0 DEF NoRow, RowOK, Rows
<1>2. ASSUME NEW p \in Paths, NEW v \in Versions, rows = Upserted(p, v)
      PROVE  rows \in [Paths -> Rows] /\ \A q \in Paths : RowOK(rows[q])
  <2> DEFINE r == [ver |-> v, at |-> clock]
  <2>1. r \in Rows /\ RowOK(r)
    BY <1>0 DEF RowOK, Versions, Absent, Rows
  <2>2. rows = [index EXCEPT ![p] = r]
    BY <1>2 DEF Upserted
  <2> HIDE DEF r
  <2> QED BY <1>0, <2>1, <2>2 DEF Rows
<1>3. ASSUME NEW p \in Paths, rows = DeleteFile(p)
      PROVE  rows \in [Paths -> Rows] /\ \A q \in Paths : RowOK(rows[q])
  BY <1>0, <1>1, <1>3 DEF DeleteFile, Rows
<1>4. ASSUME rows = DeleteStaleFiles(scan.start)
      PROVE  rows \in [Paths -> Rows] /\ \A q \in Paths : RowOK(rows[q])
  BY <1>0, <1>1, <1>4 DEF DeleteStaleFiles, Rows
<1> QED BY <1>0, <1>2, <1>3, <1>4 DEF Execute

LEMMA TypeStep ==
  ASSUME Sound, [Next]_vars
  PROVE  TypeOK'
<1>0. /\ TypeOK /\ world' = world /\ world \in Worlds
      /\ MaxChanges \in Nat /\ MaxClock \in Nat
      /\ world.changes \in 0 .. MaxChanges /\ world.clock \in 0 .. MaxClock
  BY StepIs, BoundsAssumption DEF Sound
<1>1. ASSUME NEW p \in Paths, Filesystem(p) PROVE TypeOK'
  <2>1. PICK v \in Versions \cup {Absent}, bit \in Bits : Change(p, v, bit)
    BY <1>0, <1>1, Changing
  <2>2. kq' \in [Paths -> Seq(SUBSET Bits)]
    <3>1. kq \in [Paths -> Seq(SUBSET Bits)] /\ {bit} \in SUBSET Bits
      BY <1>0 DEF TypeOK
    <3>2. CASE UNCHANGED kq
      BY <3>1, <3>2
    <3>3. CASE kq' = [kq EXCEPT ![p] = Append(@, {bit})]
      BY <3>1, <3>3
    <3>4. CASE kq[p] # << >> /\ kq' = [kq EXCEPT ![p][Len(kq[p])] = @ \cup {bit}]
      <4> DEFINE s == kq[p]
                 t == [s EXCEPT ![Len(s)] = @ \cup {bit}]
      <4>1. s \in Seq(SUBSET Bits) /\ Len(s) \in 1 .. Len(s)
        BY <3>1, <3>4
      <4>2. s[Len(s)] \cup {bit} \in SUBSET Bits
        BY <3>1, <4>1
      <4>3. t \in Seq(SUBSET Bits)
        BY <4>1, <4>2
      <4>4. kq' = [kq EXCEPT ![p] = t]
        BY <3>1, <3>4
      <4> HIDE DEF t
      <4> QED BY <3>1, <4>3, <4>4
    <3> QED BY <2>1, <3>2, <3>3, <3>4 DEF Change, Enqueue
  <2>3. changes' \in 0 .. MaxChanges
    BY <1>0, <2>1 DEF TypeOK, Change
  <2>4. fs' \in [Paths -> Versions \cup {Absent}]
    BY <1>0, <2>1 DEF TypeOK, Change
  <2> QED BY <1>0, <2>1, <2>2, <2>3, <2>4 DEF TypeOK, Change, daemonVars
<1>2. CASE Tick
  <2>1. clock' \in 0 .. MaxClock
    BY <1>0, <1>2 DEF Tick, TypeOK
  <2> QED BY <1>0, <1>2, <2>1 DEF TypeOK, Tick, daemonVars, watcherVars, history
<1>3. ASSUME NEW p \in Paths, ReadEvent(p) PROVE TypeOK'
  <2>1. kq[p] \in Seq(SUBSET Bits) /\ kq[p] # << >>
    BY <1>0, <1>3 DEF TypeOK, ReadEvent
  <2>2. Tail(kq[p]) \in Seq(SUBSET Bits)
    BY <2>1
  <2>3. Kind(Head(kq[p])) \in Kinds
    BY DEF Kind, Kinds
  <2>4. kq' \in [Paths -> Seq(SUBSET Bits)] /\ pending' \in [Paths -> Kinds \cup {"none"}]
    BY <1>0, <1>3, <2>2, <2>3 DEF TypeOK, ReadEvent
  <2> QED BY <1>0, <1>3, <2>4 DEF TypeOK, ReadEvent, daemonVars, history
<1>4. ASSUME NEW p \in Paths, TimerTakes(p) PROVE TypeOK'
  <2>1. pending' \in [Paths -> Kinds \cup {"none"}] /\ flying' \in [Paths -> SUBSET Kinds]
    BY <1>0, <1>4 DEF TypeOK, TimerTakes
  <2> QED BY <1>0, <1>4, <2>1 DEF TypeOK, TimerTakes, daemonVars, history
<1>5. ASSUME NEW p \in Paths, NEW kind \in Kinds, TimerSends(p, kind) PROVE TypeOK'
  <2>1. flying' \in [Paths -> SUBSET Kinds] /\ lost' \subseteq Paths
    BY <1>0, <1>5 DEF TypeOK, TimerSends
  <2>2. out' \in Seq([path : Paths, kind : Kinds])
    <3>1. [path |-> p, kind |-> kind] \in [path : Paths, kind : Kinds]
      OBVIOUS
    <3>2. Append(out, [path |-> p, kind |-> kind]) \in Seq([path : Paths, kind : Kinds])
      BY <1>0, <3>1, AppendProperties DEF TypeOK
    <3> QED BY <1>0, <1>5, <3>2 DEF TypeOK, TimerSends
  <2> QED BY <1>0, <1>5, <2>1, <2>2 DEF TypeOK, TimerSends, daemonVars
<1>6. CASE LoopReceives
  <2>1. out # << >> /\ out \in Seq([path : Paths, kind : Kinds])
    BY <1>0, <1>6 DEF TypeOK, LoopReceives
  <2>2. Head(out) \in [path : Paths, kind : Kinds] /\ out' \in Seq([path : Paths, kind : Kinds])
    BY <1>6, <2>1, HeadTailProperties DEF LoopReceives
  <2>3. /\ loop' \in LoopStates
        /\ loop'.path \in Paths
    BY <1>6, <2>2 DEF LoopReceives, LoopStates
  <2> QED BY <1>0, <1>6, <2>2, <2>3 DEF TypeOK, LoopReceives, daemonVars, history
<1>7. CASE LoopDeletes \/ LoopApplies
  <2>1. index' \in [Paths -> Rows]
        /\ failed' \subseteq {"dir", "db", "clock"}
    <3>1. loop.path \in Paths
      BY <1>0, <1>7 DEF TypeOK, LoopDeletes, LoopApplies
    <3>2. loop.at = "apply" => loop.seen \in Versions
      BY <1>0 DEF Sound, TypeOK, LoopStates
    <3>3. \E rows : /\ Execute(rows)
                    /\ \/ \E p \in Paths, v \in Versions : rows = Upserted(p, v)
                       \/ \E p \in Paths : rows = DeleteFile(p)
      BY <1>7, <3>1, <3>2 DEF LoopDeletes, LoopApplies
    <3>4. \A p \in Paths : RowOK(index[p])
      BY DEF Sound, RowOK
    <3> QED BY <1>0, <3>3, <3>4, Executing DEF TypeOK, Rows
  <2>2. loop' = Idle /\ Idle \in LoopStates
    BY <1>7 DEF LoopDeletes, LoopApplies, Idle, LoopStates
  <2>3. /\ loop'.at = "idle"
        /\ UNCHANGED <<fs, changes, clock, up, stops, kq, pending, flying, out, scan, dirty,
                       visited, lost>>
    BY <1>7, <2>2 DEF LoopDeletes, LoopApplies, Idle, daemonVars, watcherVars
  <2> QED BY <1>0, <2>1, <2>2, <2>3 DEF TypeOK
<1>8. CASE LoopStats \/ LoopReads
  <2>1. /\ loop' \in LoopStates
        /\ loop'.at # "idle" => loop'.path \in Paths
    <3>1. loop.path \in Paths /\ fs[loop.path] \in Versions \cup {Absent}
      BY <1>0, <1>8 DEF TypeOK, LoopStats, LoopReads
    <3>2. \/ loop' = Idle
          \/ loop' = [loop EXCEPT !.at = "read", !.seen = fs[loop.path]]
          \/ loop' = [loop EXCEPT !.at = "apply"]
      BY <1>8 DEF LoopStats, LoopReads
    <3>3. /\ Idle \in LoopStates
          /\ Idle.at = "idle"
      BY DEF Idle, LoopStates
    <3> QED BY <1>0, <3>1, <3>2, <3>3 DEF TypeOK, LoopStates
  <2>2. UNCHANGED <<fs, changes, clock, daemonVars, watcherVars, scan, index, history>>
    BY <1>8 DEF LoopStats, LoopReads
  <2> QED BY <1>0, <2>1, <2>2 DEF TypeOK, daemonVars, watcherVars, history
<1>9. CASE ScanLists \/ ScanReads \/ \E p \in Paths : ScanVisits(p)
  <2> DEFINE Result ==
        /\ scan' \in ScanStates
        /\ scan'.at \in {"read", "apply"} => scan'.path \in Paths
        /\ failed' \subseteq {"dir", "db", "clock"} /\ visited' \subseteq Paths
  <2>1. Result
    <3>1. CASE ScanLists
      <4>1. {p \in Paths : fs[p] # Absent} \in SUBSET Paths
        OBVIOUS
      <4> QED BY <1>0, <3>1, <4>1 DEF TypeOK, ScanLists, ScanStates
    <3>2. CASE ScanReads
      BY <1>0, <3>2 DEF TypeOK, ScanReads, history, ScanStates
    <3>3. ASSUME NEW p \in Paths, ScanVisits(p)
          PROVE  Result
      BY <1>0, <3>3 DEF TypeOK, ScanVisits, ScanStates
    <3> QED BY <1>9, <3>1, <3>2, <3>3
  <2>2. UNCHANGED <<fs, changes, clock, daemonVars, watcherVars, loop, index, dirty, lost>>
    BY <1>9 DEF ScanLists, ScanReads, ScanVisits, history
  <2> QED BY <1>0, <2>1, <2>2 DEF TypeOK, daemonVars, watcherVars
<1>10. CASE ScanApplies \/ ScanDeletesStale
  <2>1. index' \in [Paths -> Rows]
        /\ failed' \subseteq {"dir", "db", "clock"}
    <3>1. scan.at = "apply" => scan.seen \in Versions /\ scan.path \in Paths
      BY <1>0 DEF Sound, TypeOK, ScanStates
    <3>2. \E rows : /\ Execute(rows)
                    /\ \/ \E p \in Paths, v \in Versions : rows = Upserted(p, v)
                       \/ rows = DeleteStaleFiles(scan.start)
      BY <1>10, <3>1 DEF ScanApplies, ScanDeletesStale
    <3>3. \A p \in Paths : RowOK(index[p])
      BY DEF Sound, RowOK
    <3> QED BY <1>0, <3>2, <3>3, Executing DEF TypeOK, Rows
  <2>2. /\ scan' \in ScanStates
        /\ scan'.at \notin {"read", "apply"}
    BY <1>0, <1>10 DEF TypeOK, ScanApplies, ScanDeletesStale, ScanStates
  <2>3. UNCHANGED <<fs, changes, clock, daemonVars, watcherVars, loop, dirty, visited, lost>>
    BY <1>10 DEF ScanApplies, ScanDeletesStale
  <2> QED BY <1>0, <2>1, <2>2, <2>3 DEF TypeOK, daemonVars, watcherVars
<1>11. ScanOff \in ScanStates
  BY BoundsAssumption DEF ScanOff, ScanStates
<1>12. CASE Stop
  <2>1. stops' \in 0 .. world.stops
    BY <1>0, <1>12, WorldsAssumption DEF TypeOK, Stop
  <2>2. /\ kq' \in [Paths -> Seq(SUBSET Bits)] /\ pending' \in [Paths -> Kinds \cup {"none"}]
        /\ flying' \in [Paths -> SUBSET Kinds] /\ out' \in Seq([path : Paths, kind : Kinds])
    BY <1>12, EmptySeq DEF Stop
  <2>3. /\ loop' = Idle /\ scan' = ScanOff
        /\ Idle \in LoopStates
        /\ Idle.at = "idle" /\ ScanOff.at = "off"
    BY <1>12 DEF Stop, Idle, ScanOff, LoopStates
  <2> QED BY <1>0, <1>11, <1>12, <2>1, <2>2, <2>3 DEF TypeOK, Stop, history
<1>13. CASE Start
  <2>1. /\ scan' \in ScanStates
        /\ scan'.at = "list"
    BY <1>0, <1>11, <1>13 DEF TypeOK, Start, ScanOff, ScanStates
  <2>2. /\ dirty' = FALSE /\ visited' = {} /\ failed' \subseteq {"dir", "db", "clock"} /\ up' = TRUE
        /\ UNCHANGED <<fs, changes, clock, stops, watcherVars, loop, index, lost>>
    BY <1>13 DEF Start
  <2> QED BY <1>0, <2>1, <2>2 DEF TypeOK, watcherVars
<1>14. CASE UNCHANGED vars
  BY <1>0, <1>14 DEF TypeOK, vars
<1> QED BY <1>0, <1>1, <1>2, <1>3, <1>4, <1>5, <1>6, <1>7, <1>8, <1>9, <1>10, <1>12, <1>13, <1>14,
           StepIs

\* The watcher and the event loop.
Pipeline ==
  \/ \E p \in Paths : ReadEvent(p) \/ TimerTakes(p) \/ \E kind \in Kinds : TimerSends(p, kind)
  \/ LoopReceives \/ LoopDeletes \/ LoopStats \/ LoopReads \/ LoopApplies

\* They have something to do only when something is in flight.
LEMMA PipelineSteps ==
  ASSUME Sound, Pipeline
  PROVE  /\ ~Empty /\ up /\ dirty
         /\ UNCHANGED <<fs, changes, clock, up, stops, scan, dirty, visited>>
<1>1. ~Empty
  BY DEF Empty, Pipeline, ReadEvent, TimerTakes, TimerSends, LoopReceives, LoopDeletes, LoopStats,
         LoopReads, LoopApplies
<1>2. UNCHANGED <<fs, changes, clock, up, stops, scan, dirty, visited>>
  BY DEF Pipeline, ReadEvent, TimerTakes, TimerSends, LoopReceives, LoopDeletes, LoopStats,
         LoopReads, LoopApplies, daemonVars, history
<1> QED BY <1>1, <1>2 DEF Sound

Scanning ==
  ScanLists \/ (\E p \in Paths : ScanVisits(p)) \/ ScanReads \/ ScanApplies \/ ScanDeletesStale

LEMMA ScanningSteps ==
  ASSUME Sound, Scanning
  PROVE  /\ up /\ scan'.start = scan.start /\ scan.at \notin {"off", "done"}
         /\ UNCHANGED <<fs, changes, clock, up, stops, kq, pending, flying, out, loop, dirty, lost>>
<1>1. scan'.start = scan.start
  BY DEF Sound, TypeOK, Scanning, ScanLists, ScanVisits, ScanReads, ScanApplies, ScanDeletesStale, ScanStates
<1>2. /\ up /\ scan.at \notin {"off", "done"}
      /\ UNCHANGED <<fs, changes, clock, up, stops, kq, pending, flying, out, loop, dirty, lost>>
  BY DEF Scanning, ScanLists, ScanVisits, ScanReads, ScanApplies, ScanDeletesStale,
         daemonVars, watcherVars, history
<1> QED BY <1>1, <1>2

LEMMA SoundStep ==
  ASSUME Sound, [Next]_vars
  PROVE  Sound'
<1>0. /\ TypeOK' /\ TypeOK /\ clock \in Nat /\ clock' \in Nat
      /\ \A p \in Paths : index[p].at \in Nat
      /\ \A p \in Paths : RowOK(index[p])
  <2>1. TypeOK /\ TypeOK'
    BY TypeStep DEF Sound
  <2>2. clock \in Nat /\ clock' \in Nat /\ \A p \in Paths : index[p].at \in Nat
    BY <2>1 DEF TypeOK, Rows
  <2> QED BY <2>1, <2>2 DEF Sound, RowOK
<1> DEFINE RowsOK == \A p \in Paths : index[p].at <= clock /\ (index[p].ver = Absent => index[p] = NoRow)
           Seen == /\ loop.at \in {"read", "apply"} => loop.seen # Absent
                   /\ scan.at \in {"read", "apply"} => scan.seen # Absent
           Quiescent == /\ ~up => Empty /\ scan.at = "off"
                        /\ ~dirty => Empty
<1>1. scan.start <= clock /\ RowsOK /\ Seen /\ Quiescent
  BY DEF Sound
<1> SUFFICES (scan.start <= clock)' /\ RowsOK' /\ Seen' /\ Quiescent'
  BY <1>0 DEF Sound
<1>2. CASE Pipeline
  <2>1. up /\ dirty /\ UNCHANGED <<clock, up, scan, dirty>>
    BY <1>2, PipelineSteps
  <2>2. Seen'
    <3>1. \/ UNCHANGED loop
          \/ loop'.at \notin {"read", "apply"}
          \/ loop.at = "stat" /\ loop'.seen = fs[loop.path] /\ fs[loop.path] # Absent
          \/ loop.at = "read" /\ loop'.seen = loop.seen
      <4>1. CASE LoopStats \/ LoopReads
        <5>1. \/ loop' = Idle
              \/ /\ loop.at = "stat" /\ fs[loop.path] # Absent
                 /\ loop' = [loop EXCEPT !.at = "read", !.seen = fs[loop.path]]
              \/ loop.at = "read" /\ loop' = [loop EXCEPT !.at = "apply"]
          BY <4>1 DEF LoopStats, LoopReads
        <5>2. loop \in LoopStates
          BY <1>0 DEF TypeOK
        <5>3. Idle.at = "idle"
          BY DEF Idle
        <5> QED BY <5>1, <5>2, <5>3 DEF LoopStates
      <4>2. CASE LoopReceives \/ LoopDeletes \/ LoopApplies
        BY <4>2 DEF LoopReceives, LoopDeletes, LoopApplies, Idle
      <4> QED BY <1>2, <4>1, <4>2 DEF Pipeline, ReadEvent, TimerTakes, TimerSends
    <3> QED BY <1>1, <2>1, <3>1
  <2>3. RowsOK'
    <3>1. CASE UNCHANGED index
      BY <1>1, <2>1, <3>1
    <3>2. CASE LoopDeletes \/ LoopApplies
      <4>1. loop.path \in Paths
        BY <1>0, <3>2 DEF TypeOK, LoopDeletes, LoopApplies
      <4>2. loop.at = "apply" => loop.seen \in Versions
        BY <1>0, <1>1 DEF TypeOK, LoopStates
      <4>3. \E rows : /\ Execute(rows)
                      /\ \/ \E p \in Paths, v \in Versions : rows = Upserted(p, v)
                         \/ \E p \in Paths : rows = DeleteFile(p)
        BY <3>2, <4>1, <4>2 DEF LoopDeletes, LoopApplies
      <4>4. \A p \in Paths : RowOK(index'[p])
        BY <1>0, <4>3, Executing
      <4> QED BY <2>1, <4>4 DEF RowOK
    <3> QED BY <1>2, <3>1, <3>2 DEF Pipeline, ReadEvent, TimerTakes, TimerSends, LoopReceives,
               LoopStats, LoopReads
  <2> QED BY <1>1, <2>1, <2>2, <2>3
<1>3. CASE Scanning
  <2>1. /\ up /\ scan'.start = scan.start
        /\ UNCHANGED <<fs, clock, up, kq, pending, flying, out, loop, dirty>>
    BY <1>3, ScanningSteps
  <2>2. Seen'
    <3>1. \/ scan'.at \notin {"read", "apply"}
          \/ scan'.seen # Absent
          \/ scan.at = "read" /\ scan'.seen = scan.seen
      <4>1. CASE ScanLists \/ ScanApplies \/ ScanDeletesStale
        BY <1>0, <4>1 DEF ScanLists, ScanApplies, ScanDeletesStale, TypeOK, ScanStates
      <4>2. CASE ScanReads
        BY <1>0, <4>2 DEF ScanReads, TypeOK
      <4>3. ASSUME NEW p \in Paths, ScanVisits(p)
            PROVE  scan'.at \notin {"read", "apply"} \/ scan'.seen # Absent
        BY <1>0, <4>3 DEF ScanVisits, TypeOK
      <4> QED BY <1>3, <4>1, <4>2, <4>3 DEF Scanning
    <3> QED BY <1>1, <2>1, <3>1
  <2>3. RowsOK'
    <3>1. CASE UNCHANGED index
      BY <1>1, <2>1, <3>1
    <3>2. CASE ScanApplies \/ ScanDeletesStale
      <4>1. scan.at = "apply" => scan.seen \in Versions /\ scan.path \in Paths
        BY <1>0, <1>1 DEF TypeOK, ScanStates
      <4>2. \E rows : /\ Execute(rows)
                      /\ \/ \E p \in Paths, v \in Versions : rows = Upserted(p, v)
                         \/ rows = DeleteStaleFiles(scan.start)
        BY <3>2, <4>1 DEF ScanApplies, ScanDeletesStale
      <4>3. \A p \in Paths : RowOK(index'[p])
        BY <1>0, <4>2, Executing
      <4> QED BY <2>1, <4>3 DEF RowOK
    <3> QED BY <1>3, <3>1, <3>2 DEF Scanning, ScanLists, ScanVisits, ScanReads
  <2>4. Quiescent'
    BY <1>1, <2>1 DEF Empty
  <2> QED BY <1>1, <2>1, <2>2, <2>3, <2>4
<1>4. ASSUME NEW p \in Paths, Filesystem(p)
      PROVE  (scan.start <= clock)' /\ RowsOK' /\ Seen' /\ Quiescent'
  <2>1. PICK v \in Versions \cup {Absent}, bit \in Bits : Change(p, v, bit)
    BY <1>0, <1>4, Changing
  <2>2. /\ dirty' = TRUE /\ UNCHANGED <<clock, up, pending, flying, out, loop, scan, index>>
        /\ ~up => UNCHANGED kq
    BY <2>1 DEF Change, Enqueue, daemonVars
  <2> QED BY <1>1, <2>2 DEF Empty
<1>5. CASE Tick
  <2>1. clock' = clock + 1 /\ UNCHANGED <<up, kq, pending, flying, out, loop, scan, index, dirty>>
    BY <1>5 DEF Tick, daemonVars, watcherVars, history
  <2>2. scan.start \in Nat
    BY <1>0 DEF TypeOK, ScanStates
  <2> QED BY <1>0, <1>1, <2>1, <2>2 DEF Empty
<1>6. CASE Stop
  <2>1. /\ Empty' /\ scan'.at = "off" /\ scan'.start = 0 /\ UNCHANGED <<clock, index>>
        /\ loop'.at = "idle"
    BY <1>6 DEF Stop, Empty, Idle, ScanOff
  <2> QED BY <1>0, <1>1, <2>1
<1>7. CASE Start
  <2>1. /\ Empty /\ UNCHANGED <<kq, pending, flying, out, loop, index, clock>> /\ up' = TRUE
        /\ scan'.start = clock /\ scan'.at = "list"
    BY <1>1, <1>7 DEF Start, watcherVars, ScanOff
  <2> QED BY <1>0, <1>1, <2>1 DEF Empty
<1>8. CASE UNCHANGED vars
  <2>1. UNCHANGED <<clock, up, kq, pending, flying, out, loop, scan, index, dirty>>
    BY <1>8 DEF vars
  <2> QED BY <1>1, <2>1 DEF Empty
<1> QED BY <1>0, <1>2, <1>3, <1>4, <1>5, <1>6, <1>7, <1>8, StepIs DEF Pipeline, Scanning

-----------------------------------------------------------------------------
(***************************************************************************)
(* The startup scan                                                        *)
(***************************************************************************)

\* What a row becomes when the scan has found it, or drops what it has not.
LEMMA Refreshed ==
  ASSUME Sound, NEW v \in Versions, NEW p \in Paths, NEW q \in Paths
  PROVE  /\ q # p => Upserted(p, v)[q] = index[q]
         /\ LET r == Upserted(p, v)[p] IN r.ver = v /\ r.at >= scan.start /\ r # NoRow
<1>1. index \in [Paths -> Rows] /\ clock \in Nat /\ scan.start \in Nat /\ v # Absent
  BY DEF Sound, TypeOK, ScanStates, Versions, Absent
<1>2. clock >= scan.start
  BY <1>1 DEF Sound
<1>3. Upserted(p, v) = [index EXCEPT ![p] = [ver |-> v, at |-> clock]]
  BY DEF Upserted
<1>4. Upserted(p, v)[p] = [ver |-> v, at |-> clock]
  BY <1>1, <1>3
<1> QED BY <1>1, <1>2, <1>3, <1>4 DEF NoRow

LEMMA Dropped ==
  ASSUME Sound, NEW p \in Paths
  PROVE  LET r == DeleteStaleFiles(scan.start)[p] IN
         /\ Old(p) => r = NoRow
         /\ index[p].at >= scan.start => r = index[p]
<1>1. index[p].at \in Nat /\ scan.start \in Nat
  BY DEF Sound, TypeOK, ScanStates, Rows
<1>2. DeleteStaleFiles(scan.start)[p] = IF index[p].at < scan.start THEN NoRow ELSE index[p]
  BY DEF DeleteStaleFiles
<1> QED BY <1>1, <1>2 DEF Old

LEMMA ScanStep ==
  ASSUME Sound, ScanInv, [Next]_vars
  PROVE  ScanInv'
<1>0. /\ TypeOK /\ scan \in ScanStates /\ index \in [Paths -> Rows] /\ visited \subseteq Paths
      /\ scan.at \in {"read", "apply"} => scan.path \in Paths
      /\ \A p \in Paths : fs[p] \in Versions \cup {Absent}
  BY DEF Sound, TypeOK
<1> SUFFICES ASSUME ~dirty' PROVE ScanInv'
  BY DEF ScanInv
<1>1. ASSUME UNCHANGED <<fs, scan, index, dirty, visited, failed>> PROVE ScanInv'
  BY <1>1 DEF ScanInv, Old, Fresh, Consistent, Visiting, Walking
<1>2. CASE \E p \in Paths : Filesystem(p)
  BY <1>0, <1>2, Changing DEF Change
<1>3. CASE Pipeline
  BY <1>3, PipelineSteps
<1>4. CASE Tick \/ UNCHANGED vars
  BY <1>1, <1>4 DEF Tick, history, vars
<1>5. CASE Stop
  BY <1>5 DEF Stop, ScanOff, ScanInv, Walking
<1>6. CASE Start
  <2>1. /\ scan'.at = "list" /\ scan'.start = clock /\ index' = index /\ visited' = {}
        /\ failed' = {f \in {"clock"} : \E p \in Paths : index[p] # NoRow /\ index[p].at = clock}
    BY <1>6 DEF Start, ScanOff
  <2>2. failed' \subseteq {"dir"} => \A p \in Paths : Old(p)'
    <3>1. failed' \subseteq {"dir"} => \A p \in Paths : index[p] = NoRow \/ index[p].at # clock
      BY <2>1
    <3>2. \A p \in Paths : index[p].at \in Nat /\ index[p].at <= clock /\ clock \in Nat
      BY <1>0 DEF Sound, TypeOK, Rows
    <3> QED BY <2>1, <3>1, <3>2 DEF Old
  <2> QED BY <2>1, <2>2 DEF ScanInv, Walking
<1>7. ASSUME Scanning PROVE ScanInv'
  <2>0. /\ ~dirty /\ scan'.start = scan.start /\ UNCHANGED <<fs, dirty>>
    BY <1>7, ScanningSteps
  <2>1. /\ scan.at \in {"read", "apply"} => scan.seen = fs[scan.path]
        /\ failed \subseteq {"dir"} =>
             /\ scan.at = "list" => \A p \in Paths : Old(p)
             /\ Walking => \A p \in Paths :
                  \/ Fresh(p)
                  \/ Old(p) /\ (fs[p] = Absent \/ p \in scan.todo \/ Visiting(p) \/ "dir" \in failed)
        /\ "db" \notin failed =>
             /\ scan.at = "list" => visited = {}
             /\ Walking => \A p \in visited :
                  Visiting(p) \/ (index[p] # NoRow /\ index[p].at >= scan.start)
    BY <2>0 DEF ScanInv
  <2>2. CASE ScanLists
    <3>1. /\ scan.at = "list" /\ scan'.at = "walk" /\ UNCHANGED <<index, visited>>
          /\ \/ failed' = failed /\ scan'.todo = {p \in Paths : fs[p] # Absent}
             \/ failed' = failed \cup {"dir"}
      BY <1>0, <2>2 DEF ScanLists, ScanStates
    <3>2. \A p \in Paths : Old(p)' <=> Old(p)
      BY <2>0, <3>1 DEF Old
    <3> QED BY <2>0, <2>1, <3>1, <3>2 DEF ScanInv, Walking
  <2>3. ASSUME NEW p \in Paths, ScanVisits(p) PROVE ScanInv'
    <3>1. /\ scan.at = "walk" /\ UNCHANGED <<index, failed>>
          /\ scan'.todo = scan.todo \ {p} /\ scan'.path = p /\ scan'.seen = fs[p]
          /\ scan'.at = (IF fs[p] = Absent THEN "walk" ELSE "read")
          /\ visited' = (IF fs[p] = Absent THEN visited ELSE visited \cup {p})
      BY <1>0, <2>3 DEF ScanVisits, ScanStates
    <3>2. \A q \in Paths : (Old(q)' <=> Old(q)) /\ (Fresh(q)' <=> Fresh(q)) /\ ~Visiting(q)
      BY <2>0, <3>1 DEF Old, Fresh, Consistent, Visiting
    <3>3. fs[p] # Absent => Visiting(p)'
      BY <3>1 DEF Visiting
    <3>4. ASSUME failed' \subseteq {"dir"}, NEW q \in Paths
          PROVE  \/ Fresh(q)'
                 \/ Old(q)' /\ (fs'[q] = Absent \/ q \in scan'.todo \/ Visiting(q)' \/ "dir" \in failed')
      BY <2>0, <2>1, <3>1, <3>2, <3>3, <3>4 DEF Walking
    <3>5. ASSUME "db" \notin failed', NEW q \in visited'
          PROVE  Visiting(q)' \/ (index'[q] # NoRow /\ index'[q].at >= scan'.start)
      BY <1>0, <2>0, <2>1, <3>1, <3>2, <3>3, <3>5 DEF Walking
    <3> QED BY <2>0, <3>1, <3>4, <3>5 DEF ScanInv, Walking
  <2>4. CASE ScanReads
    <3>1. scan.at = "read" /\ scan.seen # Absent /\ scan.seen = fs[scan.path]
      BY <2>1, <2>4 DEF ScanReads, Sound
    <3>2. /\ scan'.at = "apply" /\ scan'.path = scan.path /\ scan'.seen = scan.seen
          /\ scan'.todo = scan.todo /\ UNCHANGED <<index, failed, visited>>
      BY <1>0, <2>4, <3>1 DEF ScanReads, ScanStates, history
    <3>3. \A q \in Paths : /\ Old(q)' <=> Old(q)
                           /\ Fresh(q)' <=> Fresh(q)
                           /\ Visiting(q)' <=> Visiting(q)
      BY <2>0, <3>1, <3>2 DEF Old, Fresh, Consistent, Visiting
    <3> QED BY <1>0, <2>0, <2>1, <3>1, <3>2, <3>3 DEF ScanInv, Walking
  <2>5. CASE ScanApplies
    <3> DEFINE p == scan.path
    <3>1. /\ scan.at = "apply" /\ p \in Paths /\ scan.seen = fs[p] /\ scan.seen \in Versions
          /\ scan'.at = "walk" /\ scan'.todo = scan.todo /\ visited' = visited
          /\ Execute(Upserted(p, scan.seen))
      BY <1>0, <2>1, <2>5 DEF ScanApplies, ScanStates, Sound
    <3> HIDE DEF p
    <3>2. CASE UNCHANGED index /\ failed' = failed \cup {"db"}
      BY <2>0, <3>1, <3>2 DEF ScanInv
    <3>3. CASE index' = Upserted(p, scan.seen) /\ UNCHANGED failed
      <4>1. /\ index'[p].ver = fs[p] /\ index'[p].at >= scan.start /\ index'[p] # NoRow
            /\ \A q \in Paths \ {p} : index'[q] = index[q]
        BY <3>1, <3>3, Refreshed
      <4>2. \A q \in Paths \ {p} : /\ Old(q)' <=> Old(q)
                                   /\ Fresh(q)' <=> Fresh(q)
                                   /\ ~Visiting(q)
        BY <2>0, <4>1 DEF Old, Fresh, Consistent, Visiting, p
      <4>3. \A q \in Paths : q = p => Fresh(q)'
        BY <2>0, <4>1 DEF Fresh, Consistent
      <4>4. ASSUME failed' \subseteq {"dir"}, NEW q \in Paths
            PROVE  Fresh(q)' \/ (Old(q)' /\ (fs'[q] = Absent \/ q \in scan'.todo \/ "dir" \in failed'))
        BY <2>0, <2>1, <3>1, <3>3, <4>2, <4>3, <4>4 DEF Walking
      <4>5. ASSUME "db" \notin failed', NEW q \in visited'
            PROVE  index'[q] # NoRow /\ index'[q].at >= scan'.start
        BY <1>0, <2>0, <2>1, <3>1, <3>3, <4>1, <4>2, <4>5 DEF Walking
      <4> QED BY <2>0, <3>1, <4>4, <4>5 DEF ScanInv, Walking
    <3> QED BY <3>1, <3>2, <3>3 DEF Execute
  <2>6. CASE ScanDeletesStale
    <3>1. /\ scan.at = "walk" /\ scan.todo = {} /\ scan'.at = "done" /\ visited' = visited
          /\ Execute(DeleteStaleFiles(scan.start))
      BY <1>0, <2>6 DEF ScanDeletesStale, ScanStates
    <3>2. CASE UNCHANGED index /\ failed' = failed \cup {"db"}
      BY <2>0, <3>1, <3>2 DEF ScanInv
    <3>3. CASE index' = DeleteStaleFiles(scan.start) /\ UNCHANGED failed
      <4>1. \A q \in Paths : /\ Old(q) => index'[q] = NoRow
                             /\ index[q].at >= scan.start => index'[q] = index[q]
        BY <3>3, Dropped
      <4>2. ASSUME failed \subseteq {"dir"}, NEW q \in Paths
            PROVE  Consistent(q)' \/ ("dir" \in failed /\ index'[q] = NoRow)
        <5>1. \/ Fresh(q)
              \/ Old(q) /\ (fs[q] = Absent \/ "dir" \in failed)
          BY <2>1, <3>1, <4>2 DEF Walking, Visiting
        <5>2. Fresh(q) => Consistent(q)'
          BY <2>0, <4>1 DEF Fresh, Consistent
        <5>3. Old(q) /\ fs[q] = Absent => Consistent(q)'
          BY <2>0, <4>1 DEF Consistent, NoRow
        <5> QED BY <4>1, <5>1, <5>2, <5>3
      <4>3. ASSUME "db" \notin failed, NEW q \in visited PROVE index'[q] # NoRow
        BY <1>0, <2>1, <3>1, <4>1, <4>3 DEF Walking, Visiting
      <4> QED BY <2>0, <3>1, <3>3, <4>2, <4>3 DEF ScanInv, Walking
    <3> QED BY <3>1, <3>2, <3>3 DEF Execute
  <2> QED BY <1>7, <2>2, <2>3, <2>4, <2>5, <2>6 DEF Scanning
<1> QED BY <1>2, <1>3, <1>4, <1>5, <1>6, <1>7, <1>0, StepIs DEF Pipeline, Scanning

LEMMA SoundAtFirst ==
  Init => Sound
<1> SUFFICES ASSUME Init PROVE Sound
  OBVIOUS
<1>1. /\ world \in Worlds /\ world.stops \in Nat /\ MaxChanges \in Nat /\ MaxClock \in Nat
  BY BoundsAssumption, WorldsAssumption DEF Init
<1>2. fs \in [Paths -> {Absent, 1}] /\ 1 \in Versions
  BY <1>1 DEF Init, Versions
<1>3. index \in [Paths -> Rows] /\ \A p \in Paths : index[p] = [ver |-> fs[p], at |-> 0]
  <2>1. \A p \in Paths : [ver |-> fs[p], at |-> 0] \in Rows
    BY <1>1, <1>2 DEF Rows
  <2> QED BY <2>1 DEF Init
<1>4. loop \in LoopStates /\ loop.at = "idle"
  BY DEF Init, Idle, LoopStates
<1>5. scan \in ScanStates /\ scan.at = "done" /\ scan.start = 0
  BY <1>1 DEF Init, ScanOff, ScanStates
<1>6. /\ kq \in [Paths -> Seq(SUBSET Bits)] /\ pending \in [Paths -> Kinds \cup {"none"}]
      /\ flying \in [Paths -> SUBSET Kinds] /\ out \in Seq([path : Paths, kind : Kinds])
  BY EmptySeq DEF Init
<1>7. TypeOK
  <2>1. /\ changes \in 0 .. MaxChanges /\ clock \in 0 .. MaxClock /\ up \in BOOLEAN
        /\ stops \in 0 .. world.stops /\ dirty \in BOOLEAN /\ visited \in SUBSET Paths
        /\ failed \subseteq {"dir", "db", "clock"} /\ lost \subseteq Paths
    <3>1. /\ changes = 0 /\ clock = 0 /\ up = TRUE /\ stops = 0 /\ dirty = FALSE
          /\ visited = {p \in Paths : fs[p] # Absent} /\ failed = {} /\ lost = {}
      BY DEF Init
    <3>2. 0 \in 0 .. MaxChanges /\ 0 \in 0 .. MaxClock /\ 0 \in 0 .. world.stops
      BY <1>1
    <3> QED BY <3>1, <3>2
  <2>2. fs \in [Paths -> Versions \cup {Absent}]
    BY <1>2
  <2> QED BY <1>1, <1>3, <1>4, <1>5, <1>6, <2>1, <2>2 DEF TypeOK
<1>8. Empty
  BY <1>4 DEF Empty, Init
<1> QED BY <1>3, <1>4, <1>5, <1>7, <1>8 DEF Sound, Init, NoRow

LEMMA Soundness == Spec => []Sound
<1>1. Sound /\ [Next]_vars => Sound'
  BY SoundStep
<1> QED BY <1>1, SoundAtFirst, PTL DEF Spec

LEMMA Scanned == Spec => [](Sound /\ ScanInv)
<1>1. Init => ScanInv
  <2> SUFFICES ASSUME Init PROVE ScanInv
    OBVIOUS
  <2>1. scan.at = "done" /\ \A p \in Paths : index[p] = [ver |-> fs[p], at |-> 0]
    BY DEF Init, ScanOff
  <2> QED BY <2>1 DEF Init, ScanInv, Walking, Consistent, NoRow
<1>2. Sound /\ ScanInv /\ [Next]_vars => ScanInv'
  BY ScanStep
<1> QED BY <1>1, <1>2, Soundness, PTL DEF Spec

\* After a startup scan during which nothing changed or failed, every row is
\* that of its file, whatever was missed before it (syncer.go: Run; index.go:
\* SyncFileApply, DeleteStaleFiles); a directory that could not be read costs
\* the rows of its files (walkEntry) and no more.
THEOREM Repaired == Spec => []ScanRepairs
<1>1. ScanInv => ScanRepairs
  BY DEF ScanInv, ScanRepairs, Quiet
<1> QED BY <1>1, Scanned, PTL

\* Of the files that did not change since it started, the scan drops the row
\* of none it found (syncer.go: Run, walkEntry; index.go: DeleteStaleFiles).
THEOREM FoundAreKept == Spec => []OnlyUnseenRemoved
<1>1. ScanInv => OnlyUnseenRemoved
  BY DEF ScanInv, OnlyUnseenRemoved
<1> QED BY <1>1, Scanned, PTL

-----------------------------------------------------------------------------
(***************************************************************************)
(* A running daemon                                                        *)
(***************************************************************************)

\* The newest event of p, if it is in the channel, was there before.
SameLast(p) ==
  \A i \in 1 .. Len(out') : Last(i, p)' => \E j \in 1 .. Len(out) : Last(j, p) /\ out[j] = out'[i]

LEMMA UnderwayKept ==
  ASSUME NEW p \in Paths, Underway(p), SameLast(p),
         fs'[p] = fs[p], kq'[p] = kq[p], pending'[p] = pending[p], flying'[p] = flying[p],
         p \in lost' <=> p \in lost
  PROVE  Underway(p)'
<1>1. /\ Unread(p)' <=> Unread(p)
      /\ Waiting(p)' <=> Waiting(p)
      /\ Taken(p)' <=> Taken(p)
      /\ Sent(p)' <=> Sent(p)
  BY DEF Unread, Waiting, Taken, Sent
<1>2. Sent(p)' => \A i \in 1 .. Len(out') : Last(i, p)' => (out'[i].kind = "Delete" <=> fs'[p] = Absent)
  BY <1>1 DEF Underway, SameLast, Fits
<1> QED BY <1>1, <1>2 DEF Underway, Fits

LEMMA ChannelKept ==
  ASSUME NEW p \in Paths, UNCHANGED out
  PROVE  SameLast(p)
BY DEF SameLast, Last

\* What Newest says of a path depends on what is in flight for it, on the
\* file and, once nothing else is in flight, on the loop and the row.
LEMMA NewestUnchanged ==
  ASSUME NEW p \in Paths, Newest(p), UNCHANGED out,
         fs'[p] = fs[p], kq'[p] = kq[p], pending'[p] = pending[p], flying'[p] = flying[p],
         p \in lost' <=> p \in lost,
         loop.at # "idle" /\ loop.path = p => UNCHANGED loop,
         ~(loop.at # "idle" /\ loop.path = p) =>
           /\ ~(loop'.at # "idle" /\ loop'.path = p)
           /\ index'[p] = index[p]
  PROVE  Newest(p)'
<1>1. Underway(p)'
  BY UnderwayKept, ChannelKept DEF Newest
<1>2. Handled(p)' <=> Handled(p)
  BY DEF Handled, Sent, Taken, Waiting, Unread
<1>3. Arrived(p) => Arrived(p)'
  BY DEF Arrived, LoopFits, Consistent
<1> QED BY <1>1, <1>2, <1>3 DEF Newest

\* The event is read, taken by its timer function and sent.
LEMMA ReadsNewest ==
  ASSUME Sound, NEW p \in Paths, Newest(p), ReadEvent(p)
  PROVE  Newest(p)'
<1> DEFINE s == kq[p]
<1>1. /\ s \in Seq(SUBSET Bits) /\ s # << >> /\ kq'[p] = Tail(s) /\ pending'[p] = Kind(Head(s))
      /\ fs' = fs
  BY DEF Sound, TypeOK, ReadEvent
<1>2. Fits(Kind(s[Len(s)]), p)
  BY <1>1 DEF Newest, Underway, Unread
<1>3. /\ Len(s) \in Nat \ {0} /\ Head(s) = s[1] /\ Len(Tail(s)) = Len(s) - 1
      /\ Len(s) > 1 => Tail(s)[Len(s) - 1] = s[Len(s)]
  BY <1>1
<1>4. \A k : Fits(k, p)' <=> Fits(k, p)
  BY <1>1 DEF Fits
<1> HIDE DEF s
<1>5. CASE Len(s) = 1
  <2>1. Kind(Head(s)) # "none"
    BY DEF Kind
  <2>2. Tail(s) = << >>
    BY <1>1, <1>3, <1>5
  <2>3. Waiting(p)' /\ Fits(pending[p], p)'
    BY <1>1, <1>2, <1>3, <1>4, <1>5, <2>1, <2>2 DEF Waiting, Unread, Fits
  <2> QED BY <2>3 DEF Newest, Underway, Waiting, Taken, Sent, Handled
<1>6. CASE Len(s) > 1
  <2>1. Tail(s) # << >>
    <3>1. Len(Tail(s)) # 0 /\ Len(<< >>) = 0
      BY <1>3, <1>6
    <3> QED BY <3>1
  <2>2. kq'[p][Len(kq'[p])] = s[Len(s)]
    <3>1. Len(kq'[p]) = Len(s) - 1
      BY <1>1, <1>3
    <3>2. kq'[p][Len(kq'[p])] = Tail(s)[Len(s) - 1]
      BY <1>1, <3>1
    <3> QED BY <1>3, <1>6, <3>2
  <2>3. Unread(p)' /\ Fits(Kind(kq[p][Len(kq[p])]), p)'
    BY <1>1, <1>2, <2>1, <2>2 DEF Unread, Fits
  <2> QED BY <2>3 DEF Newest, Underway, Waiting, Taken, Sent, Handled
<1> QED BY <1>3, <1>5, <1>6

LEMMA TakesNewest ==
  ASSUME Sound, NEW p \in Paths, Newest(p), TimerTakes(p), flying[p] = {}
  PROVE  Newest(p)' /\ flying'[p] = {pending[p]}
<1>1. /\ UNCHANGED <<fs, kq>> /\ pending[p] # "none" /\ pending'[p] = "none"
      /\ flying'[p] = {pending[p]}
  BY DEF Sound, TypeOK, TimerTakes
<1>2. \A k : Fits(k, p)' <=> Fits(k, p)
  BY <1>1 DEF Fits
<1>3. CASE Unread(p)
  BY <1>1, <1>2, <1>3 DEF Newest, Underway, Unread, Waiting, Taken, Sent, Handled, Fits
<1>4. CASE ~Unread(p)
  <2>1. Fits(pending[p], p)
    BY <1>1, <1>4 DEF Newest, Underway, Waiting
  <2>2. Taken(p)' /\ \A k \in flying'[p] : Fits(k, p)
    BY <1>1, <1>4, <2>1 DEF Taken, Unread, Waiting
  <2>3. \A k \in flying'[p] : Fits(k, p)'
    BY <1>1, <2>2 DEF Fits
  <2>4. ~Unread(p)' /\ ~Waiting(p)' /\ ~Sent(p)' /\ ~Handled(p)'
    BY <2>2 DEF Taken, Sent, Handled
  <2> QED BY <1>1, <2>3, <2>4 DEF Newest, Underway, Fits
<1> QED BY <1>1, <1>3, <1>4

LEMMA SendsNewest ==
  ASSUME Sound, NEW p \in Paths, NEW kind \in Kinds, TimerSends(p, kind),
         Newest(p), \A a, b \in flying[p] : a = b
  PROVE  Newest(p)' /\ flying'[p] = {}
<1>1. /\ UNCHANGED <<fs, kq, pending>> /\ flying[p] = {kind} /\ flying'[p] = {}
      /\ out \in Seq([path : Paths, kind : Kinds])
  <2>1. flying \in [Paths -> SUBSET Kinds] /\ kind \in flying[p]
        /\ flying' = [flying EXCEPT ![p] = @ \ {kind}]
    BY DEF Sound, TypeOK, TimerSends
  <2>2. flying[p] = {kind}
    BY <2>1
  <2> QED BY <2>1, <2>2 DEF Sound, TypeOK, TimerSends
<1>2. CASE Unread(p)
  <2>1. Unread(p)' /\ ~Waiting(p)' /\ ~Taken(p)' /\ ~Sent(p)' /\ ~Handled(p)'
    BY <1>1, <1>2 DEF Unread, Waiting, Taken, Sent, Handled
  <2>2. Fits(Kind(kq[p][Len(kq[p])]), p)'
    BY <1>1, <1>2 DEF Newest, Underway, Fits
  <2> QED BY <1>1, <2>1, <2>2 DEF Newest, Underway
<1>3. CASE ~Unread(p) /\ Waiting(p)
  <2>1. ~Unread(p)' /\ Waiting(p)' /\ ~Taken(p)' /\ ~Sent(p)' /\ ~Handled(p)'
    BY <1>1, <1>3 DEF Unread, Waiting, Taken, Sent, Handled
  <2>2. Fits(pending[p], p)'
    BY <1>1, <1>3 DEF Newest, Underway, Fits
  <2> QED BY <1>1, <2>1, <2>2 DEF Newest, Underway
<1>4. CASE ~Unread(p) /\ ~Waiting(p)
  <2>1. ~Unread(p)' /\ ~Waiting(p)' /\ ~Taken(p)'
    BY <1>1, <1>4 DEF Unread, Waiting, Taken
  <2>2. kind = "Delete" <=> fs'[p] = Absent
    BY <1>1, <1>4 DEF Newest, Underway, Taken, Fits
  <2>3. CASE out' = Append(out, [path |-> p, kind |-> kind])
    <3>1. Len(out') = Len(out) + 1 /\ out'[Len(out) + 1] = [path |-> p, kind |-> kind] /\ Len(out) \in Nat
      BY <1>1, <2>3
    <3>2. ~Handled(p)'
      BY <3>1 DEF Handled
    <3>3. \A i \in 1 .. Len(out') : Last(i, p)' => i = Len(out) + 1
      BY <3>1 DEF Last
    <3>4. Underway(p)'
      BY <2>1, <2>2, <3>1, <3>3 DEF Underway, Fits
    <3> QED BY <1>1, <3>2, <3>4 DEF Newest
  <2>4. CASE lost' = lost \cup {p}
    BY <1>1, <2>1, <2>4 DEF Newest, Underway, Sent, Handled
  <2> QED BY <1>4, <2>3, <2>4 DEF TimerSends, Unread, Waiting
<1> QED BY <1>2, <1>3, <1>4

\* What is appended for another file, or received, leaves the newest event.
LEMMA SentForOther ==
  ASSUME Sound, NEW p \in Paths, NEW q \in Paths \ {p}, NEW kind \in Kinds, TimerSends(p, kind)
  PROVE  /\ SameLast(q)
         /\ (\A i \in 1 .. Len(out') : out'[i].path # q) => \A i \in 1 .. Len(out) : out[i].path # q
<1>1. out \in Seq([path : Paths, kind : Kinds])
  BY DEF Sound, TypeOK
<1>2. CASE UNCHANGED out
  BY <1>2, ChannelKept
<1>3. CASE out' = Append(out, [path |-> p, kind |-> kind])
  <2>1. /\ Len(out') = Len(out) + 1 /\ Len(out) \in Nat /\ out'[Len(out) + 1].path = p
        /\ \A i \in 1 .. Len(out) : out'[i] = out[i]
    BY <1>1, <1>3
  <2>2. ASSUME NEW i \in 1 .. Len(out'), Last(i, q)'
        PROVE  i \in 1 .. Len(out) /\ Last(i, q) /\ out[i] = out'[i]
    BY <2>1, <2>2 DEF Last
  <2> QED BY <2>1, <2>2 DEF SameLast
<1> QED BY <1>2, <1>3 DEF TimerSends

LEMMA Received ==
  ASSUME Sound, LoopReceives
  PROVE  /\ out # << >> /\ Len(out) >= 1 /\ out[1].path \in Paths
         /\ loop' = [at |-> IF out[1].kind = "Delete" THEN "delete" ELSE "stat",
                     path |-> out[1].path, seen |-> Absent]
         /\ Len(out') = Len(out) - 1 /\ \A i \in 1 .. Len(out') : out'[i] = out[i + 1]
         /\ \A p \in Paths : SameLast(p)
<1>1. out \in Seq([path : Paths, kind : Kinds]) /\ out # << >> /\ out' = Tail(out)
  BY DEF Sound, TypeOK, LoopReceives
<1>2. /\ Len(out) \in Nat \ {0} /\ Head(out) = out[1] /\ Len(out') = Len(out) - 1
      /\ \A i \in 1 .. Len(out') : out'[i] = out[i + 1]
  BY <1>1
<1>3. ASSUME NEW p \in Paths, NEW i \in 1 .. Len(out'), Last(i, p)'
      PROVE  Last(i + 1, p)
  <2>1. out[i + 1].path = p /\ i + 1 \in 1 .. Len(out)
    BY <1>2, <1>3 DEF Last
  <2>2. ASSUME NEW k \in 1 .. Len(out), out[k].path = p PROVE k <= i + 1
    <3>1. CASE k = 1
      BY <1>2, <3>1
    <3>2. CASE k # 1
      <4>1. k - 1 \in 1 .. Len(out') /\ out'[k - 1] = out[k]
        BY <1>2, <3>2
      <4>2. k - 1 <= i
        BY <1>3, <2>2, <4>1 DEF Last
      <4> QED BY <1>2, <4>2
    <3> QED BY <3>1, <3>2
  <2> QED BY <2>1, <2>2 DEF Last
<1>4. ASSUME NEW p \in Paths PROVE SameLast(p)
  <2>1. ASSUME NEW i \in 1 .. Len(out'), Last(i, p)'
        PROVE  i + 1 \in 1 .. Len(out) /\ Last(i + 1, p) /\ out[i + 1] = out'[i]
    BY <1>2, <1>3, <2>1
  <2> QED BY <2>1 DEF SameLast
<1>5. out[1] \in [path : Paths, kind : Kinds]
  <2>1. 1 \in 1 .. Len(out)
    BY <1>2
  <2> QED BY <1>1, <2>1, ElementOfSeq
<1> QED BY <1>1, <1>2, <1>4, <1>5 DEF LoopReceives

LEMMA ReceivesNewest ==
  ASSUME Sound, LoopReceives, NEW p \in Paths, Newest(p)
  PROVE  Newest(p)'
<1>1. UNCHANGED <<fs, kq, pending, flying, index, lost>> /\ loop.at = "idle"
  BY DEF LoopReceives, history
<1>2. Underway(p)'
  BY <1>1, UnderwayKept, Received DEF Newest
<1>3. Sent(p)' <=> Sent(p)
  BY <1>1 DEF Sent, Taken, Waiting, Unread
<1>4. ASSUME Handled(p)' PROVE Arrived(p)'
  <2>1. \A i \in 2 .. Len(out) : out[i].path # p
    <3>1. ASSUME NEW i \in 2 .. Len(out) PROVE out[i].path # p
      <4>1. i - 1 \in 1 .. Len(out') /\ out'[i - 1] = out[i]
        BY Received
      <4> QED BY <1>4, <4>1 DEF Handled
    <3> QED BY <3>1
  <2>2. CASE out[1].path = p
    <3>1. Last(1, p) /\ 1 \in 1 .. Len(out)
      BY <2>1, <2>2, Received DEF Last
    <3>2. out[1].kind = "Delete" <=> fs[p] = Absent
      BY <1>3, <1>4, <3>1 DEF Handled, Newest, Underway, Fits
    <3>3. loop'.path = p /\ loop'.at = (IF out[1].kind = "Delete" THEN "delete" ELSE "stat")
      BY <2>2, Received
    <3> QED BY <1>1, <3>2, <3>3 DEF Arrived, LoopFits
  <2>3. CASE out[1].path # p
    <3>1. Handled(p)
      BY <1>3, <1>4, <2>1, <2>3, Received DEF Handled
    <3>2. Consistent(p)
      BY <1>1, <3>1 DEF Newest, Arrived
    <3> QED BY <1>1, <2>3, <3>2, Received DEF Arrived, Consistent
  <2> QED BY <2>2, <2>3
<1> QED BY <1>2, <1>4 DEF Newest

LEMMA LoopNewest ==
  ASSUME Sound, world.faults = {}, LoopDeletes \/ LoopStats \/ LoopReads \/ LoopApplies,
         NEW p \in Paths, Newest(p)
  PROVE  Newest(p)'
<1>1. /\ UNCHANGED <<fs, kq, pending, flying, out, lost>> /\ loop.at # "idle" /\ loop.path \in Paths
      /\ index \in [Paths -> Rows] /\ loop \in LoopStates
  BY DEF Sound, TypeOK, LoopDeletes, LoopStats, LoopReads, LoopApplies, watcherVars, history
<1>2. Underway(p)'
  BY <1>1, UnderwayKept, ChannelKept DEF Newest
<1>3. Handled(p)' <=> Handled(p)
  BY <1>1 DEF Handled, Sent, Taken, Waiting, Unread
<1>4. loop'.at = "idle" \/ loop'.path = loop.path
  <2>1. \/ loop' = Idle
        \/ loop' = [loop EXCEPT !.at = "read", !.seen = fs[loop.path]]
        \/ loop' = [loop EXCEPT !.at = "apply"]
    BY DEF LoopDeletes, LoopStats, LoopReads, LoopApplies
  <2>2. Idle.at = "idle"
    BY DEF Idle
  <2> QED BY <1>1, <2>1, <2>2 DEF LoopStates
<1>5. index' = (IF loop.at = "delete" THEN DeleteFile(loop.path)
                ELSE IF loop.at = "apply" THEN Upserted(loop.path, loop.seen) ELSE index)
  BY DEF LoopDeletes, LoopStats, LoopReads, LoopApplies, Execute
<1>6. CASE loop.path # p
  <2>1. index'[p] = index[p]
    BY <1>1, <1>5, <1>6 DEF DeleteFile, Upserted
  <2> QED BY <1>1, <1>2, <1>3, <1>4, <1>6, <2>1 DEF Newest, Arrived, Consistent
<1>7. ASSUME loop.path = p, LoopFits PROVE Arrived(p)'
  <2>1. CASE LoopDeletes
    <3>1. loop'.at = "idle" /\ fs[p] = Absent /\ loop.at = "delete"
      BY <1>7, <2>1 DEF LoopDeletes, LoopFits, Idle
    <3>2. index'[p] = NoRow
      BY <1>1, <1>5, <1>7, <3>1 DEF DeleteFile
    <3> QED BY <1>1, <3>1, <3>2 DEF Arrived, Consistent, NoRow
  <2>2. CASE LoopStats
    <3>1. loop' = [loop EXCEPT !.at = "read", !.seen = fs[p]]
      BY <1>7, <2>2 DEF LoopStats, LoopFits
    <3>2. loop'.at = "read" /\ loop'.seen = fs[p] /\ loop'.path = p
      BY <1>1, <1>7, <3>1 DEF LoopStates
    <3> QED BY <1>1, <3>2 DEF Arrived, LoopFits
  <2>3. CASE LoopReads
    <3>1. loop.seen = fs[p] /\ loop.seen # Absent
      BY <1>7, <2>3 DEF LoopReads, LoopFits, Sound
    <3>2. loop'.at = "apply" /\ loop'.seen = fs[p] /\ loop'.path = p
      BY <1>1, <1>7, <2>3, <3>1 DEF LoopReads, LoopStates
    <3> QED BY <1>1, <3>2 DEF Arrived, LoopFits
  <2>4. CASE LoopApplies
    <3>1. loop'.at = "idle" /\ loop.seen = fs[p] /\ loop.at = "apply"
      BY <1>7, <2>4 DEF LoopApplies, LoopFits, Idle
    <3>2. index'[p].ver = fs[p]
      BY <1>1, <1>5, <1>7, <3>1 DEF Upserted
    <3> QED BY <1>1, <3>1, <3>2 DEF Arrived, Consistent
  <2> QED BY <2>1, <2>2, <2>3, <2>4
<1> QED BY <1>1, <1>2, <1>3, <1>6, <1>7 DEF Newest, Arrived

\* A change is queued behind what is queued; it is the newest event.
LEMMA ChangeNewest ==
  ASSUME Sound, world.faults = {}, up, NEW p \in Paths, Filesystem(p),
         NEW q \in Paths, Newest(q)
  PROVE  Newest(q)' /\ flying' = flying
<1>1. PICK v \in Versions \cup {Absent}, bit \in Bits :
        Change(p, v, bit) /\ (v = Absent <=> Kind({bit}) = "Delete")
  BY Changing DEF Sound
<1>2. /\ kq \in [Paths -> Seq(SUBSET Bits)] /\ kq' = [kq EXCEPT ![p] = Append(@, {bit})]
      /\ fs \in [Paths -> Versions \cup {Absent}] /\ fs' = [fs EXCEPT ![p] = v]
      /\ lost' = lost \ {p} /\ UNCHANGED <<pending, flying, out, loop, index>>
  BY <1>1 DEF Sound, TypeOK, Change, Enqueue
<1>3. CASE q = p
  <2> DEFINE s == kq[p]
  <2>1. /\ kq'[p] = Append(s, {bit}) /\ fs'[p] = v
        /\ s \in Seq(SUBSET Bits) /\ {bit} \in SUBSET Bits
    BY <1>2
  <2>2. Len(Append(s, {bit})) = Len(s) + 1 /\ Append(s, {bit})[Len(s) + 1] = {bit}
    BY <2>1
  <2>3. Append(s, {bit}) # << >>
    BY <2>1, AppendProperties
  <2>4. kq'[p][Len(kq'[p])] = {bit} /\ kq'[p] # << >>
    BY <2>1, <2>2, <2>3
  <2>5. Unread(p)' /\ Fits(Kind(kq[p][Len(kq[p])]), p)'
    BY <1>1, <2>1, <2>4 DEF Unread, Fits
  <2>6. ~Waiting(p)' /\ ~Taken(p)' /\ ~Sent(p)' /\ ~Handled(p)'
    BY <2>5 DEF Waiting, Taken, Sent, Handled
  <2> QED BY <1>2, <1>3, <2>5, <2>6 DEF Newest, Underway
<1>4. CASE q # p
  BY <1>2, <1>4, NewestUnchanged
<1> QED BY <1>3, <1>4

LEMMA InOrderStep ==
  ASSUME Sound, InOrder, [Next]_vars
  PROVE  InOrder'
<1> SUFFICES ASSUME stops' = 0, world'.faults = {} PROVE InOrder'
  BY DEF InOrder
<1>1. world' = world /\ stops \in Nat /\ (stops' = stops \/ stops' = stops + 1)
  <2>1. world' = world /\ stops \in Nat
    BY StepIs, WorldsAssumption DEF Sound, TypeOK
  <2>2. CASE \E p \in Paths : Filesystem(p)
    BY <2>1, <2>2, Changing DEF Sound, Change, daemonVars
  <2>3. CASE Pipeline \/ Scanning
    BY <2>1, <2>3, PipelineSteps, ScanningSteps
  <2>4. CASE Tick \/ Stop \/ Start \/ UNCHANGED vars
    BY <2>1, <2>4 DEF Tick, Stop, Start, vars, daemonVars
  <2> QED BY <2>2, <2>3, <2>4, StepIs DEF Sound, Pipeline, Scanning
<1>2. stops = 0 /\ world.faults = {}
  BY <1>1
<1>3. /\ up /\ scan.at = "done"
      /\ \A p \in Paths : Newest(p) /\ \A a, b \in flying[p] : a = b
  BY <1>2 DEF InOrder
<1> SUFFICES /\ up' /\ scan'.at = "done"
             /\ \A p \in Paths : Newest(p)' /\ \A a, b \in flying'[p] : a = b
  BY DEF InOrder
<1>4. CASE \E p \in Paths : Filesystem(p)
  <2>1. PICK p \in Paths : Filesystem(p)
    BY <1>4
  <2>2. UNCHANGED <<up, scan>>
    BY <2>1, Changing DEF Sound, Change, daemonVars
  <2> QED BY <1>2, <1>3, <2>1, <2>2, ChangeNewest
<1>5. CASE Tick \/ UNCHANGED vars
  <2>1. UNCHANGED <<fs, up, kq, pending, flying, out, loop, scan, index, lost>>
    BY <1>5 DEF Tick, daemonVars, watcherVars, history, vars
  <2>2. \A p \in Paths : Newest(p)'
    BY <1>3, <2>1, NewestUnchanged
  <2> QED BY <1>3, <2>1, <2>2
<1>6. ASSUME NEW p \in Paths, ReadEvent(p) PROVE \A q \in Paths : Newest(q)' /\ flying'[q] = flying[q]
  <2>1. /\ UNCHANGED <<fs, flying, out, loop, index, lost>>
        /\ \A q \in Paths \ {p} : kq'[q] = kq[q] /\ pending'[q] = pending[q]
    BY <1>6 DEF Sound, TypeOK, ReadEvent, history
  <2>2. \A q \in Paths \ {p} : Newest(q)'
    BY <1>3, <2>1, NewestUnchanged
  <2> QED BY <1>3, <1>6, <2>1, <2>2, ReadsNewest
<1>7. ASSUME NEW p \in Paths, TimerTakes(p)
      PROVE  \A q \in Paths : Newest(q)' /\ (flying'[q] = flying[q] \/ flying'[q] = {pending[q]})
  <2>1. /\ UNCHANGED <<fs, kq, out, loop, index, lost>> /\ flying[p] = {}
        /\ \A q \in Paths \ {p} : pending'[q] = pending[q] /\ flying'[q] = flying[q]
    BY <1>2, <1>7 DEF Sound, TypeOK, TimerTakes, history
  <2>2. \A q \in Paths \ {p} : Newest(q)'
    BY <1>3, <2>1, NewestUnchanged
  <2> QED BY <1>3, <1>7, <2>1, <2>2, TakesNewest
<1>8. ASSUME NEW p \in Paths, NEW kind \in Kinds, TimerSends(p, kind)
      PROVE  \A q \in Paths : Newest(q)' /\ (flying'[q] = flying[q] \/ flying'[q] = {})
  <2>1. /\ UNCHANGED <<fs, kq, pending, loop, index>>
        /\ \A q \in Paths \ {p} : flying'[q] = flying[q] /\ (q \in lost' <=> q \in lost)
    BY <1>8 DEF Sound, TypeOK, TimerSends
  <2>2. ASSUME NEW q \in Paths \ {p} PROVE Newest(q)'
    <3>1. Underway(q)'
      BY <1>3, <1>8, <2>1, SentForOther, UnderwayKept DEF Newest
    <3>2. Sent(q)' <=> Sent(q)
      BY <2>1 DEF Sent, Taken, Waiting, Unread
    <3>3. Handled(q)' => Handled(q)
      BY <1>8, <3>2, SentForOther DEF Handled
    <3>4. Arrived(q)' <=> Arrived(q)
      BY <2>1 DEF Arrived, LoopFits, Consistent
    <3> QED BY <1>3, <3>1, <3>3, <3>4 DEF Newest
  <2> QED BY <1>3, <1>8, <2>1, <2>2, SendsNewest
<1>9. CASE LoopReceives
  <2>1. UNCHANGED <<up, scan, flying>>
    BY <1>9 DEF LoopReceives, daemonVars
  <2>2. \A p \in Paths : Newest(p)'
    BY <1>3, <1>9, ReceivesNewest
  <2> QED BY <1>3, <2>1, <2>2
<1>10. CASE LoopDeletes \/ LoopStats \/ LoopReads \/ LoopApplies
  <2>1. UNCHANGED <<up, scan, flying>>
    BY <1>10 DEF LoopDeletes, LoopStats, LoopReads, LoopApplies, daemonVars, watcherVars
  <2>2. \A p \in Paths : Newest(p)'
    BY <1>2, <1>3, <1>10, LoopNewest
  <2> QED BY <1>3, <2>1, <2>2
<1>11. CASE Pipeline
  <2>1. UNCHANGED <<up, scan>>
    BY <1>11, PipelineSteps
  <2>2. \A p \in Paths : Newest(p)' /\ \A a, b \in flying'[p] : a = b
    BY <1>3, <1>6, <1>7, <1>8, <1>9, <1>10, <1>11 DEF Pipeline
  <2> QED BY <1>3, <2>1, <2>2
<1>12. ~Scanning
  BY <1>3, ScanningSteps
<1>13. ~Stop /\ ~Start
  BY <1>2, <1>3 DEF Stop, Start
<1> QED BY <1>4, <1>5, <1>11, <1>12, <1>13, StepIs DEF Sound, Pipeline, Scanning

\* In a daemon that has not stopped, the row of a file is right as soon as no
\* event for it is in flight, unless its newest event was dropped at a full
\* channel (watcher.go: debounce, the timer function; daemon.go:
\* handleFSEvent): an older event, or one whose file changed between the
\* loop's reads, is always followed by a newer one.
THEOREM UpToDate == Spec => []SettledConsistent
<1>1. Init => InOrder
  <2> SUFFICES ASSUME Init, NEW p \in Paths PROVE Newest(p) /\ \A a, b \in flying[p] : a = b
    BY DEF Init, InOrder, ScanOff
  <2>1. /\ kq[p] = << >> /\ pending[p] = "none" /\ flying[p] = {} /\ out = << >>
        /\ loop.at = "idle" /\ index[p] = [ver |-> fs[p], at |-> 0]
    BY DEF Init, Idle
  <2>2. Len(out) = 0
    BY <2>1
  <2>3. Underway(p)
    BY <2>1, <2>2 DEF Underway, Unread, Waiting, Taken
  <2>4. Arrived(p)
    BY <2>1 DEF Arrived, Consistent
  <2> QED BY <2>1, <2>3, <2>4 DEF Newest
<1>2. Sound /\ InOrder /\ [Next]_vars => InOrder'
  BY InOrderStep
<1>3. InOrder => SettledConsistent
  <2> SUFFICES ASSUME InOrder, stops = 0, world.faults = {}, NEW p \in Paths \ lost, Settled(p)
               PROVE  Consistent(p)
    BY DEF SettledConsistent
  <2>1. Newest(p)
    BY DEF InOrder
  <2>2. Handled(p) /\ ~(loop.at # "idle" /\ loop.path = p)
    BY DEF Settled, Handled, Sent, Taken, Waiting, Unread
  <2> QED BY <2>1, <2>2 DEF Newest, Arrived
<1> QED BY <1>1, <1>2, <1>3, Soundness, PTL DEF Spec
=============================================================================
