----------------------------- MODULE FileIndex -----------------------------
(***************************************************************************)
(* How the index follows the filesystem: kernel event queue, watcher,      *)
(* event loop (daemon.go: runEventLoop, handleFSEvent), the startup scan   *)
(* (syncer.go: Run, walkEntry, SyncFile) and the file rows of the index    *)
(* (index.go: SyncFileApply, DeleteFile, DeleteStaleFiles).                *)
(*                                                                         *)
(* A file is the version of what a row of the files table records of it    *)
(* (inode, mtime, size); a row is the version it was synced from and its   *)
(* indexed_at in seconds.  The debouncer appears as what it promises       *)
(* (EventStream): per path, the newest event replaces the pending one.     *)
(* The tags of a row, and ProcessFile, which neither adds nor removes a    *)
(* row, are the subject of TagFlow.                                        *)
(***************************************************************************)
EXTENDS Naturals, Sequences, FiniteSets

CONSTANTS
  Paths,       \* files below the watch root
  MaxChanges,  \* bound on the changes made to files
  MaxClock,    \* bound on the seconds that pass
  Worlds       \* what may happen, one of these for each behaviour

AllFaults ==
  {"merge",       \* fanotify merges queued events for the same name
   "reorder",     \* a timer function is delayed between unlock and send
   "sameSecond",  \* the daemon is back within the second of its last write
   "walkError",   \* the walk cannot read the directory
   "dbError"}     \* a statement on the database may fail (SQLITE_BUSY)

(* A world: the files that change, how often they do, the seconds that     *)
(* pass, how often the daemon stops, the capacity of the events channel    *)
(* (outChanBuf), what the environment may do.                              *)
ASSUME BoundsAssumption == MaxChanges \in Nat /\ MaxClock \in Nat
ASSUME WorldsAssumption ==
  Worlds \subseteq [paths : SUBSET Paths, changes : 0 .. MaxChanges,
                   clock : 0 .. MaxClock, stops : Nat, cap : Nat,
                   faults : SUBSET AllFaults]

Bits == {"CREATE", "CLOSE_WRITE", "DELETE", "MOVED_FROM", "MOVED_TO"}
Kinds == {"Create", "Modify", "Delete"}
Versions == 1 .. MaxChanges + 1
Absent == 0
NoRow == [ver |-> Absent, at |-> 0]

VARIABLES
  world,    \* the world of this behaviour
  fs,       \* version of each file, Absent when it does not exist
  changes,  \* changes made so far
  clock,    \* time.Now().Unix()
  up,       \* the daemon is running
  stops,    \* times it has stopped
  kq,       \* per path, the masks of the kernel's queued events, in order
  pending,  \* per path, the kind of the debounced event, or "none"
  flying,   \* per path, kinds whose timer function has yet to send
  out,      \* the events channel
  loop,     \* handleFSEvent: where it is, its path, what stat returned
  scan,     \* Syncer.Run: where it is, its path, what stat returned, the
            \* entries to visit, startTime
  index,    \* rows of the files table
  dirty,    \* history: a file changed since the scan started
  visited,  \* history: files the current scan found
  failed,   \* history: what failed since the scan started
  lost      \* history: files whose newest event was dropped at a full channel

vars == <<world, fs, changes, clock, up, stops, kq, pending, flying, out, loop, scan,
          index, dirty, visited, failed, lost>>

history == <<dirty, visited, failed, lost>>
watcherVars == <<kq, pending, flying, out>>
daemonVars == <<up, stops>>

AnyPath == CHOOSE p \in Paths : TRUE
Idle == [at |-> "idle", path |-> AnyPath, seen |-> Absent]
ScanOff == [at |-> "off", path |-> AnyPath, seen |-> Absent, todo |-> {}, start |-> 0]

LoopStates == [at : {"idle", "stat", "read", "apply", "delete"},
               path : Paths \cup {AnyPath}, seen : Versions \cup {Absent}]
ScanStates == [at : {"off", "list", "walk", "read", "apply", "done"},
               path : Paths \cup {AnyPath}, seen : Versions \cup {Absent},
               todo : SUBSET Paths, start : 0 .. MaxClock]
Rows == [ver : Versions \cup {Absent}, at : 0 .. MaxClock]

TypeOK ==
  /\ world \in Worlds
  /\ fs \in [Paths -> Versions \cup {Absent}]
  /\ changes \in 0 .. MaxChanges /\ clock \in 0 .. MaxClock
  /\ up \in BOOLEAN /\ stops \in 0 .. world.stops
  /\ kq \in [Paths -> Seq(SUBSET Bits)]
  /\ pending \in [Paths -> Kinds \cup {"none"}]
  /\ flying \in [Paths -> SUBSET Kinds]
  /\ out \in Seq([path : Paths, kind : Kinds])
  /\ loop \in LoopStates /\ (loop.at # "idle" => loop.path \in Paths)
  /\ scan \in ScanStates /\ (scan.at \in {"read", "apply"} => scan.path \in Paths)
  /\ index \in [Paths -> Rows]
  /\ dirty \in BOOLEAN /\ visited \in SUBSET Paths /\ failed \subseteq {"dir", "db", "clock"}
  /\ lost \subseteq Paths

(* A daemon that has scanned and is idle, over any set of files.           *)
Init ==
  /\ world \in Worlds
  /\ fs \in [Paths -> {Absent, 1}]
  /\ \A p \in Paths \ world.paths : fs[p] = Absent
  /\ index = [p \in Paths |-> [ver |-> fs[p], at |-> 0]]
  /\ changes = 0 /\ clock = 0 /\ up = TRUE /\ stops = 0
  /\ kq = [p \in Paths |-> << >>]
  /\ pending = [p \in Paths |-> "none"]
  /\ flying = [p \in Paths |-> {}]
  /\ out = << >>
  /\ loop = Idle /\ scan = [ScanOff EXCEPT !.at = "done"]
  /\ dirty = FALSE /\ visited = {p \in Paths : fs[p] # Absent} /\ failed = {}
  /\ lost = {}

-----------------------------------------------------------------------------
(***************************************************************************)
(* Files change (external): users and programs, the kernel's event queue   *)
(***************************************************************************)

(* An event is queued while the daemon listens.  The kernel may merge it   *)
(* into the queued event for the same name.                                *)
Enqueue(p, bit) ==
  \/ ~up /\ UNCHANGED kq
  \/ up /\ kq' = [kq EXCEPT ![p] = Append(@, {bit})]
  \/ /\ up /\ "merge" \in world.faults /\ kq[p] # << >>
     /\ kq' = [kq EXCEPT ![p][Len(kq[p])] = @ \cup {bit}]

Change(p, version, bit) ==
  /\ changes < world.changes
  /\ changes' = changes + 1
  /\ fs' = [fs EXCEPT ![p] = version]
  /\ Enqueue(p, bit)
  /\ dirty' = TRUE /\ lost' = lost \ {p}
  /\ UNCHANGED <<clock, daemonVars, pending, flying, out, loop, scan, index,
                 visited, failed>>

NewVersion == changes + 2

FileCreated(p) == fs[p] = Absent /\ Change(p, NewVersion, "CREATE")
FileWritten(p) == fs[p] # Absent /\ Change(p, NewVersion, "CLOSE_WRITE")
FileDeleted(p) == fs[p] # Absent /\ Change(p, Absent, "DELETE")
FileMovedOut(p) == fs[p] # Absent /\ Change(p, Absent, "MOVED_FROM")
FileMovedIn(p) == Change(p, NewVersion, "MOVED_TO")

Tick ==
  /\ clock < world.clock /\ clock' = clock + 1
  /\ UNCHANGED <<fs, changes, daemonVars, watcherVars, loop, scan, index,
                 history>>

-----------------------------------------------------------------------------
(***************************************************************************)
(* Watcher                                                                 *)
(***************************************************************************)

KindIgnoresMoves(mask) ==
  IF mask \cap {"CREATE", "MOVED_TO"} # {} THEN "Create"
  ELSE IF "DELETE" \in mask THEN "Delete" ELSE "Modify"

(* The switch of handleMetaFID over the bits of a mask; the one of         *)
(* processEvents agrees with it on the single bits inotify delivers.       *)
Kind(mask) ==
  IF "MOVED_FROM" \in mask THEN "Delete"
  ELSE IF mask \cap {"MOVED_TO", "CREATE"} # {} THEN "Create"
  ELSE IF "DELETE" \in mask THEN "Delete"
  ELSE "Modify"

(* Run reads an event and hands it to debounce, which replaces the pending *)
(* event for the path.                                                     *)
ReadEvent(p) ==
  /\ up /\ kq[p] # << >>
  /\ pending' = [pending EXCEPT ![p] = Kind(Head(kq[p]))]
  /\ kq' = [kq EXCEPT ![p] = Tail(@)]
  /\ UNCHANGED <<fs, changes, clock, daemonVars, flying, out, loop, scan,
                 index, history>>

(* The timer function takes the pending event under the mutex.  Two of     *)
(* them overlap for one path only if the first is delayed for longer than  *)
(* debounceDelay.  (At most one of each kind is kept in flight.)           *)
TimerTakes(p) ==
  /\ up /\ pending[p] # "none" /\ pending[p] \notin flying[p]
  /\ flying[p] = {} \/ "reorder" \in world.faults
  /\ flying' = [flying EXCEPT ![p] = @ \cup {pending[p]}]
  /\ pending' = [pending EXCEPT ![p] = "none"]
  /\ UNCHANGED <<fs, changes, clock, daemonVars, kq, out, loop, scan, index,
                 history>>

(* The select that sends, or drops the event when the channel is full.     *)
TimerSends(p, kind) ==
  /\ up /\ kind \in flying[p]
  /\ flying' = [flying EXCEPT ![p] = @ \ {kind}]
  /\ \/ /\ Len(out) < world.cap /\ out' = Append(out, [path |-> p, kind |-> kind])
        /\ UNCHANGED lost
     \/ /\ Len(out) >= world.cap /\ UNCHANGED out
        /\ lost' = IF kq[p] = << >> /\ pending[p] = "none" THEN lost \cup {p} ELSE lost
  /\ UNCHANGED <<fs, changes, clock, daemonVars, kq, pending, loop, scan,
                 index, dirty, visited, failed>>

-----------------------------------------------------------------------------
(***************************************************************************)
(* Index                                                                   *)
(***************************************************************************)

(* A statement or transaction: it changes the rows, or fails and leaves    *)
(* them; every caller here logs the error and goes on.                     *)
Execute(rows) ==
  \/ index' = rows /\ UNCHANGED failed
  \/ "dbError" \in world.faults /\ UNCHANGED index /\ failed' = failed \cup {"db"}

(* SyncFileApply: the upsert stamps the row with the current second.       *)
Upserted(p, version) == [index EXCEPT ![p] = [ver |-> version, at |-> clock]]

DeleteFile(p) == [index EXCEPT ![p] = NoRow]

DeleteStaleLate(since) ==
  [p \in Paths |-> IF index[p].at <= since THEN NoRow ELSE index[p]]

DeleteStaleEarly(since) ==
  [p \in Paths |-> IF index[p].at + 1 < since THEN NoRow ELSE index[p]]

(* DeleteStaleFiles: indexed_at < since, strictly.                         *)
DeleteStaleFiles(since) ==
  [p \in Paths |-> IF index[p].at < since THEN NoRow ELSE index[p]]

-----------------------------------------------------------------------------
(***************************************************************************)
(* Event loop                                                              *)
(***************************************************************************)

LoopReceives ==
  /\ up /\ loop.at = "idle" /\ out # << >>
  /\ out' = Tail(out)
  /\ loop' = [at |-> IF Head(out).kind = "Delete" THEN "delete" ELSE "stat",
              path |-> Head(out).path, seen |-> Absent]
  /\ UNCHANGED <<fs, changes, clock, daemonVars, kq, pending, flying, scan,
                 index, history>>

LoopDeletes ==
  /\ up /\ loop.at = "delete"
  /\ Execute(DeleteFile(loop.path))
  /\ loop' = Idle
  /\ UNCHANGED <<fs, changes, clock, daemonVars, watcherVars, scan, dirty,
                 visited, lost>>

(* stat fails on a file that has gone: handleFSEvent returns.              *)
LoopStats ==
  /\ up /\ loop.at = "stat"
  /\ loop' = IF fs[loop.path] = Absent THEN Idle
             ELSE [loop EXCEPT !.at = "read", !.seen = fs[loop.path]]
  /\ UNCHANGED <<fs, changes, clock, daemonVars, watcherVars, scan, index,
                 history>>

(* ReadTags, ReadAllMeta and ReadSource; ReadAllMeta fails on a file that  *)
(* has gone.                                                               *)
LoopReads ==
  /\ up /\ loop.at = "read"
  /\ loop' = IF fs[loop.path] = Absent THEN Idle ELSE [loop EXCEPT !.at = "apply"]
  /\ UNCHANGED <<fs, changes, clock, daemonVars, watcherVars, scan, index,
                 history>>

LoopApplies ==
  /\ up /\ loop.at = "apply"
  /\ Execute(Upserted(loop.path, loop.seen))
  /\ loop' = Idle
  /\ UNCHANGED <<fs, changes, clock, daemonVars, watcherVars, scan, dirty,
                 visited, lost>>

-----------------------------------------------------------------------------
(***************************************************************************)
(* Startup scan                                                            *)
(***************************************************************************)

(* WalkDir reads the directory; walkEntry swallows the error when that     *)
(* fails and the walk goes on without its entries.                         *)
ScanLists ==
  /\ up /\ scan.at = "list"
  /\ \/ /\ scan' = [scan EXCEPT !.at = "walk", !.todo = {p \in Paths : fs[p] # Absent}]
        /\ UNCHANGED failed
     \/ /\ "walkError" \in world.faults /\ scan' = [scan EXCEPT !.at = "walk"]
        /\ failed' = failed \cup {"dir"}
  /\ UNCHANGED <<fs, changes, clock, daemonVars, watcherVars, loop, index,
                 dirty, visited, lost>>

(* walkEntry: entries that have gone when d.Info stats them are skipped.   *)
ScanVisits(p) ==
  /\ up /\ scan.at = "walk" /\ p \in scan.todo
  /\ scan' = [scan EXCEPT !.todo = @ \ {p}, !.path = p, !.seen = fs[p],
                          !.at = IF fs[p] = Absent THEN "walk" ELSE "read"]
  /\ visited' = IF fs[p] = Absent THEN visited ELSE visited \cup {p}
  /\ UNCHANGED <<fs, changes, clock, daemonVars, watcherVars, loop, index,
                 dirty, failed, lost>>

ScanReads ==
  /\ up /\ scan.at = "read"
  /\ scan' = [scan EXCEPT !.at = IF fs[scan.path] = Absent THEN "walk" ELSE "apply"]
  /\ UNCHANGED <<fs, changes, clock, daemonVars, watcherVars, loop, index,
                 history>>

(* A failed SyncFile is logged and the walk goes on.                       *)
ScanApplies ==
  /\ up /\ scan.at = "apply"
  /\ Execute(Upserted(scan.path, scan.seen))
  /\ scan' = [scan EXCEPT !.at = "walk"]
  /\ UNCHANGED <<fs, changes, clock, daemonVars, watcherVars, loop, dirty,
                 visited, lost>>

(* The walk is complete: drop the rows it did not refresh.                 *)
ScanDeletesStale ==
  /\ up /\ scan.at = "walk" /\ scan.todo = {}
  /\ Execute(DeleteStaleFiles(scan.start))
  /\ scan' = [scan EXCEPT !.at = "done"]
  /\ UNCHANGED <<fs, changes, clock, daemonVars, watcherVars, loop, dirty,
                 visited, lost>>

-----------------------------------------------------------------------------
(***************************************************************************)
(* The daemon stops, cleanly or not, and starts: only the index survives   *)
(***************************************************************************)

Stop ==
  /\ up /\ stops < world.stops
  /\ clock < world.clock \/ "sameSecond" \in world.faults  \* leave a second to Start in
  /\ up' = FALSE /\ stops' = stops + 1
  /\ kq' = [p \in Paths |-> << >>]
  /\ pending' = [p \in Paths |-> "none"]
  /\ flying' = [p \in Paths |-> {}]
  /\ out' = << >>
  /\ loop' = Idle /\ scan' = ScanOff
  /\ UNCHANGED <<fs, changes, clock, index, history>>

(* Run: the watcher is listening before the scan takes its start time.     *)
Start ==
  LET tooSoon == \E p \in Paths : index[p] # NoRow /\ index[p].at = clock
  IN /\ ~up /\ up' = TRUE
     /\ tooSoon => "sameSecond" \in world.faults
     /\ scan' = [ScanOff EXCEPT !.at = "list", !.start = clock]
     /\ dirty' = FALSE /\ visited' = {}
     /\ failed' = {f \in {"clock"} : tooSoon}
     /\ UNCHANGED <<fs, changes, clock, stops, watcherVars, loop, index, lost>>

-----------------------------------------------------------------------------
Environment ==
  \E p \in world.paths :
    \/ FileCreated(p) \/ FileWritten(p) \/ FileDeleted(p)
    \/ FileMovedOut(p) \/ FileMovedIn(p)

Watcher(p) ==
  \/ ReadEvent(p) \/ TimerTakes(p) \/ \E kind \in Kinds : TimerSends(p, kind)

EventLoop ==
  LoopReceives \/ LoopDeletes \/ LoopStats \/ LoopReads \/ LoopApplies

Scan ==
  \/ ScanLists
  \/ \E p \in Paths : ScanVisits(p)
  \/ ScanReads \/ ScanApplies \/ ScanDeletesStale

Step ==
  \/ Environment \/ Tick
  \/ \E p \in Paths : Watcher(p)
  \/ EventLoop \/ Scan
  \/ Stop \/ Start

Next == Step /\ UNCHANGED world

(* Timers and goroutines run, the clock advances and a stopped daemon is   *)
(* started again; nothing obliges files to change or the daemon to stop.   *)
Fairness ==
  /\ \A p \in Paths : WF_vars(Watcher(p) /\ UNCHANGED world)
  /\ WF_vars(EventLoop /\ UNCHANGED world) /\ WF_vars(Scan /\ UNCHANGED world)
  /\ WF_vars(Start /\ UNCHANGED world) /\ WF_vars(Tick /\ UNCHANGED world)

Spec == Init /\ [][Next]_vars
FairSpec == Spec /\ Fairness

-----------------------------------------------------------------------------
(***************************************************************************)
(* Properties                                                              *)
(***************************************************************************)

Consistent(p) == index[p].ver = fs[p]

(* Nothing about p is on its way to the index.                             *)
Settled(p) ==
  /\ kq[p] = << >> /\ pending[p] = "none" /\ flying[p] = {}
  /\ \A i \in 1 .. Len(out) : out[i].path # p
  /\ loop.at = "idle" \/ loop.path # p

Quiet == up /\ scan.at = "done" /\ \A p \in Paths : Settled(p)

(* The daemon keeps running, no event is dropped or merged.                *)
Undisturbed == world.stops = 0 /\ world.faults = {} /\ world.changes <= world.cap

(* In a daemon that has not stopped the row of a file is up to date as     *)
(* soon as no event for it is in flight and its newest event was not       *)
(* dropped at a full channel, whatever was created, replaced, moved or     *)
(* deleted, however full the channel was before and however the loop's     *)
(* reads fell between the changes.                                         *)
SettledConsistent ==
  stops = 0 /\ world.faults = {} =>
    \A p \in Paths \ lost : Settled(p) => Consistent(p)

(* The startup scan repairs whatever was missed while the daemon was down, *)
(* or dropped at a full channel: if nothing failed, no file changed since  *)
(* it started and the rows are of an earlier second, the index is right;   *)
(* a directory that cannot be read (walkEntry swallows the error) loses    *)
(* the rows of its files, but never leaves one that is wrong.              *)
(* (watcher.go: "Channel full; drop. The startup xattr->index sync will    *)
(* catch missed events.")                                                  *)
ScanRepairs ==
  Quiet /\ ~dirty /\ failed \subseteq {"dir"} =>
    \A p \in Paths : Consistent(p) \/ ("dir" \in failed /\ index[p] = NoRow)

(* The scan never drops the row of a file it found and that is still       *)
(* there, also when it cannot read some directory.  (syncer.go: "Remove    *)
(* stale files from the index that were not seen during this scan".)       *)
OnlyUnseenRemoved ==
  scan.at = "done" /\ ~dirty /\ "db" \notin failed =>
    \A p \in visited : index[p] # NoRow

(* In a daemon that loses no event the index agrees with the files for     *)
(* good once they stop changing.                                           *)
(* (file-indexing flow: "The index is always eventually consistent with    *)
(* the filesystem state".)                                                 *)
EventuallyConsistent == Undisturbed => <>[](\A p \in Paths : Consistent(p))
=============================================================================
