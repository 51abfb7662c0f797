# tilbo: TLA+ models, checks and proofs

tilbo is a daemon that tags files. Tags and metadata live in extended attributes; an
SQLite index makes them searchable; a watcher, a startup scan, harvesters and rules keep
them up to date; a command line, a file browser written in QML and a FUSE mount use them.
This directory models the parts of it where goroutines, the kernel, the database and the
browser interact, and the protocol classes daemon and browser exchange messages with.

## 1. The system

| Part | State | Operations | Talks to |
|---|---|---|---|
| Watcher (`internal/watcher`) | marks, pending map of debounced events, timers, events channel | `Run`, `handleMetaFID`, `processEvents`, `debounce` | kernel queues, event loop (channel) |
| Event loop (`internal/daemon/daemon.go`) | none of its own | `handleFSEvent`, reload on SIGHUP | syncer, index, processor |
| Syncer (`internal/sync`) | daemon state, counters, worker slots | `Run` (startup scan), `walkEntry`, `SyncFile` | file system, xattrs, index, processor |
| Index (`internal/index`) | SQLite tables `files`, `tags`, `file_tags`, `metadata`, embeddings, sidecar | `SyncFileApply`, `DeleteFile`, `DeleteStaleFiles`, `ModifyFileTags`, `SetFileTags`, searches | every other part |
| Processor (`internal/daemon/processor.go`) | non-retryable paths | `ProcessFile`, `handleAsyncResult`, `applyDiff` | harvesters, rules, xattrs, index, graph |
| Rules (`internal/rules`) | sorted rule list; rule files and `config.toml` on disk | `Load`, `Register`, `Reset`, `Eval`, `Sweep` | xattrs, index, configuration |
| Harvesters (`internal/harvester`) | sorted harvester list | `Run`, `RunAsync` | processor (callbacks) |
| Graph (`internal/graph`) | file to tags, tag to files, counts, embeddings | `Load`, `SetFileTags`, `Related` | processor, handlers, FUSE |
| IPC client (`internal/ipc/client.go`) | next ID, pending requests, closed flag | `Call`, `readLoop`, `Close` | IPC server (socket) |
| IPC server (`internal/ipc/server.go`) | connections, closing flag | `Start`, `Stop`, `BroadcastEvent`, one goroutine per request | handlers |
| Handlers (`internal/daemon/handlers.go`, `browser_handlers.go`) | clipboard, configuration as read at the start | one per request kind | index, xattrs, graph, trash, GUI manager |
| FUSE view (`internal/fuse`) | cache per directory, inode table | `Readdir`, `Lookup`, `Rename` | index, graph |
| GUI manager (`internal/daemon/gui_manager.go`) | tracked process | `Launch`, `stopForUpdate`, bundle sync | IPC server (broadcast) |
| Trash (`internal/trash`) | `files/` and `info/` on disk | `MoveToTrash`, `RestoreFromTrash`, `EmptyTrash` | handlers |
| File browser (`internal/quickshell`: `TilboDaemon.qml`, `BrowserNavigation.qml`, `BrowserWindow.qml`, `BrowserFileOperations.qml`) | pending calls, history, lists shown, selection | user's actions, callbacks, events | IPC server (socket) |
| Protocol classes (`ipc_generated.js`, `qml_ipc.mjs`) | one object per message | `encode`, `decode`, `verify`, `fromObject`, `toObject`, `toJSON` | daemon and browser |
| Thumbnails, bookmarks, desktop files, extensions | files on disk | one function each | handlers |

What is hard, and what correctness means:

* **Watcher.** Timers, their functions, the loop that re-arms them and the forwarder of
  hybrid mode run concurrently and share a map and bounded channels. No event may be
  forgotten; only the newest event of a path is emitted; shutdown must not crash.
* **Index.** Events, scan, restarts and failures write rows from what they read earlier.
  The rows must end up describing the files that exist.
* **Tags.** Three stores, at least seven writers, no lock over a whole update. The stores
  must agree, no update may be lost, no tag may reach a file it was not given to.
* **IPC client.** Answers in any order, cancellations, connection loss and `Close` race
  over one map of channels. Each call gets its own answer, and returns.
* **IPC server.** Request goroutines, broadcasts and `Stop` share the connections. Frames
  must not mix, requests must be answered, one client must not hold up another, `Stop`
  must return.
* **Rules.** A reload empties the engine and fills it rule by rule, any number of reloads
  at once, beside files being processed and pins that rewrite `config.toml`. In the end
  the engine must hold the rules on disk and every file their tags.
* **File requests.** Trash, clipboard and file requests are sequences of file system calls
  without a lock. Nothing may disappear that was not deleted or replaced; what is in the
  trash must be restorable.
* **File browser.** Answers and events come in any order and the connection may break
  while the user goes on. Each answer must run its own callback, each callback must run,
  and what is shown must belong to where the user is.
* **Protocol classes.** Integers of 64 bits in a language without them, lengths computed
  apart from what is written, oneofs as properties. What is accepted must arrive.
* **Mounts, GUI manager.** Start/stop races and timeouts; not modelled.

## 2. Modules

### `IpcClient` (`client.go`)

One goroutine per `Call`, the `readLoop` goroutine, one `Close`. `reqs`, `nextID` and
`closed` are the client's fields; `pc`, `id`, `ch` and `result` are the locals of each
call; `reader` and `got` those of `readLoop`. Every step between two acquisitions of `mu`
is an action: `CallEnter`, `Register`, `Recheck`, `Write`, then `CtxDone` or `Receive`;
`ScanEnvelope`, `Deliver`, `ScanStops`, `drainReqs`, `ReaderCloseConn`; `CloseFlag`,
`CloseConn`, `CloseReturns`. The daemon is external: it answers in any order, pushes
events, may disappear. `Faults` selects what may happen: a local `Close`, a peer that
goes down, oversized frames, cancelled contexts.

### `IpcServer` (`server.go`, `framing.go`)

`acceptor` is `serve`, `handler[c]` the `handleConn` of a connection, `pc[g]` a goroutine
that writes: a request, or one outside the server that broadcasts (scan, processor, GUI
manager). A request's goroutine runs the handler, which may broadcast first as `handleTag`
does, then takes `connWriter.mu` and writes. A frame is two chunks because a write blocks
when the socket's buffer (`Cap`) is full; `wire[c]` is everything written. `Stop` is five
steps; its wait group counts `serve` and `handleConn`, not the requests. A frame is its
size: `Writable` and `Scannable` are the two checks of the limit, which differ by one.
`Deaf` clients have stopped reading; `late`
is a history variable, the connections `closeActiveConnections` has missed. Left out: the socket file, and what handlers compute.

### `Debounce`, `EventStream` (`watcher.go`, `inotify.go`)

An event is its number; `timer[e]` is the life of its timer and timer function: armed,
stopped, fired, then `superseded` or `taken`, then sent or dropped. `pending` is the map
under the mutex. Taking and sending are separate actions because the function unlocks in
between. With both backends, inotify's channel is read by `Forward`. `RunReturns` closes
a channel; a send on a closed channel sets `panicked`, after which nothing runs.
`EventStream` is what the event loop may rely on: an event raised is delivered, or
superseded by a newer one of its path, or dropped; never forgotten; its fate is final.

### `FileIndex` (`daemon.go`, `syncer.go`, `index.go`)

A file is a version number that stands for inode, mtime and size; a row is the version it
was synced from and `indexed_at` in whole seconds. The debouncer appears as what
`EventStream` promises. The loop (`LoopReceives`, `LoopStats`, `LoopReads`, `LoopApplies`,
`LoopDeletes`) and the scan (`ScanLists`, `ScanVisits`, `ScanReads`, `ScanApplies`,
`ScanDeletesStale`) interleave with each other, with changes to files, and with `Stop`,
which loses everything but the index. `Faults`: merged kernel events, delayed timer
functions, a restart in the second of the last write, unreadable directories, failing
database statements. `dirty`, `visited`, `failed` (which kind of failure the current
scan has met) and `lost` (the files whose newest event was dropped at a full channel) are
history variables for the properties. The world of a behaviour is a running daemon with
room in the channel, one whose channel overflows, or one that restarts with every fault.

### `TagFlow` (`handlers.go`, `processor.go`, `sweep.go`, `syncer.go`, `fuse/server.go`)

Xattrs, `file_tags` rows (by row id, ids reused as SQLite does) and the graph, and every
writer of tags as a job that reads and writes one store per step: tag requests, FUSE moves,
filesystem events and scan (`SyncFile`, then `ProcessFile`), async harvester results, rule
sweeps, deletions. Rules appear as the tags they give each path, harvesting as the time
that passes between reading and writing. An async result may arrive at any time: the run
that started it may be long over. Metadata, provenance and embeddings, written beside the
tags by the same code, are left out, except that a permission error on metadata ends a run.
A request changes one tag of one file; requests for several are repetitions of it. The
history variables `apart` (the xattrs changed, or failed to change, without the index
since the last `SyncFile`) and `behind` (the last writer leaves the graph alone) say when
two stores are not expected to agree.

A world says which files there are, which operations run, and whether they overlap; one is
chosen at the start of each behaviour, so that one run covers both.

### `Rules` (`engine.go`, `registry.go`, `sweep.go`, `config.go`, `browser_handlers.go`)

What is on disk (`ruleFiles`, `config`), what the daemon holds (`engine`, `cfg`, the copy of
the configuration it read when it started) and the tags of the files. A job is a reload
(SIGHUP in the event loop, or a request on its own goroutine) with the sweep that follows, a
file that is processed, or a pin. A reload is `StartReload` (Reset), `ListRules`, one
`LoadFile` per rule file, `LoadConfig`, one `LoadInline` per rule, then `StartSweep`; a sweep
is `ReadFile`, `Evaluate`, `WriteFile` for each file; a pin is `StartPin`, `ChangePins`,
`TruncateConfig`, `SaveConfig`, between which the file is empty, as a reload may find it.
The user edits rule files and `config.toml` and removes tags. A definition without a name
ends the list it is in, a rule without tags is skipped (`Usable` is what a list gives), a
rule that fails gives nothing. A job keeps which rules of its copy of the engine gave tags
(`fired`), so that sources are judged by what was evaluated, not by what has been loaded since.
Every rule matches every file, and a rule file holds one rule. `loaded` is a history
variable: what was on disk when the last reload under way had loaded it undisturbed.

### `FileOps` (`trash.go`, `browser_handlers.go`)

The requests that change files, each a sequence of file system calls that those of other
requests come between: moving to the trash (find a free name, open the info and write it,
move the file, or undo), restoring, emptying, copy and paste over the shared clipboard, rename,
delete, create. A path has an inode, an inode contents; one directory is on another file
system, where renames fail. Every other call may fail as well, for any reason, and the request
goes on as the code does: `MoveToTrash` returns from a failed write of the info without
removing what has been written of it (`Cut`), `EmptyTrash` from the first removal that fails
(`GiveUp`), and the errors of the two `os.Remove` of an info are ignored (`RemoveIgnored`).
Only a request that fails at its first step has none: it changes nothing. The daemon may die between any two calls.
`stray` is a history variable: the names whose info such a failure or a death left behind.
`crossed` tells that requests over the same trash names overlapped, `alone` which requests
nothing came between.

### `Browser` (`TilboDaemon.qml`, `BrowserNavigation.qml`, `BrowserWindow.qml`, ...)

The interface has one thread: an action is a function to its end, and what it asks of the
daemon is answered in another. `pending` are the callbacks by id, `asked` what the daemon
works on, `wire` what is on its way, from which any message may be handled next. The user
navigates, goes back and forward, searches, selects, deletes; the daemon changes tags,
tells of a changed index, asks to show the window; a request may fail, the connection break
and come back. A scenario says which of these happen together and how many calls the user
makes. History variables: `late` (an older answer has overtaken a newer load of the list) and
`reordered` (an event and an answer have overtaken each other).

### `Messages`, `ProtoWire`, `Codec` (`ipc_generated.js`, `qml_ipc.mjs`)

`Messages` is every class as the sequence of its fields; `ProtoWire` the runtime (varints,
`LongBits`, UTF-8, `Reader`, `Writer`) over bytes and integers that are sets of bits;
`Codec` the functions every class has, and `skipType`, which recurs over groups. A behaviour sets properties of one object, encodes
it, lets a newer peer add fields or a transfer be cut off at any byte, and decodes; or goes
through `toJSON` and `fromObject`. Receivers with and without the Long library are both there.

`MC*` modules are what the configurations instantiate: the values of the constants and the
symmetry of jobs. The proofs are in `IpcClientProofs`, `DebounceProofs`, `FileOpsProofs`,
`IpcServerProofs`, `RulesProofs`, `TagFlowProofs`, `FileIndexProofs` and `BrowserProofs`.

## 3. Runs

Passing runs:

| Run | Instance | Shows |
|---|---|---|
| `client` | 2 calls, all faults | own response, no panic, no leaked entry; a registered call returns, `Close` returns |
| `server` | a client with one request, a client that does not read, one broadcast, `Stop` | frames stay whole; nothing is written after `Stop`; requests are answered and events arrive, but behind a client that does not read or beyond the frame limit; `Stop` waits only for a client accepted too late |
| `debounce` | 2 paths, both backends, 3 events, channels of 1, failing backends | one armed timer per key, newest emitted; refinement of `EventStream`; every event settles |
| `index` | running: 1 file, 4 changes; overflowing: 2 files, 3 changes, channel of 1; restarting: 2 files, 2 changes, 1 restart, channel of 1, every fault | a settled path has an up-to-date row unless its newest event was dropped, and an index that loses no event converges; an undisturbed scan repairs the index; a failed walk only loses rows; the cleanup removes no row the scan has seen |
| `tags` | serial: 1 file, 3 operations of any kind in turn, 2 file changes, failing xattr writes; overlapping: 2 files, 3 overlapping operations, no deletions | index and xattrs agree, graph and index agree; no tag crosses over to another file; no add is lost in the index |
| `rules` | 2 rule files that give one tag, one of which may fail, an inline rule, alone or behind a broken one; 2 jobs of any kind, 2 pins, 2 edits | however reloads overlap the engine ends up with the rules on disk; sources follow priority; every file ends up with the rules' tags; pins reach the file |
| `fileops` | 3 directories, one on another file system, 3 files, two of one name; 3 requests of any kind, any call of which may fail, 1 death of the daemon | what is in the trash can be restored; what is listed is there or was left behind by a failed call or a death; nothing is lost; a paste does what was asked |
| `browser` | 2 directories, 3 files, one hidden, 1 tag, 3 searches; 10 scenarios of 2 to 4 calls, 1 event, 1 fault | every answer to its own callback and every callback run; the list is that of where the history says the user is; list, search, tags and metadata shown are current |
| `codec` | every class with each property at the limits of its type, and pairs of properties | what `verify` accepts arrives, by bytes, with exact lengths, and by JSON; unknown fields are skipped; a cut is noticed; a oneof keeps its member |

Runs that end in a violation, each against a sentence of the repository (quoted in
`PROJECT.json`):

| Run | What the code does |
|---|---|
| `client_close_hang` | a `Call` that registers after the last `drainReqs` waits for its context only |
| `server_slow_client` | a tag request writes its event to a client that does not read, and is never answered |
| `rules_override` | a rule gives a tag back that the user removed: nothing writes `tag_overrides` |

### Excluded behaviour

Behaviour the passing properties exclude by name, and what they say of it instead:

* a mask with `MOVED_FROM` and a later `CREATE` counts as a deletion: with the fault
  `merge`, `EventuallyConsistent` fails until the next scan (`ScanRepairs`);
* a response above the frame limit is dropped, and one of exactly `maxFrameSize` bytes
  ends the client's connection (`LongFrame`);
* `Stop` waits for a connection that was accepted before the listener closed and tracked
  after `closeActiveConnections` (`StopTerminates`);
* a timer armed when `Run` returns sends on the closed channel and panics (`panicked` in
  `Debounce`): `graceful-shutdown/guidance.md:5` asks for a clean shutdown;
* the startup scan upserts a file whose deletion the loop has already handled, and the row
  stays until the next scan: `EventuallyConsistent` is stated of a daemon that is not
  scanning, although the file-indexing flow says "always eventually consistent";
* a request during an async result, or any two writers of one file, may leave index and
  xattrs different: `StoresAgree` and `GraphAgrees` are stated of operations in turn, and
  `SweptUpToDate` of files no two writers of which overlapped (`raced`);
* a restart in the second of the last write keeps a stale row (`"clock" \in failed`);
* a `SyncFile` whose database statement failed leaves its row to the cleanup
  (`"db" \in failed`), an unreadable directory its files' rows (`"dir" \in failed`);
* a move in the mount changes the index only, and a failed xattr write is reported as
  success although `.yggdrasil/model/daemon/ipc-handlers/interface.md:40` says it "returns
  error" (`p \in apart`);
* sweeps, `SyncFile` and deletions leave the graph as it was (`p \in behind`);
* a sweep returns from a file whose xattrs it can neither read nor write
  (`sweep.go:71-78, 126-149`) and leaves it as it was: `SweptUpToDate` is about files whose
  xattrs can be, such failures of a sweep are not modelled;
* SQLite reuses the row id of a deleted file, and `ModifyFileTags`, `handleAsyncResult` and
  `ProcessFile` write by a row id read earlier: `OwnTagsOnly` is stated of behaviours in
  which no row is deleted under another operation (`Undeleted`);
* two pins at once lose one another or leave a file that does not parse, and an edit during
  a pin is lost (`crossed` in `Rules`); a pin writes the whole configuration the daemon read
  when it started, so inline rules the user has added since are gone from `config.toml`,
  and from the engine at the next reload;
* a reload that reads `config.toml` while a pin has emptied it finds no inline rules and
  reports no error (`disturbed`, or `loaded` without them);
* an info that could not be written whole stays in the trash without its file
  (`trash.go:91-93`), and is listed; an emptying stops at the first file or info it cannot
  remove and leaves the infos of the files it has removed (`trash.go:205-210, 222-225`); a
  restore whose info cannot be removed reports success (`trash.go:195`), and the undo of a
  failed move ignores the same error (`trash.go:100`). `TrashedRestorable` lets `ListTrash` show these
  entries (`stray`) until their name is used again or the trash is emptied; the file of an
  info that is there is restorable all the same;
* two moves to the trash of files of one name, or a move and an emptying, may overwrite a
  file or leave one without an info (`crossed` in `FileOps`); a restore, rename or paste
  silently replaces what is at the destination (`purged`); pasting a copy into the directory
  of its source truncates it, so `PasteFaithful` is about other directories; files on another
  file system cannot be trashed at all, although `trash.go:25-27` names a trash per mount;
* lists and searches have no guard against an older answer: once one has overtaken a newer
  load the list is wrong until it is loaded again (`late`); a hydration that overtakes an
  event puts old tags back (`reordered`); in a search a file that is also in the
  directory's list is patched only there, so `TagsCurrent` is about the list the patch
  reaches; calls made while disconnected are registered and never sent, nothing is
  reloaded after a reconnection;
* in the protocol classes: numbers outside 32 bits and floats beyond single precision are
  encoded as `verify` accepts them and arrive changed; longs beyond 2^53 need the Long
  library; `readLongVarint` does not check the end of the buffer for its fourth byte; a
  program that sets two members of a oneof through properties, against the protocol,
  encodes both.

**Bounds.** Two calls are enough for any pair to race with the reader and `Close`
(the invariant relates at most two calls). In the
server one request, one outside broadcast and two connections give every pair of writers
on one connection, and a buffer of one chunk blocks every frame halfway. One client of the two leaves (`MaxLeave`), either of them. Three events for one path already give an old
timer function running beside a pending entry that is itself replaced; with channels of
capacity one every send meets both a free and a full channel. One file suffices where paths
do not interact; two where a scan has an order and where row ids are reused. The clock
counts only the seconds that separate a write from a scan. Two jobs in `Rules` give every pair
of reload, event and pin in every interleaving, and two edits let one fall into each of them;
a third job adds no pair. Three requests in `FileOps` are what a copy, a paste and one in
between, or two moves and an emptying, need; no bound limits the calls that
fail; four inodes leave one for a copy. In `Browser`
two calls at a time let each answer overtake each other one; the scenarios pair the operations that
touch the same state. In `Codec` functions treat fields one by one, so pairs of properties
give every order and every neighbour; the values are the limits where a branch changes. The `CHECK_DEADLOCK FALSE` runs are bounded by what the
environment does; when files stop changing the system is at rest.

**Fairness.** Weak fairness of every goroutine step (the Go scheduler runs what is
runnable), of timers, of the clock and of a supervisor that restarts the daemon. Reading a
buffered envelope is strongly fair: frames are read in order from a byte stream, so each one
is reached although the model takes them from a set. The daemon answers requests it has read
while it is up. `IpcServer` has one weak fairness
condition over all steps of the system: what clients send gives it finitely much to do, so
none of its goroutines is left out. In `Browser`
the daemon answers (`Answers`) and the interface handles what arrives (`Deliver`). In
`FileIndex` fairness is asked of each goroutine in the world of the behaviour. Never assumed: cancelled contexts, `Close`, a peer that goes down, changes
of files, stops.

## 4. Proofs

Checked by TLAPS for every value of the constants, from the named assumptions of the
modules (`NoCall` is not a call and `NoOne` not a goroutine; bounds are natural numbers;
backends are a nonempty subset of the two there are; connections, rules, and the files and
operations of `TagFlow` are finitely many; the files a behaviour starts with are distinct). Each inductive invariant contains the type
invariant of its module, which no run lists again, and was model-checked before it was proved.

* `IpcClientProofs`: `ClientCorrelation` proves `ClientInv` inductive. Own-response alone is
  not: it needs that IDs are handed out once (`IDsUnique`), that a registered channel is
  that of the call with this ID, open and empty (`Registered`), that the channel `readLoop`
  holds outside the mutex is registered no more (`HeldChannel`) and that a buffered response
  is the owner's (`ChannelState`). `OwnResponseAlways`, `NoPanicAlways` and
  `NoLeakedRequestAlways` follow. `NeverForgotten` adds that a call not given up yet has its
  channel kept for it, whoever holds it (`Kept`), and that what it waits for can happen
  (`HelpAtHand`); `CloseCannotHang` that `Close` has shut the connection before it waits
  (`ClosedFirst`), so that `readLoop` can only go on to its end.
* The integers of messages, also in `IpcClientProofs`, which extends `ProtoWire`: a varint is its
  groups of seven bits (`VarintBytes`), and a reader that finds its bytes anywhere in a buffer
  (`StandsAt`) finds the bits again. `Uint32Arrives` and `LongArrives` show it of both readers, whose loops
  differ, `LengthsCounted` that the length a `Writer` keeps is that of the bytes,
  `CutIntegerNoticed` what each reader does with the front of a varint, with the exception
  `CutNoticed` makes, and `NumberExact` which 64-bit integers a number can hold, as `Exact`
  assumes. They hold for every integer, where the run takes those at the limits.
* `DebounceProofs`: `DebounceCorrect` proves `DebounceInv` inductive: the pending entry is
  the newest of its path and its timer is armed or its function has not looked yet; an armed
  timer is that of the pending entry; a late function's entry has been replaced; what waits
  in inotify's channel is marked so, once. `OneArmedTimerAlways` and `EmitsNewestAlways`
  follow, and `WatcherImplementsStream` shows that every step maps to one of `EventStream`
  or to a stutter: `ImplementsStream`. `EventsMoveOn` follows an event: it goes from armed to
  sent, dropped or replaced and never back (`MovesOnward`), and in inotify's channel nothing
  gets before it (`RelayQueued`, `ComesNearer`).
* `FileOpsProofs`: `FileOpsCorrect` proves `FileOpsInv` inductive. That trashed files are
  restorable rests on what each request relies on between two of its calls (`Reliance`: the
  name a move has found is still free, the info it wrote is still its own), which holds as long as
  no other request touches its names (`Apart`); that an info without a file is left behind
  only by a failure or a death needs a request that still answers for each other one, and on
  ending in failure names it in `stray` (`Answered`); that nothing is lost needs that an
  inode has one name (`OneName`), that new ones are new (`Numbered`), and that a copy writes
  only over contents that were replaced (`Overwrites`). All of it after `Phases`, what a
  request's record holds where it is. `TrashedRestorableAlways` and `NothingLostAlways` follow.
  `PasteFaithfulAlways` adds `PasteInv` to it: a paste beside which no request runs
  (`Undisturbed`) and whose names are apart (`Proper`) has pasted the sources before the
  current one and left the others (`Progress`), because the step of one source touches no
  path and no inode of another (`PastePathsApart`, `OtherSources`); that its mode is the one
  asked for holds because what the clipboard holds was put there by a copy that has not
  failed, and a single one that has ended told the mode (`Asked`).
* `IpcServerProofs`: `ServerCorrect` proves `ServerInv` inductive. Frames are whole because
  the holder of `connWriter.mu` is writing to that connection (`Holders`) and a frame that
  is not complete is the holder's, or its connection is dead (`Unfinished`) and stays so
  (`Opened`). After `Stop` nothing is written because an open socket is in the hands of
  `serve` or of a `handleConn` (`Attended`), and `Stop` has waited for these although it has not
  waited for the writers. `FramesWholeAlways` and `QuietAfterStopAlways` follow, and
  `NoCircularWait`: who holds a lock waits for none. `OneCanDelayStop` needs which connections
  `closeActiveConnections` has found (`Tracking`): the one `serve` had just accepted may not be
  among them. `EachFrameOnce` says where each part of a frame came from and what a broadcast
  has yet to write (`OnceInv`); `NobodyPassedOver` that a connection has one
  `handleConn` and what it has read came over a connection that was accepted (`ReadFrom`).
* `RulesProofs`: three invariants. `EngineInv`, for `Reloaded`: what the engine holds at the
  end says nothing of a reload halfway, so it says that jobs that load rules register none
  that is not on disk (`NothingElse`), and that one of them, the last to empty the engine,
  will still register each rule the engine lacks (`Everything`). `TagInv`, for `SweepReaches`
  and `HighestWins`: a rule's tag that a file lacks is owed by a sweep that has yet to reach
  the file or to write it (`Owed`), which what it has read does not undo (`ReadStill`);
  sources follow priority because `Register` keeps the list ascending whatever order rules
  come in (`Registering`) and the copy of a job is never changed. `PinInv`, for `Pinned`:
  pins one at a time carry what was asked from memory to the file.
* `TagFlowProofs`: all rests on `RowInv`: a row id belongs to one path and there are enough of
  them for the operations there are (`OneOwner`, `Numbered`), and which kind of operation can
  be where. `AddsKept` then needs that a path only additions have touched keeps its row and
  that no other operation holds its id (`PureInv`). `NoForeignTags` needs that an operation
  holds its own path's id or none (`OwnIds`) and that whatever a store or an operation holds
  was given to the path (`OwnTags`); without a deletion in between ids do not move. `IndexAsXattrs`
  and `GraphAsIndex` need what the one operation under way still owes the stores at each of
  its steps (`Owing` in `OneAtATime`): which of them agree already, and that what it read is
  still what is there.
* `FileIndexProofs`: `Sound` (types, stamps not in the future, nothing in flight in a daemon
  that is down or whose files have not changed since the scan began) is inductive alone. `UpToDate`
  follows the newest event of a file through the pipeline (`Newest`): in the kernel's queue,
  pending, with its timer function, last of its path in the channel, in the hands of the loop, it
  tells whether the file exists, and what the loop has read is the file as it is (`LoopFits`).
  An older event behind which a newer one comes needs no claim, which is why reads that fall
  between changes do no harm. `Repaired` and `FoundAreKept` follow from `ScanInv`: a row is from before the
  scan and its file gone or still to be visited, or it is `Fresh`; the cleanup tells the two apart
  by a stamp that is never later than the clock, and this is what a restart within the second breaks.
* `BrowserProofs`: `BrowserInv` is inductive and gives `BrowserIsTyped` and
  `AnswersReachTheirCalls`: an id is given once (`Registered`), also by the calls a lost
  connection makes (`Ranking`), and what is answered is asked for no more (`OnWire`).
  `TheDirectoryShown` and `TheSearchShown` follow the latest load alone (`Latest`: no call of
  its kinds is newer, nor is what the list shows): it is for the place, or the chips, on
  screen, and so is its answer (`ListInv`, `SearchInv`). Older loads need no claim: an answer to one of them leaves
  the latest pending, or comes late. A step asks anew (`ListedAnew`, `SearchedAnew`), leaves
  what counts alone (`ListAside`, `SearchAside`), or brings the answer; a search that falls
  back to the pattern replaces its call by one of the same age. `MetadataIsOfSelected` is
  inductive alone. `TheTagsShown` follows each tag of each file through the wire: the last
  message that mentions it tells what the index has (`LastSays`), and tags that are listed,
  or come in an answer, agree with the index on all that no later message mentions
  (`Agrees`). The invariant `TagsInv` says so of what is listed, or of the answer that will
  be applied to it (`Hydration`, the call of the same age as the listing); in order, the
  first message is handled and positions shift by one (`Shifting`). It claims nothing once
  something failed or was overtaken, as `TagsCurrent` does not. `NoCallbackLost` needs no more
  than that a step leaves the other callbacks alone and sends what it registers (`Joined`):
  each that waits is with the daemon or has its one answer on the wire (`CallbackDue`).

Only model-checked: liveness (`OutstandingReturn`, `CloseTerminates`, `EventSettles`,
`EventuallyConsistent`, `RequestsAnswered`, `EventsReach`, `StopTerminates`,
`AllCalledBack`), which is out of the prover's reach. Of all but `EventuallyConsistent` the part
that is safety is proved, for every instance: that nothing is forgotten, that no step leads back,
and for the client and for `Stop` that the next step is possible. That these steps are then taken is
what the runs add, under the fairness section 3 states. And what `Codec` computes (`RoundTrip`,
`JSONRoundTrip`, `UnknownSkipped`, `CutNoticed`, `PayloadAgrees`): its functions recur over
messages, and induction over data is out of reach too; only the integers below it are proved.

## 5. Not modelled, and the plan

Left out for good: generated Go code, parsers (desktop files, icon themes, extensions, rule
languages), file conversion (thumbnails, harvesters, embeddings), layout and dialogs of the
interface, and the command line, which is one request per command. In the JavaScript bundle
the rpc service, event emitters, base64 and Node buffers, which no message uses; the share
of lines the map covers is that of the classes, whose variants (`encodeDelimited`,
`fromJSON`, static helpers) repeat what is modelled.

Left out so far: the GUI manager (`gui_manager.go`: a process is started, signalled and
reaped; `ShowWindow` is broadcast before the started process has connected), directory
caches, expressions and mounting of the FUSE view, counts and `Related` of the graph, search
in the index, watches on new directories and overflow of the kernel's queues.

Next, in this order:

1. `FuseView`: directory caches and their invalidation, the mount with its timeout.
2. `TagGraph`: `SetFileTags`, `RemoveFile`, counts and their invariant; `Related` against a
   reference definition.
3. `Backends`: watches on new directories, overflow of the kernel queue, descriptors.
4. `IpcSystem`: `IpcClient` and `IpcServer` composed, each as the other's environment.
