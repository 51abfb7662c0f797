------------------------------ MODULE TagFlow ------------------------------
(***************************************************************************)
(* The tags of a file live in three places: its xattrs, the file_tags rows *)
(* of the index and the in-memory graph.  This module is every writer of   *)
(* them, each a sequence of single reads and writes of one store, with no  *)
(* lock over the sequence: tag requests (handlers.go: handleTag), moves in *)
(* the FUSE mount (fuse: TagDir.Rename), filesystem events and the startup *)
(* scan (SyncFile, then ProcessFile), results of async harvesters          *)
(* (handleAsyncResult), rule sweeps (sweepFile) and deletions.             *)
(*                                                                         *)
(* Row ids matter: writers look the id of a path up first and write by id  *)
(* later.  Metadata, provenance and embeddings are written beside the tags *)
(* by the same steps and are left out.                                     *)
(***************************************************************************)
EXTENDS Naturals, FiniteSets, FiniteSetsExt

CONSTANTS
  Paths,       \* files
  Tags,        \* tag names
  RuleTags,    \* the tags the rule engine gives each path
  Jobs,        \* operations that will be started, each once
  Worlds       \* what may happen, one of these for each behaviour

(* A world: the files there may be, the kinds of operation that run, the   *)
(* operations tag requests ask for, a bound on files created and deleted,  *)
(* whether operations overlap, whether writing an xattr may fail.          *)

AllKinds == {"tag", "retag", "event", "scan", "delete", "async", "sweep"}
AllOps == {"add", "remove", "set"}

ASSUME RuleTagsAssumption == RuleTags \in [Paths -> SUBSET Tags]
ASSUME FiniteAssumption == IsFiniteSet(Paths) /\ IsFiniteSet(Jobs)
ASSUME WorldsAssumption ==
  Worlds \subseteq [paths : SUBSET Paths, kinds : SUBSET AllKinds,
                   ops : SUBSET AllOps, changes : Nat, overlap : BOOLEAN,
                   fails : BOOLEAN]

VARIABLES
  world,     \* the world of this behaviour
  exists,    \* the file exists
  xattr,     \* user.tags of the file
  row,       \* id of the path's row in files, 0 when there is none
  fileTags,  \* per row id, its tags in file_tags
  graph,     \* the graph's tag set of the path
  job,       \* per operation: what it is, where it is, what it has read
  skipped,   \* nonRetryablePaths of the processor
  changes,   \* files created and deleted so far
  apart,     \* history: paths whose index and xattrs may differ, because the
             \* file changed, an xattr write failed or the FUSE mount retagged
  behind     \* history: paths last written by an operation that leaves the
             \* graph alone (SyncFile, sweep, retag, deletion)

vars == <<world, exists, xattr, row, fileTags, graph, job, skipped, changes,
          apart, behind>>
stores == <<xattr, row, fileTags, graph>>
history == <<apart, behind>>
others == <<skipped, changes, history>>

Ids == 1 .. Cardinality(Paths) + Cardinality(Jobs)
At == {"new", "readXattr", "writeXattr", "lookup", "modify", "reread",
       "setGraph", "sync", "apply", "prepare", "asyncLookup", "read", "eval",
       "write", "setIndex", "graph", "delete", "done", "failed"}

Started(j) == job[j].at # "new"
Live(id) == \E p \in Paths : row[p] = id
Finished(j) == job[j].at \in {"done", "failed"}
Idle == \A j \in Jobs : job[j].at = "new" \/ Finished(j)

AnyPath == CHOOSE p \in Paths : TRUE
AnyTag == CHOOSE t \in Tags : TRUE
JobStates ==
  [kind : AllKinds, op : AllOps, tag : Tags \cup {AnyTag}, dest : Tags \cup {AnyTag},
   path : Paths \cup {AnyPath}, at : At, tags : SUBSET Tags, id : Ids \cup {0}]

TypeOK ==
  /\ world \in Worlds /\ exists \in [Paths -> BOOLEAN] /\ xattr \in [Paths -> SUBSET Tags]
  /\ row \in [Paths -> Ids \cup {0}] /\ fileTags \in [Ids -> SUBSET Tags]
  /\ graph \in [Paths -> SUBSET Tags]
  /\ job \in [Jobs -> JobStates]
  /\ \A j \in Jobs : Started(j) =>
       /\ job[j].path \in Paths
       /\ job[j].kind \in {"tag", "retag"} => job[j].tag \in Tags /\ job[j].dest \in Tags
  /\ skipped \subseteq Paths /\ changes \in 0 .. world.changes
  /\ apart \subseteq Paths /\ behind \subseteq Paths

Blank == [kind |-> "tag", op |-> "add", tag |-> AnyTag, dest |-> AnyTag,
          path |-> AnyPath, at |-> "new", tags |-> {}, id |-> 0]

(* Some files exist, all of them if none will come or go, untagged and     *)
(* indexed.                                                                *)
Init ==
  /\ world \in Worlds
  /\ exists \in [Paths -> BOOLEAN]
  /\ \A p \in Paths \ world.paths : ~exists[p]
  /\ world.changes = 0 => \A p \in world.paths : exists[p]
  /\ row \in [Paths -> 0 .. Cardinality(Paths)]
  /\ \A p, q \in Paths : row[p] = row[q] /\ row[p] # 0 => p = q
  /\ \A p \in Paths : row[p] # 0 <=> exists[p]
  /\ xattr = [p \in Paths |-> {}] /\ graph = [p \in Paths |-> {}]
  /\ fileTags = [i \in Ids |-> {}]
  /\ job = [j \in Jobs |-> Blank]
  /\ skipped = {} /\ changes = 0 /\ apart = {} /\ behind = {}

-----------------------------------------------------------------------------
(***************************************************************************)
(* Starting an operation                                                   *)
(***************************************************************************)

MayStart == world.overlap \/ Idle

Start(j, kind, op, t, d, p, at) ==
  /\ MayStart /\ kind \in world.kinds /\ job[j].at = "new"
  /\ job' = [job EXCEPT ![j] = [@ EXCEPT !.kind = kind, !.op = op, !.tag = t,
                                         !.dest = d, !.path = p, !.at = at]]
  /\ skipped' = IF kind = "event" THEN skipped \ {p} ELSE skipped
  /\ UNCHANGED <<exists, stores, changes, history>>

StartTag(j, op, t, p) == op \in world.ops /\ Start(j, "tag", op, t, t, p, "readXattr")

(* TagDir.Rename found the path in the cache of the source directory.      *)
StartRetag(j, t, d, p) == t # d /\ Start(j, "retag", "remove", t, d, p, "lookup")

(* handleFSEvent clears the path's mark before SyncFile; the event loop    *)
(* deletes only what the watcher saw go; a sweep lists indexed paths.      *)
StartRun(j, kind, p) ==
  LET at == CASE kind \in {"event", "scan"} -> "sync"
              [] kind = "delete" -> "delete"
              [] kind = "async" -> "prepare"
              [] kind = "sweep" -> "read"
      b == job[j]
  IN /\ kind = "delete" => ~exists[p]
     /\ kind = "sweep" => row[p] # 0
     /\ Start(j, kind, b.op, b.tag, b.dest, p, at)

Goto(j, at) == job' = [job EXCEPT ![j].at = at]

-----------------------------------------------------------------------------
(***************************************************************************)
(* handleTag                                                               *)
(***************************************************************************)

Modified(tags, op, t) ==
  CASE op = "add" -> tags \cup {t}
    [] op = "remove" -> tags \ {t}
    [] op = "set" -> {t}

(* applyTagsXattr reads; an error counts as no tags.                       *)
TagReadsXattr(j) ==
  /\ job[j].at = "readXattr"
  /\ job' = [job EXCEPT ![j].at = "writeXattr",
               ![j].tags = IF exists[job[j].path] THEN xattr[job[j].path] ELSE {}]
  /\ UNCHANGED <<exists, stores, others>>

(* applyTagsXattr writes back.  A failure is logged and the request goes   *)
(* on.                                                                     *)
TagWritesXattr(j) ==
  LET b == job[j] IN
  /\ b.at = "writeXattr"
  /\ \/ /\ exists[b.path]
        /\ xattr' = [xattr EXCEPT ![b.path] = Modified(b.tags, b.op, b.tag)]
        /\ Goto(j, "lookup")
        /\ UNCHANGED apart
     \/ /\ ~exists[b.path] \/ world.fails
        /\ apart' = apart \cup {b.path}
        /\ Goto(j, "lookup") /\ UNCHANGED xattr
  /\ UNCHANGED <<exists, row, fileTags, graph, skipped, changes, behind>>

(* What follows ModifyFileTags, for a request and for the two calls of a   *)
(* retag, whose errors are only logged.                                    *)
AfterModify(b, ok) ==
  CASE b.kind = "tag" -> [b EXCEPT !.at = IF ok THEN "reread" ELSE "failed"]
    [] b.kind = "retag" /\ b.op = "remove" ->
         [b EXCEPT !.op = "add", !.tag = b.dest, !.at = "lookup"]
    [] OTHER -> [b EXCEPT !.at = "done"]

(* ModifyFileTags: GetFileIDByPath.                                        *)
TagLooksUp(j) ==
  LET b == job[j] IN
  /\ b.at = "lookup"
  /\ job' = [job EXCEPT ![j] = IF row[b.path] = 0 THEN AfterModify(b, FALSE)
                               ELSE [b EXCEPT !.id = row[b.path], !.at = "modify"]]
  /\ UNCHANGED <<exists, stores, others>>

TagReplacesRow(j) ==
  LET b == job[j] IN
  /\ b.at = "modify"
  /\ fileTags' = [fileTags EXCEPT ![b.id] = Modified(b.tags, b.op, b.tag)]
  /\ job' = [job EXCEPT ![j] = AfterModify(b, TRUE)]
  /\ UNCHANGED <<exists, xattr, row, graph, others>>

(* ModifyFileTags: AddFileTag, RemoveFileTag or SetFileTags by id.  The    *)
(* foreign key rejects an insert for a row that has gone.                  *)
TagModifies(j) ==
  LET b == job[j] IN
  /\ b.at = "modify"
  /\ fileTags' = IF Live(b.id)
                 THEN [fileTags EXCEPT ![b.id] = Modified(@, b.op, b.tag)]
                 ELSE fileTags
  /\ job' = [job EXCEPT ![j] = AfterModify(b, Live(b.id) \/ b.op = "remove")]
  /\ LET touched == {p \in {b.path} : b.kind = "retag"}
     IN apart' = apart \cup touched /\ behind' = behind \cup touched
  /\ UNCHANGED <<exists, xattr, row, graph, skipped, changes>>

IndexTags(p) == IF row[p] = 0 THEN {} ELSE fileTags[row[p]]

(* GetFileTags, then the graph's SetFileTags.                              *)
TagRereads(j) ==
  /\ job[j].at = "reread"
  /\ job' = [job EXCEPT ![j].at = "setGraph", ![j].tags = IndexTags(job[j].path)]
  /\ UNCHANGED <<exists, stores, others>>

TagSetsGraph(j) ==
  /\ job[j].at = "setGraph"
  /\ graph' = [graph EXCEPT ![job[j].path] = job[j].tags]
  /\ behind' = behind \ {job[j].path}
  /\ Goto(j, "done")
  /\ UNCHANGED <<exists, xattr, row, fileTags, skipped, changes, apart>>

-----------------------------------------------------------------------------
(***************************************************************************)
(* SyncFile, then ProcessFile; handleAsyncResult; sweepFile; DeleteFile    *)
(***************************************************************************)

(* stat or ReadAllMeta fail on a file that has gone; handleFSEvent returns *)
(* after stat, but goes on to ProcessFile after SyncFile failed.           *)
SyncReads(j) ==
  LET p == job[j].path IN
  /\ job[j].at = "sync"
  /\ \/ /\ exists[p]
        /\ job' = [job EXCEPT ![j].at = "apply", ![j].tags = xattr[p]]
        /\ apart' = apart \ {p}
     \/ ~exists[p] /\ Goto(j, "done") /\ UNCHANGED apart
     \/ /\ ~exists[p] /\ job[j].kind = "event"
        /\ Goto(j, "prepare") /\ UNCHANGED apart
  /\ UNCHANGED <<exists, stores, skipped, changes, behind>>

(* SQLite's next rowid: one more than the largest in use.                  *)
NextId == IF \E p \in Paths : row[p] # 0 THEN Max({row[p] : p \in Paths}) + 1 ELSE 1

SyncKeepsTags(j) ==
  LET p == job[j].path
      id == IF row[p] # 0 THEN row[p] ELSE NextId
  IN /\ job[j].at = "apply"
     /\ row' = [row EXCEPT ![p] = id]
     /\ fileTags' = [fileTags EXCEPT ![id] = @ \cup job[j].tags]
     /\ Goto(j, "prepare")
     /\ UNCHANGED <<exists, xattr, graph, others>>

SyncAppliesToLastRow(j) ==
  LET p == job[j].path
      id == IF row[p] # 0 THEN NextId - 1 ELSE NextId
  IN /\ job[j].at = "apply"
     /\ row' = IF row[p] # 0 THEN row ELSE [row EXCEPT ![p] = id]
     /\ fileTags' = [fileTags EXCEPT ![id] = job[j].tags]
     /\ Goto(j, "prepare")
     /\ UNCHANGED <<exists, xattr, graph, others>>

(* SyncFileApply, one transaction: upsert the row, replace its tags.  The  *)
(* scan harvests only files that need it.                                  *)
SyncApplies(j) ==
  LET p == job[j].path
      id == IF row[p] # 0 THEN row[p] ELSE NextId
  IN /\ job[j].at = "apply"
     /\ row' = [row EXCEPT ![p] = id]
     /\ fileTags' = [fileTags EXCEPT ![id] = job[j].tags]
     /\ \/ Goto(j, "prepare")
        \/ job[j].kind = "scan" /\ Goto(j, "done")
     /\ behind' = behind \cup {p}
     /\ UNCHANGED <<exists, xattr, graph, skipped, changes, apart>>

(* preparePath: skip a marked path unless it has become writable.          *)
RunPrepares(j) ==
  LET b == job[j]
      on == IF b.kind = "async" THEN "asyncLookup" ELSE "read"
  IN /\ b.at = "prepare"
     /\ \/ b.path \notin skipped /\ Goto(j, on) /\ UNCHANGED skipped
        \/ b.path \in skipped /\ Goto(j, on) /\ skipped' = skipped \ {b.path}
        \/ b.path \in skipped /\ Goto(j, "done") /\ UNCHANGED skipped
     /\ UNCHANGED <<exists, stores, changes, history>>

(* handleAsyncResult looks the row up before it reads the xattrs.          *)
AsyncLooksUp(j) ==
  LET p == job[j].path IN
  /\ job[j].at = "asyncLookup"
  /\ job' = [job EXCEPT ![j].id = row[p],
                        ![j].at = IF row[p] = 0 THEN "done" ELSE "read"]
  /\ UNCHANGED <<exists, stores, others>>

(* readProcessingState; readAsyncState ignores the error on a file that    *)
(* has gone.                                                               *)
RunReads(j) ==
  LET p == job[j].path
      gone == ~exists[p] /\ job[j].kind # "async"
  IN /\ job[j].at = "read"
     /\ job' = [job EXCEPT ![j].at = IF gone THEN "done" ELSE "eval",
                           ![j].tags = IF exists[p] THEN xattr[p] ELSE {}]
     /\ UNCHANGED <<exists, stores, others>>

(* GetFileIDByPath, mergeAndPersistMeta, GetTagOverrides and Eval.  A      *)
(* permission error in writing metadata marks the path and ends the run    *)
(* (a sweep only logs it).  tag_overrides has no writer, so no rule is     *)
(* ever suppressed.                                                        *)
RunEvaluates(j) ==
  LET b == job[j]
      id == IF b.kind = "async" THEN b.id ELSE row[b.path]
      added == RuleTags[b.path] \ b.tags
      stop == id = 0 \/ added = {}
  IN /\ b.at = "eval"
     /\ \/ /\ job' = [job EXCEPT ![j].at = IF stop THEN "done" ELSE "write",
                                 ![j].id = id, ![j].tags = b.tags \cup added]
           /\ UNCHANGED skipped
        \/ /\ world.fails /\ exists[b.path] /\ b.kind # "sweep"
           /\ Goto(j, "done") /\ skipped' = skipped \cup {b.path}
     /\ UNCHANGED <<exists, stores, changes, history>>

(* applyDiff: WriteTags.  An error ends the run; unless it is a sweep, a   *)
(* permission error marks the path.                                        *)
RunWrites(j) ==
  LET b == job[j] IN
  /\ b.at = "write"
  /\ \/ /\ exists[b.path]
        /\ xattr' = [xattr EXCEPT ![b.path] = b.tags]
        /\ Goto(j, "setIndex") /\ UNCHANGED skipped
     \/ /\ ~exists[b.path]
        /\ Goto(j, "done") /\ UNCHANGED <<xattr, skipped>>
     \/ /\ exists[b.path] /\ world.fails
        /\ Goto(j, "done") /\ UNCHANGED xattr
        /\ skipped' = IF b.kind = "sweep" THEN skipped ELSE skipped \cup {b.path}
  /\ UNCHANGED <<exists, row, fileTags, graph, changes, history>>

(* SetFileTags by the id looked up earlier; a foreign key error ends the   *)
(* run.  Sweeps do not touch the graph.                                    *)
RunSetsIndex(j) ==
  LET b == job[j] IN
  /\ b.at = "setIndex"
  /\ fileTags' = IF Live(b.id) THEN [fileTags EXCEPT ![b.id] = b.tags] ELSE fileTags
  /\ Goto(j, IF Live(b.id) /\ b.kind # "sweep" THEN "graph" ELSE "done")
  /\ behind' = behind \cup {p \in {b.path} : b.kind = "sweep"}
  /\ UNCHANGED <<exists, xattr, row, graph, skipped, changes, apart>>

RunForgetsGraph(j) ==
  /\ job[j].at = "graph"
  /\ Goto(j, "done")
  /\ UNCHANGED <<exists, stores, others>>

RunSetsGraph(j) ==
  /\ job[j].at = "graph"
  /\ graph' = [graph EXCEPT ![job[j].path] = job[j].tags]
  /\ behind' = behind \ {job[j].path}
  /\ Goto(j, "done")
  /\ UNCHANGED <<exists, xattr, row, fileTags, skipped, changes, apart>>

(* DeleteFile; the tags cascade.                                           *)
Deletes(j) ==
  LET p == job[j].path IN
  /\ job[j].at = "delete"
  /\ fileTags' = [i \in Ids |-> IF i = row[p] THEN {} ELSE fileTags[i]]
  /\ row' = [row EXCEPT ![p] = 0]
  /\ behind' = behind \cup {p}
  /\ Goto(j, "done")
  /\ UNCHANGED <<exists, xattr, graph, skipped, changes, apart>>

(* SIGHUP clears the marks (the sweep it starts is a job of its own).      *)
Reload ==
  /\ MayStart /\ skipped # {} /\ skipped' = {}
  /\ UNCHANGED <<exists, stores, job, changes, history>>

-----------------------------------------------------------------------------
(* Files appear, untagged, and disappear (external).                       *)
FileChanges(p) ==
  /\ MayStart /\ changes < world.changes
  /\ changes' = changes + 1
  /\ exists' = [exists EXCEPT ![p] = ~@]
  /\ xattr' = [xattr EXCEPT ![p] = {}]
  /\ apart' = apart \cup {p}
  /\ UNCHANGED <<row, fileTags, graph, job, skipped, behind>>

TagRequest(j) ==
  \/ TagReadsXattr(j) \/ TagWritesXattr(j) \/ TagLooksUp(j) \/ TagModifies(j)
  \/ TagRereads(j) \/ TagSetsGraph(j)

Run(j) ==
  \/ SyncReads(j) \/ SyncApplies(j) \/ RunPrepares(j) \/ AsyncLooksUp(j)
  \/ RunReads(j) \/ RunEvaluates(j) \/ RunWrites(j) \/ RunSetsIndex(j)
  \/ RunSetsGraph(j) \/ Deletes(j)

Step ==
  \/ \E j \in Jobs, p \in world.paths :
       \/ \E op \in AllOps, t \in Tags : StartTag(j, op, t, p)
       \/ \E t, d \in Tags : StartRetag(j, t, d, p)
       \/ \E kind \in AllKinds \ {"tag", "retag"} : StartRun(j, kind, p)
  \/ \E j \in Jobs : TagRequest(j) \/ Run(j)
  \/ Reload
  \/ \E p \in world.paths : FileChanges(p)

Next == Step /\ UNCHANGED world

Spec == Init /\ [][Next]_vars

-----------------------------------------------------------------------------
(***************************************************************************)
(* Properties                                                              *)
(***************************************************************************)

Quiet == Idle /\ ~world.overlap

(* When operations run one at a time and none is under way, the index      *)
(* holds exactly the tags in the xattrs, unless the file changed, an xattr *)
(* write failed or the FUSE mount retagged since SyncFile last read them.  *)
(* (CONTRIBUTING: "xattrs are the source of truth for tags and metadata.   *)
(* The index is a rebuildable cache".)                                     *)
StoresAgree ==
  Quiet => \A p \in Paths \ apart : exists[p] /\ row[p] # 0 => IndexTags(p) = xattr[p]

(* Under the same condition the graph has the tags of the index,           *)
(* whatever failed on the way, unless the last writer was one of those     *)
(* that leave the graph alone.  (graph/doc.go: "updated incrementally as   *)
(* files are tagged".)                                                     *)
GraphAgrees == Quiet => \A p \in Paths \ behind : graph[p] = IndexTags(p)

(* A tag a request added is in the index when the request has succeeded,   *)
(* if nothing but such requests ran on the file, however many at once (IPC *)
(* requests run on goroutines of their own).                               *)
IndexKeepsAdds ==
  \A j \in Jobs :
    /\ job[j].at = "done"
    /\ \A k \in Jobs : Started(k) /\ job[k].path = job[j].path =>
                        job[k].kind = "tag" /\ job[k].op = "add"
    => job[j].tag \in IndexTags(job[j].path)

(* What rules, requests and moves in the FUSE mount gave to the file.      *)
GivenTo(p) ==
  LET on == {j \in Jobs : Started(j) /\ job[j].path = p} IN
  RuleTags[p] \cup {job[j].tag : j \in {k \in on : /\ job[k].kind = "tag"
                                                 /\ job[k].op # "remove"}}
              \cup {job[j].dest : j \in {k \in on : job[k].kind = "retag"}}

(* No row is deleted while something else runs.                            *)
Undeleted == world.overlap => \A j \in Jobs : job[j].kind # "delete"

(* The graph never has a tag that nobody gave to the file, and neither     *)
(* does the index, unless a row is deleted while something else runs:      *)
(* SQLite gives the id of the last row away again, and a writer that       *)
(* looked it up before writes to the file that has it now (ModifyFileTags, *)
(* applyDiff).                                                             *)
OwnTagsOnly ==
  Undeleted =>
    \A p \in Paths : graph[p] \cup IndexTags(p) \subseteq GivenTo(p)
=============================================================================
