------------------------------ MODULE FileOps ------------------------------
(***************************************************************************)
(* The requests that change files: trash.go (MoveToTrash, RestoreFromTrash,*)
(* EmptyTrash) and the handlers of browser_handlers.go over them, the      *)
(* clipboard (Copy, Paste), RenameFile and CreateFile.  The server runs    *)
(* every request in a goroutine of its own and the handlers take no lock,  *)
(* so a request is a sequence of file system calls that those of others    *)
(* come between; a daemon that dies leaves it where it is.  Any call may   *)
(* fail (a full disk, permissions), which ends the request or is ignored   *)
(* as the code has it; one that fails at its first step changes nothing    *)
(* and is left out.                                                        *)
(*                                                                         *)
(* A name in a directory stands for an inode, an inode for its contents;   *)
(* a file's contents are called by the inode it was created as.  Directory *)
(* trees and the index row that is deleted with a file are left out.       *)
(***************************************************************************)
EXTENDS Naturals, Sequences, FiniteSets, SequencesExt

CONSTANTS
  Dirs,       \* directories
  Foreign,    \* those on another file system than the home directory
  Names,      \* base names
  Kinds,      \* the kinds of request there are
  Files,      \* the files there are to begin with, a sequence of paths
  MaxJobs,    \* bound on requests
  MaxInodes,  \* bound on files created
  MaxCrashes  \* bound on deaths of the daemon

AllKinds == {"trash", "delete", "restore", "empty", "copy", "paste", "rename", "create"}
Paths == Dirs \X Names
Inodes == 1 .. MaxInodes
Jobs == 1 .. MaxJobs   \* requests, in the order in which they arrive
Empty == 0   \* no inode, or the contents of a file of no length or cut short

ASSUME FilesAssumption ==
  /\ Foreign \subseteq Dirs /\ Kinds \subseteq AllKinds
  /\ Files \in Seq(Paths) /\ Len(Files) <= MaxInodes
  /\ \A i, k \in DOMAIN Files : Files[i] = Files[k] => i = k
  /\ {MaxJobs, MaxInodes, MaxCrashes} \subseteq Nat

VARIABLES
  fs,       \* the inode of each path
  data,     \* the contents of each inode
  born,     \* how many inodes have been used
  files,    \* the trash: the inode of each name in files/
  info,     \* what each name in info/ records: the original path, Cut, or NoPath
  clip,     \* clipboardPaths and clipboardIsMove
  job,      \* requests
  crashes,  \* deaths so far
  from,     \* history: the path each inode was moved to the trash from
  stray,    \* history: names whose info a failed call or a death left behind
  purged,   \* history: contents deleted or overwritten for a request
  crossed,  \* history: requests that touch the same trash names overlapped
  alone     \* history: the running requests no other request came between

disk == <<fs, data, born, files, info>>
history == <<from, stray, purged, crossed, alone>>
vars == <<disk, clip, job, crashes, history>>

\* The names MoveToTrash tries: the base name, then with _1, _2, ...
TrashNames == Names \X (0 .. MaxInodes)
NoPath == <<>>
Cut == <<NoPath>>   \* an info that holds no whole path
NoName == <<>>

\* Where a request stands: before it came, after it ended, and between.
Steps == {"stat", "openInfo", "writeInfo", "move", "undo", "moveBack", "removeInfo",
          "removeFiles", "removeInfos", "setMove", "next", "write"}
Records ==
  [kind : AllKinds \cup {"none"}, at : Steps \cup {"new", "done", "failed"},
   path : Paths \cup {NoPath}, name : TrashNames \cup {NoName},
   dest : Paths \cup {NoPath} \cup {<<d>> : d \in Dirs}, todo : SUBSET TrashNames,
   srcs : Seq(Paths), i : Nat \ {0}, move : BOOLEAN, inode : Inodes \cup {Empty},
   to : Inodes \cup {Empty}, was : Seq(Inodes \cup {Empty})]

TypeOK ==
  /\ fs \in [Paths -> Inodes \cup {Empty}]
  /\ data \in [Inodes -> Inodes \cup {Empty}]
  /\ born \in 0 .. MaxInodes
  /\ files \in [TrashNames -> Inodes \cup {Empty}]
  /\ info \in [TrashNames -> Paths \cup {NoPath, Cut}]
  /\ clip \in [paths : Seq(Paths), move : BOOLEAN]
  /\ job \in [Jobs -> Records]
  /\ crashes \in 0 .. MaxCrashes
  /\ from \in [Inodes -> Paths \cup {NoPath}]
  /\ stray \subseteq TrashNames /\ purged \subseteq Inodes
  /\ crossed \in BOOLEAN /\ alone \subseteq Jobs

Blank == [kind |-> "none", at |-> "new", path |-> NoPath, name |-> NoName, dest |-> NoPath,
          todo |-> {}, srcs |-> <<>>, i |-> 1, move |-> FALSE, inode |-> Empty,
          to |-> Empty, was |-> <<>>]

Init ==
  /\ fs = [p \in Paths |-> IF p \in ToSet(Files) THEN CHOOSE i \in DOMAIN Files : Files[i] = p
                           ELSE Empty]
  /\ data = [i \in Inodes |-> IF i <= Len(Files) THEN i ELSE Empty]
  /\ born = Len(Files)
  /\ files = [t \in TrashNames |-> Empty]
  /\ info = [t \in TrashNames |-> NoPath]
  /\ clip = [paths |-> <<>>, move |-> FALSE]
  /\ job = [j \in Jobs |-> Blank]
  /\ crashes = 0
  /\ from = [i \in Inodes |-> NoPath]
  /\ stray = {} /\ purged = {} /\ crossed = FALSE /\ alone = {}

-----------------------------------------------------------------------------
(***************************************************************************)
(* Requests.                                                               *)
(***************************************************************************)
Running(j) == job[j].at \notin {"new", "done", "failed"}
Idle == \A j \in Jobs : ~Running(j)
Base(p) == p[2]

\* Requests over the same names of the trash.
Interfere(r1, r2) ==
  /\ {r1.kind, r2.kind} \subseteq {"trash", "restore", "empty"}
  /\ "empty" \notin {r1.kind, r2.kind} => r1.name[1] = r2.name[1]

\* Of a request that has finished only what was asked of a copy still matters.
Trimmed(r) ==
  IF r.at \notin {"done", "failed"} THEN r
  ELSE IF r.at = "done" /\ r.kind = "copy"
  THEN [Blank EXCEPT !.kind = "copy", !.at = "done", !.move = r.move]
  ELSE [Blank EXCEPT !.at = "done"]

\* Every step of a request: its record becomes r.
Step(j, r) ==
  /\ alone' = (IF job[j].at = "new" /\ Idle THEN {j} ELSE alone \cap {j})
  /\ job' = [k \in Jobs |-> IF k = j /\ k \in alone' THEN r
                             ELSE Trimmed(IF k = j THEN r ELSE job[k])]
  /\ crossed' = (crossed \/ \E k \in Jobs \ {j} :
                    Running(k) /\ (Interfere(job[j], job[k]) \/ Interfere(r, job[k])))
  /\ UNCHANGED crashes

Goto(j, at) == Step(j, [job[j] EXCEPT !.at = at])

\* The first step of a request.
New(j, kind, r) ==
  /\ kind \in Kinds
  /\ job[j].at = "new" /\ \A k \in 1 .. j - 1 : job[k].at # "new"
  /\ Step(j, [r EXCEPT !.kind = kind])

-----------------------------------------------------------------------------
(***************************************************************************)
(* MoveToTrash.                                                            *)
(***************************************************************************)
SameDevice(p) == p[1] \notin Foreign

\* Mutant: takes the base name without looking for it in files/.
StatNameBlind(r) == [r EXCEPT !.at = "openInfo"]

\* One turn of the loop that looks for a name free in files/.
StatName(r) ==
  IF files[r.name] = Empty THEN [r EXCEPT !.at = "openInfo"]
  ELSE [r EXCEPT !.at = "stat", !.name = <<@[1], @[2] + 1>>]

StartTrash(j, p) ==
  /\ fs[p] # Empty
  /\ New(j, "trash", StatName([Blank EXCEPT !.path = p, !.name = <<Base(p), 0>>]))
  /\ UNCHANGED <<disk, clip, from, stray, purged>>

StatNext(j) ==
  /\ job[j].at = "stat" /\ (files[job[j].name] # Empty => job[j].name[2] < MaxInodes)
  /\ Step(j, StatName(job[j]))
  /\ UNCHANGED <<disk, clip, from, stray, purged>>

\* os.WriteFile: the file is opened and cut, then written.
OpenInfo(j) ==
  LET t == job[j].name
  IN  /\ job[j].at = "openInfo"
      /\ \/ /\ info' = [info EXCEPT ![t] = Cut]
            /\ stray' = stray \ {t}
            /\ Goto(j, "writeInfo")
         \/ Goto(j, "failed") /\ UNCHANGED <<info, stray>>
      /\ UNCHANGED <<fs, data, born, files, clip, from, purged>>

\* A write that fails has written a part, with or without the whole path.
WriteInfo(j) ==
  LET t == job[j].name
  IN  /\ job[j].at = "writeInfo"
      /\ \/ /\ info' = [info EXCEPT ![t] = job[j].path]
            /\ Goto(j, "move") /\ UNCHANGED stray
         \/ /\ \E part \in {Cut, job[j].path} : info' = [info EXCEPT ![t] = part]
            /\ stray' = stray \cup {t}
            /\ Goto(j, "failed")
      /\ UNCHANGED <<fs, data, born, files, clip, from, purged>>

\* Mutant: the info is left where it is.
MoveFileUndoesNothing(j) ==
  LET p == job[j].path
      t == job[j].name
  IN  /\ job[j].at = "move"
      /\ \/ /\ fs[p] # Empty /\ SameDevice(p)
            /\ files' = [files EXCEPT ![t] = fs[p]]
            /\ fs' = [fs EXCEPT ![p] = Empty]
            /\ from' = [from EXCEPT ![fs[p]] = p]
            /\ Goto(j, "done")
         \/ Goto(j, "failed") /\ UNCHANGED <<files, fs, from>>
      /\ UNCHANGED <<data, born, info, clip, stray, purged>>

\* The rename fails if the file is gone, on another file system, or it fails.
MoveFile(j) ==
  LET p == job[j].path
      t == job[j].name
  IN  /\ job[j].at = "move"
      /\ \/ /\ fs[p] # Empty /\ SameDevice(p)
            /\ files' = [files EXCEPT ![t] = fs[p]]
            /\ fs' = [fs EXCEPT ![p] = Empty]
            /\ from' = [from EXCEPT ![fs[p]] = p]
            /\ Goto(j, "done")
         \/ Goto(j, "undo") /\ UNCHANGED <<files, fs, from>>
      /\ UNCHANGED <<data, born, info, clip, stray, purged>>

\* os.Remove of a request's own info, whose error nobody looks at.
RemoveIgnored(j) ==
  LET t == job[j].name
  IN  \/ info' = [info EXCEPT ![t] = NoPath] /\ UNCHANGED stray
      \/ stray' = stray \cup {t} /\ UNCHANGED info

RemoveOwnInfo(j) ==
  /\ job[j].at = "undo"
  /\ RemoveIgnored(j)
  /\ Goto(j, "failed")
  /\ UNCHANGED <<fs, data, born, files, clip, from, purged>>

-----------------------------------------------------------------------------
(***************************************************************************)
(* RestoreFromTrash and EmptyTrash.                                        *)
(***************************************************************************)
\* What an inode held is gone with its last name.
Gone(inode) == IF inode = Empty THEN {} ELSE {data[inode]} \ {Empty}

\* A request for an entry the trash lists; what is there of an info cut short
\* may name any path.
ParseInfo(j, t) ==
  /\ info[t] # NoPath
  /\ \E dst \in IF info[t] = Cut THEN Paths ELSE {info[t]} :
       New(j, "restore", [Blank EXCEPT !.at = "moveBack", !.name = t, !.dest = dst])
  /\ UNCHANGED <<disk, clip, from, stray, purged>>

\* The rename replaces a file that has taken the path since.
MoveBack(j) ==
  LET t == job[j].name
      dst == job[j].dest
  IN  /\ job[j].at = "moveBack"
      /\ \/ /\ files[t] # Empty /\ SameDevice(dst)
            /\ fs' = [fs EXCEPT ![dst] = files[t]]
            /\ files' = [files EXCEPT ![t] = Empty]
            /\ purged' = purged \cup Gone(fs[dst])
            /\ Goto(j, "removeInfo")
         \/ Goto(j, "failed") /\ UNCHANGED <<fs, files, purged>>
      /\ UNCHANGED <<data, born, info, clip, from, stray>>

RemoveInfo(j) ==
  /\ job[j].at = "removeInfo"
  /\ RemoveIgnored(j)
  /\ Goto(j, "done")
  /\ UNCHANGED <<fs, data, born, files, clip, from, purged>>

\* removeDir: the names are read once, then removed one by one; files/ first.
ListFiles(j) ==
  /\ New(j, "empty", [Blank EXCEPT !.at = "removeFiles",
                                   !.todo = {t \in TrashNames : files[t] # Empty}])
  /\ UNCHANGED <<disk, clip, from, stray, purged>>

\* Entries ListTrash shows though the file is not there.
Orphans == {t \in TrashNames : files[t] = Empty /\ info[t] # NoPath}

\* The first call that fails ends it.
GiveUp(j) ==
  /\ Goto(j, "failed")
  /\ stray' = stray \cup Orphans

RemoveFile(j, t) ==
  /\ job[j].at = "removeFiles" /\ t \in job[j].todo
  /\ \/ /\ files' = [files EXCEPT ![t] = Empty]
        /\ purged' = purged \cup Gone(files[t])
        /\ Step(j, [job[j] EXCEPT !.todo = @ \ {t}]) /\ UNCHANGED stray
     \/ GiveUp(j) /\ UNCHANGED <<files, purged>>
  /\ UNCHANGED <<fs, data, born, info, clip, from>>

ListInfo(j) ==
  /\ job[j].at = "removeFiles" /\ job[j].todo = {}
  /\ \/ /\ Step(j, [job[j] EXCEPT !.at = "removeInfos",
                                   !.todo = {t \in TrashNames : info[t] # NoPath}])
        /\ UNCHANGED stray
     \/ GiveUp(j)
  /\ UNCHANGED <<disk, clip, from, purged>>

RemoveInfoOf(j, t) ==
  /\ job[j].at = "removeInfos" /\ t \in job[j].todo
  /\ \/ /\ info' = [info EXCEPT ![t] = NoPath]
        /\ stray' = stray \ {t}
        /\ Step(j, [job[j] EXCEPT !.todo = @ \ {t}])
     \/ GiveUp(j) /\ UNCHANGED info
  /\ UNCHANGED <<fs, data, born, files, clip, from, purged>>

Emptied(j) ==
  /\ job[j].at = "removeInfos" /\ job[j].todo = {}
  /\ Goto(j, "done")
  /\ UNCHANGED <<disk, clip, from, stray, purged>>

-----------------------------------------------------------------------------
(***************************************************************************)
(* The clipboard, which the requests of all clients share.                 *)
(***************************************************************************)
SetPaths(j, srcs, move) ==
  /\ New(j, "copy", [Blank EXCEPT !.at = "setMove", !.move = move])
  /\ clip' = [clip EXCEPT !.paths = srcs]
  /\ UNCHANGED <<disk, from, stray, purged>>

\* Mutant: only the paths are set.
SetMoveForgotten(j) ==
  /\ job[j].at = "setMove"
  /\ Goto(j, "done")
  /\ UNCHANGED <<disk, clip, from, stray, purged>>

SetMove(j) ==
  /\ job[j].at = "setMove"
  /\ clip' = [clip EXCEPT !.move = job[j].move]
  /\ Goto(j, "done")
  /\ UNCHANGED <<disk, from, stray, purged>>

Held(srcs) == [i \in DOMAIN srcs |-> IF fs[srcs[i]] = Empty THEN Empty ELSE data[fs[srcs[i]]]]

\* The paths are read once, whether to move them before each of them.
BeginPaste(j, d) ==
  /\ New(j, "paste", [Blank EXCEPT !.at = IF clip.paths = <<>> THEN "done" ELSE "next",
                                   !.srcs = clip.paths, !.dest = <<d>>, !.was = Held(clip.paths)])
  /\ UNCHANGED <<disk, clip, from, stray, purged>>

Source(j) == job[j].srcs[job[j].i]
Target(j) == <<job[j].dest[1], Base(Source(j))>>
NextSource(j) == job[j].at = "next" /\ job[j].i <= Len(job[j].srcs)

PasteByMove(j) ==
  LET src == Source(j)
      dst == Target(j)
  IN  /\ NextSource(j) /\ clip.move
      /\ \/ /\ fs[src] # Empty /\ (SameDevice(src) <=> SameDevice(dst))
            /\ fs' = IF src = dst THEN fs ELSE [fs EXCEPT ![dst] = fs[src], ![src] = Empty]
            /\ purged' = purged \cup (IF src = dst THEN {} ELSE Gone(fs[dst]))
            /\ Step(j, [job[j] EXCEPT !.i = @ + 1])
         \/ Goto(j, "failed") /\ UNCHANGED <<fs, purged>>
      /\ UNCHANGED <<data, born, files, info, clip, from, stray>>

\* copyRecursive opens the source and cuts the target to no length, even if
\* they are the same file.
OpenCopy(j) ==
  LET src == Source(j)
      dst == Target(j)
      to == IF fs[dst] = Empty THEN born + 1 ELSE fs[dst]
  IN  /\ NextSource(j) /\ ~clip.move
      /\ \/ /\ fs[src] # Empty /\ to \in Inodes
            /\ fs' = [fs EXCEPT ![dst] = to]
            /\ data' = [data EXCEPT ![to] = Empty]
            /\ born' = IF to > born THEN to ELSE born
            /\ purged' = purged \cup Gone(fs[dst])
            /\ Step(j, [job[j] EXCEPT !.at = "write", !.inode = fs[src], !.to = to])
         \/ Goto(j, "failed") /\ UNCHANGED <<fs, data, born, purged>>
      /\ UNCHANGED <<files, info, clip, from, stray>>

WriteCopy(j) ==
  /\ job[j].at = "write"
  /\ \/ /\ data' = [data EXCEPT ![job[j].to] = data[job[j].inode]]
        /\ Step(j, [job[j] EXCEPT !.at = "next", !.i = @ + 1, !.to = Empty])
     \/ Goto(j, "failed") /\ UNCHANGED data
  /\ UNCHANGED <<fs, born, files, info, clip, from, stray, purged>>

EndPaste(j) ==
  /\ job[j].at = "next" /\ job[j].i > Len(job[j].srcs)
  /\ clip' = IF clip.move THEN [clip EXCEPT !.paths = <<>>] ELSE clip
  /\ Goto(j, "done")
  /\ UNCHANGED <<disk, from, stray, purged>>

-----------------------------------------------------------------------------
(***************************************************************************)
(* Requests of one call.                                                   *)
(***************************************************************************)
Only == [Blank EXCEPT !.at = "done"]

\* os.RemoveAll, when the configuration turns the trash off.
RemoveForGood(j, p) ==
  /\ fs[p] # Empty
  /\ New(j, "delete", Only)
  /\ fs' = [fs EXCEPT ![p] = Empty]
  /\ purged' = purged \cup Gone(fs[p])
  /\ UNCHANGED <<data, born, files, info, clip, from, stray>>

\* os.Rename: a file that has the name is replaced.
RenameFile(j, p, n) ==
  LET dst == <<p[1], n>>
  IN  /\ fs[p] # Empty /\ p # dst
      /\ New(j, "rename", Only)
      /\ fs' = [fs EXCEPT ![dst] = fs[p], ![p] = Empty]
      /\ purged' = purged \cup Gone(fs[dst])
      /\ UNCHANGED <<data, born, files, info, clip, from, stray>>

\* O_EXCL: never over a file; what is written into it later is its own.
CreateFile(j, p) ==
  /\ fs[p] = Empty /\ born + 1 \in Inodes
  /\ New(j, "create", Only)
  /\ fs' = [fs EXCEPT ![p] = born + 1]
  /\ data' = [data EXCEPT ![born + 1] = born + 1]
  /\ born' = born + 1
  /\ UNCHANGED <<files, info, clip, from, stray, purged>>

\* The daemon dies: requests stop where they are, the clipboard is forgotten.
Crash ==
  /\ crashes < MaxCrashes
  /\ crashes' = crashes + 1
  /\ job' = [j \in Jobs |-> IF Running(j) THEN [job[j] EXCEPT !.at = "failed"] ELSE job[j]]
  /\ clip' = [paths |-> <<>>, move |-> FALSE]
  /\ alone' = {}
  /\ stray' = stray \cup Orphans
  /\ UNCHANGED <<disk, from, purged, crossed>>

-----------------------------------------------------------------------------
\* What the user selects: one file or two.
Selections ==
  LET there == {p \in Paths : fs[p] # Empty}
  IN  {<<p>> : p \in there} \cup {s \in there \X there : s[1] # s[2]}

MoveToTrash(j) ==
  \/ \E p \in Paths : StartTrash(j, p)
  \/ StatNext(j) \/ OpenInfo(j) \/ WriteInfo(j) \/ MoveFile(j) \/ RemoveOwnInfo(j)
RestoreFromTrash(j) ==
  \/ \E t \in TrashNames : ParseInfo(j, t)
  \/ MoveBack(j) \/ RemoveInfo(j)
EmptyTrash(j) ==
  \/ ListFiles(j) \/ ListInfo(j) \/ Emptied(j)
  \/ \E t \in TrashNames : RemoveFile(j, t) \/ RemoveInfoOf(j, t)
Copy(j) ==
  \/ \E srcs \in Selections, move \in BOOLEAN : SetPaths(j, srcs, move)
  \/ SetMove(j)
Paste(j) ==
  \/ \E d \in Dirs : BeginPaste(j, d)
  \/ PasteByMove(j) \/ OpenCopy(j) \/ WriteCopy(j) \/ EndPaste(j)
Single(j) ==
  \/ \E p \in Paths : RemoveForGood(j, p) \/ CreateFile(j, p)
  \/ \E p \in Paths, n \in Names : RenameFile(j, p, n)

Next ==
  \/ \E j \in Jobs :
       \/ MoveToTrash(j) \/ RestoreFromTrash(j) \/ EmptyTrash(j)
       \/ Copy(j) \/ Paste(j) \/ Single(j)
  \/ Crash

Spec == Init /\ [][Next]_vars

-----------------------------------------------------------------------------
(***************************************************************************)
(* Properties.                                                             *)
(***************************************************************************)
\* Every file in the trash has an info that names the path it came from, in
\* the middle of requests, whichever call fails and wherever the daemon dies
\* (the order of the writes in MoveToTrash, RestoreFromTrash and EmptyTrash),
\* unless requests over the same names overlapped; and between requests what
\* ListTrash shows is there, except the entries that a write or removal of an
\* info that failed, an emptying that gave up or a death left behind, until
\* the name is used again or the trash is emptied: nothing else leaves any,
\* so a move that failed takes its own back.
TrashedRestorable ==
  ~crossed => \A t \in TrashNames :
    IF files[t] # Empty THEN info[t] = from[files[t]]
    ELSE Idle => info[t] = NoPath \/ t \in stray

\* Whatever overlaps and fails, contents disappear only because they were
\* deleted for good or replaced at their path by another file (unless moves to
\* the trash raced for a name).
Linked(i) == (\E p \in Paths : fs[p] = i) \/ (\E t \in TrashNames : files[t] = i)
NothingLost ==
  ~crossed => \A c \in 1 .. Len(Files) : c \notin purged =>
                \E i \in Inodes : data[i] = c /\ Linked(i)

\* A paste nothing came between leaves every source's contents under its name
\* in the destination, and the source itself exactly if it was a copy that was
\* asked for; as long as no source is in the destination already and no two
\* have the same name.
Copies == {k \in Jobs : job[k].kind = "copy"}
PasteFaithful ==
  \A j \in alone : \A k \in Copies :
    LET srcs == job[j].srcs
    IN  /\ job[j].kind = "paste" /\ job[j].at = "done"
        /\ job[k].at = "done" /\ Copies = {k}
        /\ \A i \in DOMAIN srcs : srcs[i][1] # job[j].dest[1]
        /\ \A i, l \in DOMAIN srcs : Base(srcs[i]) = Base(srcs[l]) => i = l
        => \A i \in DOMAIN srcs :
             LET dst == <<job[j].dest[1], Base(srcs[i])>>
             IN  /\ Held(srcs)[i] = IF job[k].move THEN Empty ELSE job[j].was[i]
                 /\ fs[dst] # Empty /\ data[fs[dst]] = job[j].was[i]
=============================================================================
