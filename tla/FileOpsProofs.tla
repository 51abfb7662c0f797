--------------------------- MODULE FileOpsProofs ---------------------------
(***************************************************************************)
(* What requests never do to the trash and to the contents of files, and   *)
(* what a paste does to them, for any directories, names, files and any    *)
(* number of requests, calls that fail and deaths of the daemon.           *)
(***************************************************************************)
EXTENDS FileOps, TLAPS

\* What kind of request is where, and what its record holds there.
PhaseOK(r) ==
  /\ r.at = "new" => r = Blank
  /\ r.at \in {"stat", "openInfo", "writeInfo", "move", "undo"} =>
       r.kind = "trash" /\ r.name \in TrashNames /\ r.path \in Paths
  /\ r.at \in {"moveBack", "removeInfo"} =>
       r.kind = "restore" /\ r.name \in TrashNames /\ r.dest \in Paths
  /\ r.at \in {"removeFiles", "removeInfos"} => r.kind = "empty"
  /\ r.at \in {"next", "write"} => r.kind = "paste" /\ \E d \in Dirs : r.dest = <<d>>
  /\ r.at = "write" => r.inode \in Inodes /\ r.to \in Inodes

Phases == \A j \in Jobs : PhaseOK(job[j])

\* An inode has one name, and those not used yet have none.
OneName ==
  /\ \A p, q \in Paths : fs[p] = fs[q] /\ fs[p] # Empty => p = q
  /\ \A t, u \in TrashNames : files[t] = files[u] /\ files[t] # Empty => t = u
  /\ \A p \in Paths, t \in TrashNames : fs[p] = files[t] => fs[p] = Empty
Numbered ==
  /\ Len(Files) <= born
  /\ \A p \in Paths : fs[p] <= born
  /\ \A t \in TrashNames : files[t] <= born

\* Running requests over the same names of the trash.
Apart ==
  \A j, k \in Jobs : j # k /\ Running(j) /\ Running(k) => ~Interfere(job[j], job[k])

\* What a request relies on while no other touches its names.
Relies(r) ==
  /\ r.at \in {"openInfo", "writeInfo", "move", "undo", "removeInfo"} => files[r.name] = Empty
  /\ r.at = "move" => info[r.name] = r.path
  /\ r.at = "removeFiles" => \A t \in TrashNames : files[t] # Empty => t \in r.todo
  /\ r.at = "removeInfos" => \A t \in TrashNames : files[t] = Empty
Reliance == \A j \in Jobs : Relies(job[j])

Restorable == \A t \in TrashNames : files[t] # Empty => info[t] = from[files[t]]

\* The request that will remove an info without a file, give it one or leave
\* it behind; of each such info there is one, or it has been left behind.
Answers(r, t) ==
  \/ r.at \in {"writeInfo", "move", "undo", "removeInfo"} /\ r.name = t
  \/ r.at = "removeFiles"
  \/ r.at = "removeInfos" /\ t \in r.todo
Answered ==
  \A t \in Orphans : t \in stray \/ \E j \in Jobs : Answers(job[j], t)

\* The file whose contents have neither been deleted nor replaced has them
\* still, and a name; a copy is written only over contents that were replaced.
Kept ==
  \A c \in 1 .. Len(Files) : c \notin purged => data[c] = c /\ Linked(c)
Overwrites ==
  \A j \in Jobs : job[j].at = "write" /\ job[j].to \in 1 .. Len(Files) => job[j].to \in purged

TrashInv == Apart /\ Reliance /\ Restorable /\ Answered /\ Kept /\ Overwrites
FileOpsInv == TypeOK /\ Phases /\ OneName /\ Numbered /\ (~crossed => TrashInv)

-----------------------------------------------------------------------------
(***************************************************************************)
(* Records of requests.                                                    *)
(***************************************************************************)
\* A request's step leaves those of the others that run as they are.
After(j, r) ==
  \A k \in Jobs :
    /\ k = j => IF r.at \in Steps THEN job'[k] = r ELSE job'[k].at \notin Steps
    /\ k # j => IF job[k].at \in Steps THEN job'[k] = job[k] ELSE job'[k].at \notin Steps

LEMMA Distinct ==
  /\ NoPath \notin Paths /\ Cut \notin Paths /\ Cut # NoPath /\ NoName \notin TrashNames /\ Empty \notin Inodes
  /\ Inodes \subseteq Nat /\ MaxInodes \in Nat
BY FilesAssumption DEF NoPath, Cut, Paths, NoName, TrashNames, Empty, Inodes

LEMMA BlankRecord == Blank \in Records /\ PhaseOK(Blank)
BY Distinct DEF Blank, Records, Empty, PhaseOK, Steps

\* Nothing but how it ended is kept of a request that ended.
LEMMA TrimmedRecord ==
  ASSUME NEW r \in Records, PhaseOK(r)
  PROVE  /\ Trimmed(r) \in Records /\ PhaseOK(Trimmed(r))
         /\ r.at \in Steps => Trimmed(r) = r
         /\ r.at \notin Steps => Trimmed(r).at \notin Steps
<1>1. CASE r.at \notin {"done", "failed"}
  BY <1>1 DEF Trimmed, Records, Steps
<1>2. CASE r.at = "done" /\ r.kind = "copy"
  BY <1>2, BlankRecord DEF Trimmed, Records, Steps, PhaseOK, Blank
<1>3. CASE r.at \in {"done", "failed"} /\ ~(r.at = "done" /\ r.kind = "copy")
  BY <1>3, BlankRecord DEF Trimmed, Records, Steps, PhaseOK, Blank
<1> QED BY <1>1, <1>2, <1>3

\* Every step of a request keeps the records in order.
LEMMA StepRecords ==
  ASSUME TypeOK, Phases, NEW j \in Jobs,
         NEW r \in Records, PhaseOK(r), r.at # "new", Step(j, r)
  PROVE  /\ job' \in [Jobs -> Records] /\ Phases'
         /\ crashes' = crashes /\ crossed' \in BOOLEAN /\ alone' \subseteq Jobs
         /\ After(j, r)
<1>1. \A k \in Jobs : job[k] \in Records /\ PhaseOK(job[k])
  BY DEF TypeOK, Phases
<1>2. crashes' = crashes /\ crossed' \in BOOLEAN /\ alone' \subseteq Jobs
  BY DEF Step, TypeOK
<1>3. ASSUME NEW k \in Jobs
      PROVE  job'[k] \in {job[k], Trimmed(job[k])} \/ (k = j /\ job'[k] \in {r, Trimmed(r)})
  BY DEF Step
<1>4. ASSUME NEW k \in Jobs, k # j
      PROVE  job'[k] = Trimmed(job[k])
  BY <1>4 DEF Step
<1>5. job'[j] \in {r, Trimmed(r)}
  BY DEF Step
<1>6. job' \in [Jobs -> Records] /\ Phases'
  <2>1. job' = [k \in Jobs |-> job'[k]]
    BY DEF Step
  <2>2. \A k \in Jobs : job'[k] \in Records /\ PhaseOK(job'[k])
    BY <1>1, <1>4, <1>5, TrimmedRecord
  <2>3. Phases'
    BY <2>2 DEF Phases, PhaseOK
  <2> QED BY <2>1, <2>2, <2>3
<1>7. After(j, r)
  BY <1>1, <1>4, <1>5, TrimmedRecord DEF After
<1> QED BY <1>2, <1>6, <1>7

\* Requests that have not overlapped do not overlap now.
LEMMA StepApart ==
  ASSUME TypeOK, Phases, ~crossed => Apart, NEW j \in Jobs,
         NEW r \in Records, PhaseOK(r), r.at # "new", Step(j, r), ~crossed'
  PROVE  /\ ~crossed /\ Apart'
         /\ \A k \in Jobs \ {j} : job[k].at \in Steps =>
              ~Interfere(job[j], job[k]) /\ ~Interfere(r, job[k])
<1>1. /\ ~crossed
      /\ \A k \in Jobs \ {j} : Running(k) => ~Interfere(job[j], job[k]) /\ ~Interfere(r, job[k])
  BY DEF Step
<1>2. \A k \in Jobs : Running(k) <=> job[k].at \in Steps
  BY DEF TypeOK, Records, Steps, Running
<1>3. \A k \in Jobs : Running(k)' <=> job'[k].at \in Steps
  BY StepRecords DEF Records, Steps, Running
<1>4. ASSUME NEW k \in Jobs, NEW l \in Jobs, k # l, Running(k)', Running(l)'
      PROVE  ~Interfere(job'[k], job'[l])
  <2>1. After(j, r)
    BY StepRecords
  <2>2. \A m \in Jobs : job'[m].at \in Steps =>
          IF m = j THEN job'[m] = r ELSE job'[m] = job[m] /\ job[m].at \in Steps
    BY <2>1 DEF After
  <2>3. \A q, s : Interfere(q, s) => Interfere(s, q)
    BY DEF Interfere
  <2>4. Apart
    BY <1>1
  <2>5. CASE k = j
    BY <1>1, <1>2, <1>3, <1>4, <2>2, <2>5
  <2>6. CASE l = j
    BY <1>1, <1>2, <1>3, <1>4, <2>2, <2>3, <2>6
  <2>7. CASE k # j /\ l # j
    BY <1>2, <1>3, <1>4, <2>2, <2>4, <2>7 DEF Apart
  <2> QED BY <2>5, <2>6, <2>7
<1> QED BY <1>1, <1>2, <1>4 DEF Apart

-----------------------------------------------------------------------------
(***************************************************************************)
(* Steps.                                                                  *)
(***************************************************************************)
\* What a step must say of the infos its request was to answer for.
Releases(r, s) ==
  \A t \in Orphans : Answers(r, t) => t \in stray' \/ Answers(s, t)
Grows == stray \subseteq stray' /\ stray' \subseteq TrashNames

\* A step that leaves the trash alone.
LEMMA TrashUntouched ==
  ASSUME FileOpsInv, NEW j \in Jobs, NEW r \in Records, PhaseOK(r), r.at # "new",
         Step(j, r), UNCHANGED <<files, info, from>>, Grows, ~crossed',
         ~crossed => Relies(r) /\ Releases(job[j], r)
  PROVE  ~crossed /\ Apart' /\ Reliance' /\ Restorable' /\ Answered'
<1>1. ~crossed /\ Apart'
  BY StepApart DEF FileOpsInv, TrashInv
<1>2. After(j, r) /\ crashes' = crashes
  BY StepRecords DEF FileOpsInv
<1>3. TrashInv /\ Relies(r) /\ Releases(job[j], r)
  BY <1>1 DEF FileOpsInv
<1>4. Restorable'
  BY <1>3 DEF TrashInv, Restorable
<1>5. ASSUME NEW k \in Jobs
      PROVE  Relies(job[k])'
  <2>1. \/ job'[k].at \notin Steps
        \/ job'[k] = r
        \/ job'[k] = job[k]
    BY <1>2 DEF After
  <2>2. Relies(r) /\ Relies(job[k])
    BY <1>3 DEF TrashInv, Reliance
  <2>3. CASE job'[k].at \notin Steps
    BY <2>3 DEF Relies, Steps
  <2>4. CASE job'[k] = r \/ job'[k] = job[k]
    BY <2>2, <2>4 DEF Relies
  <2> QED BY <2>1, <2>3, <2>4
<1>6. ASSUME NEW t \in Orphans', t \notin stray'
      PROVE  \E k \in Jobs : Answers(job[k], t)'
  <2>1. t \in Orphans /\ t \notin stray
    BY <1>6 DEF Orphans, Grows
  <2>2. PICK k \in Jobs : Answers(job[k], t)
    BY <1>3, <2>1 DEF TrashInv, Answered
  <2>3. CASE k # j
    BY <1>2, <2>2, <2>3 DEF After, Answers, Steps
  <2>4. CASE k = j
    <3>1. Answers(r, t)
      BY <1>3, <1>6, <2>1, <2>2, <2>4 DEF Releases
    <3>2. job'[j] = r
      BY <1>2, <3>1 DEF After, Answers, Steps
    <3> QED BY <3>1, <3>2 DEF Answers
  <2> QED BY <2>3, <2>4
<1> QED BY <1>1, <1>4, <1>5, <1>6 DEF Reliance, Answered

\* A step that leaves everything on disk alone, and infos behind.
LEMMA DiskLeft ==
  ASSUME FileOpsInv, NEW j \in Jobs, NEW r \in Records, PhaseOK(r), r.at # "new",
         Step(j, r), UNCHANGED <<disk, from, purged>>, Grows,
         clip' \in [paths : Seq(Paths), move : BOOLEAN],
         ~crossed => Relies(r) /\ Releases(job[j], r), r.at # "write"
  PROVE  FileOpsInv'
<1>1. /\ job' \in [Jobs -> Records] /\ Phases' /\ After(j, r)
      /\ crashes' = crashes /\ crossed' \in BOOLEAN /\ alone' \subseteq Jobs
  BY StepRecords DEF FileOpsInv
<1>2. TypeOK'
  BY <1>1 DEF FileOpsInv, TypeOK, disk, Grows
<1>3. OneName' /\ Numbered'
  BY DEF FileOpsInv, OneName, Numbered, disk
<1>4. ASSUME ~crossed'
      PROVE  TrashInv'
  <2>1. ~crossed /\ Apart' /\ Reliance' /\ Restorable' /\ Answered'
    BY <1>4, TrashUntouched DEF disk
  <2>2. Kept'
    BY <2>1 DEF FileOpsInv, TrashInv, Kept, Linked, disk
  <2>3. Overwrites'
    BY <1>1, <2>1 DEF FileOpsInv, TrashInv, Overwrites, After, Steps
  <2> QED BY <2>1, <2>2, <2>3 DEF TrashInv
<1> QED BY <1>1, <1>2, <1>3, <1>4 DEF FileOpsInv

LEMMA DiskUntouched ==
  ASSUME FileOpsInv, NEW j \in Jobs, NEW r \in Records, PhaseOK(r), r.at # "new",
         Step(j, r), UNCHANGED <<disk, from, stray, purged>>,
         clip' \in [paths : Seq(Paths), move : BOOLEAN],
         ~crossed => Relies(r) /\ Releases(job[j], r), r.at # "write"
  PROVE  FileOpsInv'
<1>1. Grows
  BY DEF FileOpsInv, TypeOK, Grows
<1> QED BY <1>1, DiskLeft

\* A request that ends at a call that fails leaves the infos behind it was to
\* answer for.
LEMMA Fails ==
  ASSUME FileOpsInv, NEW j \in Jobs, Goto(j, "failed"), UNCHANGED <<disk, clip, from, purged>>,
         Grows, \A t \in Orphans : Answers(job[j], t) => t \in stray'
  PROVE  FileOpsInv'
<1> DEFINE r == [job[j] EXCEPT !.at = "failed"]
<1>1. Step(j, r) /\ job[j] \in Records
  BY DEF Goto, FileOpsInv, TypeOK
<1>2. r \in Records /\ r.at = "failed"
  BY <1>1 DEF Records
<1> HIDE DEF r
<1>3. PhaseOK(r) /\ Relies(r) /\ Releases(job[j], r)
  BY <1>2 DEF PhaseOK, Relies, Releases
<1> QED BY <1>1, <1>2, <1>3, DiskLeft DEF FileOpsInv, TypeOK

LEMMA FailsAlone ==
  ASSUME FileOpsInv, NEW j \in Jobs, Goto(j, "failed"), UNCHANGED <<disk, clip, from, stray, purged>>,
         job[j].at \notin {"writeInfo", "move", "undo", "removeInfo", "removeFiles", "removeInfos"}
  PROVE  FileOpsInv'
<1>1. Grows /\ \A t \in Orphans : ~Answers(job[j], t)
  BY DEF FileOpsInv, TypeOK, Grows, Answers
<1> QED BY <1>1, Fails

\* A request that begins was blank, and leaves no info behind.
LEMMA Begins ==
  ASSUME FileOpsInv, NEW j \in Jobs, NEW kind, NEW r, New(j, kind, r)
  PROVE  /\ kind \in AllKinds /\ job[j] = Blank /\ Step(j, [r EXCEPT !.kind = kind])
         /\ \A s : Releases(job[j], s)
<1>1. kind \in AllKinds /\ job[j].at = "new" /\ Step(j, [r EXCEPT !.kind = kind])
  BY FilesAssumption DEF New
<1>2. job[j] = Blank
  BY <1>1 DEF FileOpsInv, Phases, PhaseOK
<1> QED BY <1>1, <1>2 DEF Releases, Answers, Blank

LEMMA NamesInTrash ==
  ASSUME TypeOK
  PROVE  /\ \A n \in Names : <<n, 0>> \in TrashNames
         /\ \A t \in TrashNames : /\ t[1] \in Names /\ t[2] \in 0 .. MaxInodes
                                  /\ t[2] < MaxInodes => <<t[1], t[2] + 1>> \in TrashNames
                                  /\ t[2] = 0 /\ files[t] # Empty => t[2] < MaxInodes
         /\ \A p \in Paths : Base(p) \in Names /\ p[1] \in Dirs
<1>1. \A t \in TrashNames : t[1] \in Names /\ t[2] \in 0 .. MaxInodes
  BY DEF TrashNames
<1>2. \A t \in TrashNames : files[t] # Empty => files[t] \in 1 .. MaxInodes
  BY DEF TypeOK, Inodes
<1>3. \A n \in Names, i \in 0 .. MaxInodes : <<n, i>> \in TrashNames
  BY DEF TrashNames
<1> QED BY <1>1, <1>2, <1>3, Distinct DEF Paths, Base

LEMMA StartTrashStep ==
  ASSUME FileOpsInv, NEW j \in Jobs, NEW p \in Paths, StartTrash(j, p)
  PROVE  FileOpsInv'
<1> DEFINE q == [Blank EXCEPT !.path = p, !.name = <<Base(p), 0>>]
           r == [StatName(q) EXCEPT !.kind = "trash"]
<1>1. Step(j, r) /\ Releases(job[j], r) /\ UNCHANGED <<disk, clip, from, stray, purged>>
  BY Begins DEF StartTrash
<1>2. q \in Records /\ q.name \in TrashNames /\ q.path \in Paths /\ q.name[2] = 0
  BY BlankRecord, NamesInTrash DEF Records, FileOpsInv, Blank
<1>3. /\ files[q.name] = Empty => r = [q EXCEPT !.at = "openInfo", !.kind = "trash"]
      /\ files[q.name] # Empty =>
           /\ r = [q EXCEPT !.at = "stat", !.name = <<q.name[1], q.name[2] + 1>>, !.kind = "trash"]
           /\ <<q.name[1], q.name[2] + 1>> \in TrashNames
  BY <1>2, NamesInTrash DEF FileOpsInv, StatName
<1> HIDE DEF q, r
<1>4. r \in Records /\ PhaseOK(r) /\ r.at \notin {"new", "write"} /\ Relies(r)
  <2>1. /\ r \in Records /\ r.kind = "trash" /\ r.name \in TrashNames /\ r.path \in Paths
        /\ r.at = "stat" \/ (r.at = "openInfo" /\ files[r.name] = Empty)
    <3>1. CASE files[q.name] = Empty
      <4>1. /\ r.at = "openInfo" /\ r.kind = "trash" /\ r.name = q.name /\ r.path = q.path
            /\ r \in Records
        <5>1. r = [q EXCEPT !.at = "openInfo", !.kind = "trash"]
          BY <1>3, <3>1
        <5>2. "openInfo" \in Steps /\ "trash" \in AllKinds
          BY DEF Steps, AllKinds
        <5>3. r \in Records
          BY <1>2, <5>1, <5>2 DEF Records
        <5> QED BY <1>2, <5>1, <5>3 DEF Records
      <4> QED BY <1>2, <3>1, <4>1
    <3>2. CASE files[q.name] # Empty
      BY <1>2, <1>3, <3>2 DEF Records, Steps, AllKinds
    <3> QED BY <3>1, <3>2
  <2> QED BY <2>1 DEF PhaseOK, Relies
<1> QED BY <1>1, <1>4, DiskUntouched DEF FileOpsInv, TypeOK

LEMMA StatNextStep ==
  ASSUME FileOpsInv, NEW j \in Jobs, StatNext(j)
  PROVE  FileOpsInv'
<1> DEFINE q == job[j]
           r == StatName(q)
<1>1. q.at = "stat" /\ Step(j, r) /\ UNCHANGED <<disk, clip, from, stray, purged>>
  BY DEF StatNext
<1>2. q \in Records /\ q.kind = "trash" /\ q.name \in TrashNames /\ q.path \in Paths
  BY <1>1 DEF FileOpsInv, TypeOK, Phases, PhaseOK
<1>3. /\ files[q.name] = Empty => r = [q EXCEPT !.at = "openInfo"]
      /\ files[q.name] # Empty =>
           /\ r = [q EXCEPT !.at = "stat", !.name = <<q.name[1], q.name[2] + 1>>]
           /\ <<q.name[1], q.name[2] + 1>> \in TrashNames
  BY <1>2, NamesInTrash DEF FileOpsInv, StatName, StatNext
<1>4. r \in Records /\ PhaseOK(r) /\ r.at \notin {"new", "write"} /\ Relies(r)
  <2>1. /\ r \in Records /\ r.kind = "trash" /\ r.name \in TrashNames /\ r.path \in Paths
        /\ r.at = "stat" \/ (r.at = "openInfo" /\ files[r.name] = Empty)
    <3>1. CASE files[q.name] = Empty
      <4>1. r = [q EXCEPT !.at = "openInfo"]
        BY <1>3, <3>1
      <4> HIDE DEF r
      <4>2. r \in Records
        BY <1>2, <4>1 DEF Records, Steps
      <4>3. r.at = "openInfo" /\ r.kind = q.kind /\ r.name = q.name /\ r.path = q.path
        BY <1>2, <4>1 DEF Records
      <4> QED BY <1>2, <3>1, <4>2, <4>3
    <3>2. CASE files[q.name] # Empty
      <4>1. PICK n \in TrashNames : r = [q EXCEPT !.at = "stat", !.name = n]
        BY <1>3, <3>2
      <4> HIDE DEF r
      <4>2. r \in Records
        BY <1>2, <4>1 DEF Records, Steps
      <4>3. r.at = "stat" /\ r.kind = q.kind /\ r.name = n /\ r.path = q.path
        BY <1>2, <4>1 DEF Records
      <4> QED BY <1>2, <4>2, <4>3
    <3> QED BY <3>1, <3>2
  <2> HIDE DEF r
  <2> QED BY <2>1 DEF PhaseOK, Relies
<1>5. Releases(q, r)
  BY <1>1 DEF Releases, Answers
<1> QED BY <1>1, <1>4, <1>5, DiskUntouched DEF FileOpsInv, TypeOK

LEMMA ParseInfoStep ==
  ASSUME FileOpsInv, NEW j \in Jobs, NEW t \in TrashNames, ParseInfo(j, t)
  PROVE  FileOpsInv'
<1>1. PICK dst \in Paths :
         /\ New(j, "restore", [Blank EXCEPT !.at = "moveBack", !.name = t, !.dest = dst])
         /\ UNCHANGED <<disk, clip, from, stray, purged>>
  BY DEF ParseInfo, FileOpsInv, TypeOK
<1> DEFINE r == [Blank EXCEPT !.at = "moveBack", !.name = t, !.dest = dst, !.kind = "restore"]
<1>3. Step(j, r) /\ Releases(job[j], r)
  BY <1>1, Begins
<1>5. r \in Records /\ r.at = "moveBack" /\ r.kind = "restore" /\ r.name = t /\ r.dest = dst
  BY BlankRecord DEF Blank, Records, Steps, AllKinds
<1> HIDE DEF r
<1>6. PhaseOK(r)
  BY <1>5 DEF PhaseOK
<1>7. Relies(r)
  BY <1>5 DEF Relies
<1>2. r \in Records /\ PhaseOK(r) /\ r.at \notin {"new", "write"} /\ Relies(r)
  BY <1>5, <1>6, <1>7
<1> QED BY <1>1, <1>2, <1>3, DiskUntouched DEF FileOpsInv, TypeOK

LEMMA ListFilesStep ==
  ASSUME FileOpsInv, NEW j \in Jobs, ListFiles(j)
  PROVE  FileOpsInv'
<1> DEFINE there == {t \in TrashNames : files[t] # Empty}
           r == [Blank EXCEPT !.at = "removeFiles", !.todo = there, !.kind = "empty"]
<1>1. Step(j, r) /\ Releases(job[j], r) /\ UNCHANGED <<disk, clip, from, stray, purged>>
  BY Begins DEF ListFiles
<1>5. r \in Records /\ r.at = "removeFiles" /\ r.kind = "empty" /\ r.todo = there
  BY BlankRecord DEF Blank, Records, Steps, AllKinds
<1> HIDE DEF r
<1>6. PhaseOK(r)
  BY <1>5 DEF PhaseOK
<1>7. Relies(r)
  BY <1>5 DEF Relies
<1>2. r \in Records /\ PhaseOK(r) /\ r.at \notin {"new", "write"} /\ Relies(r)
  BY <1>5, <1>6, <1>7
<1> QED BY <1>1, <1>2, DiskUntouched DEF FileOpsInv, TypeOK

\* An emptying that gives up leaves every info behind that has no file.
LEMMA GivesUp ==
  ASSUME FileOpsInv, NEW j \in Jobs, GiveUp(j), UNCHANGED <<disk, clip, from, purged>>
  PROVE  FileOpsInv'
<1>1. Grows /\ Orphans \subseteq stray'
  BY DEF GiveUp, FileOpsInv, TypeOK, Grows, Orphans
<1> QED BY <1>1, Fails DEF GiveUp

LEMMA ListInfoStep ==
  ASSUME FileOpsInv, NEW j \in Jobs, ListInfo(j)
  PROVE  FileOpsInv'
<1> SUFFICES ASSUME ~GiveUp(j) PROVE FileOpsInv'
  BY GivesUp DEF ListInfo
<1> DEFINE there == {t \in TrashNames : info[t] # NoPath}
           r == [job[j] EXCEPT !.at = "removeInfos", !.todo = there]
<1>1. /\ job[j].at = "removeFiles" /\ job[j].todo = {} /\ Step(j, r)
      /\ UNCHANGED <<disk, clip, from, stray, purged>>
  BY DEF ListInfo
<1>2. job[j] \in Records /\ job[j].kind = "empty"
  BY <1>1 DEF FileOpsInv, TypeOK, Phases, PhaseOK
<1>3. r \in Records /\ PhaseOK(r) /\ r.at \notin {"new", "write"}
  <2>1. there \in SUBSET TrashNames
    OBVIOUS
  <2> HIDE DEF there
  <2>2. r \in Records /\ r.at = "removeInfos" /\ r.kind = "empty"
    BY <1>2, <2>1 DEF Records, Steps
  <2> HIDE DEF r
  <2> QED BY <2>2 DEF PhaseOK
<1>4. ~crossed => Relies(r) /\ Releases(job[j], r)
  <2> SUFFICES ASSUME ~crossed
               PROVE  Relies(r) /\ Releases(job[j], r)
    OBVIOUS
  <2>1. \A t \in TrashNames : files[t] = Empty
    BY <1>1 DEF FileOpsInv, TrashInv, Reliance, Relies
  <2>2. r.at = "removeInfos" /\ r.todo = there
    BY <1>2 DEF Records
  <2> HIDE DEF r
  <2>3. Relies(r)
    BY <2>1, <2>2 DEF Relies
  <2>4. Releases(job[j], r)
    BY <2>2 DEF Releases, Answers, Orphans
  <2> QED BY <2>3, <2>4
<1> QED BY <1>1, <1>3, <1>4, DiskUntouched DEF FileOpsInv, TypeOK

LEMMA EmptiedStep ==
  ASSUME FileOpsInv, NEW j \in Jobs, Emptied(j)
  PROVE  FileOpsInv'
<1> DEFINE r == [job[j] EXCEPT !.at = "done"]
<1>1. /\ job[j].at = "removeInfos" /\ job[j].todo = {} /\ Step(j, r)
      /\ UNCHANGED <<disk, clip, from, stray, purged>>
  BY DEF Emptied, Goto
<1>2. job[j] \in Records
  BY DEF FileOpsInv, TypeOK
<1>3. r \in Records /\ r.at = "done"
  BY <1>2 DEF Records
<1> HIDE DEF r
<1>4. PhaseOK(r) /\ Relies(r) /\ Releases(job[j], r)
  BY <1>1, <1>3 DEF PhaseOK, Relies, Releases, Answers
<1> QED BY <1>1, <1>3, <1>4, DiskUntouched DEF FileOpsInv, TypeOK

-----------------------------------------------------------------------------
(***************************************************************************)
(* The clipboard.                                                          *)
(***************************************************************************)
\* Where a request has nothing to do with the trash.
Elsewhere == {"setMove", "next", "write", "done", "failed"}

LEMMA ElsewhereFree ==
  ASSUME NEW q, NEW r, q.at \in Elsewhere, r.at \in Elsewhere
  PROVE  Relies(r) /\ Releases(q, r)
BY DEF Elsewhere, Relies, Releases, Answers

LEMMA SetPathsStep ==
  ASSUME FileOpsInv, NEW j \in Jobs, NEW srcs \in Selections, NEW move \in BOOLEAN,
         SetPaths(j, srcs, move)
  PROVE  FileOpsInv'
<1> DEFINE r == [Blank EXCEPT !.at = "setMove", !.move = move, !.kind = "copy"]
<1>1. /\ Step(j, r) /\ Releases(job[j], r) /\ UNCHANGED <<disk, from, stray, purged>>
      /\ clip' = [clip EXCEPT !.paths = srcs]
  BY Begins DEF SetPaths
<1>5. r \in Records /\ r.at = "setMove" /\ r.kind = "copy"
  BY BlankRecord DEF Blank, Records, Steps, AllKinds
<1> HIDE DEF r
<1>6. PhaseOK(r)
  BY <1>5 DEF PhaseOK
<1>7. Relies(r)
  BY <1>5 DEF Relies
<1>2. r \in Records /\ PhaseOK(r) /\ r.at \notin {"new", "write"} /\ Relies(r)
  BY <1>5, <1>6, <1>7
<1>3. srcs \in Seq(Paths)
  <2>1. CASE \E p \in Paths : srcs = <<p>>
    BY <2>1
  <2>2. CASE \E p, q \in Paths : srcs = <<p, q>>
    BY <2>2
  <2> QED BY <2>1, <2>2 DEF Selections
<1>4. clip' \in [paths : Seq(Paths), move : BOOLEAN]
  BY <1>1, <1>3 DEF FileOpsInv, TypeOK
<1> QED BY <1>1, <1>2, <1>4, DiskUntouched

LEMMA SetMoveStep ==
  ASSUME FileOpsInv, NEW j \in Jobs, SetMove(j)
  PROVE  FileOpsInv'
<1> DEFINE r == [job[j] EXCEPT !.at = "done"]
<1>1. /\ Step(j, r) /\ UNCHANGED <<disk, from, stray, purged>> /\ job[j].at = "setMove"
      /\ clip' = [clip EXCEPT !.move = job[j].move]
  BY DEF SetMove, Goto
<1>2. job[j] \in Records
  BY DEF FileOpsInv, TypeOK
<1>3. r \in Records /\ r.at = "done"
  BY <1>2 DEF Records
<1>4. clip' \in [paths : Seq(Paths), move : BOOLEAN]
  BY <1>1, <1>2 DEF FileOpsInv, TypeOK, Records
<1> HIDE DEF r
<1>5. PhaseOK(r) /\ Relies(r) /\ Releases(job[j], r)
  BY <1>1, <1>3, ElsewhereFree DEF Elsewhere, PhaseOK
<1> QED BY <1>1, <1>3, <1>4, <1>5, DiskUntouched

LEMMA HeldType ==
  ASSUME TypeOK, NEW srcs \in Seq(Paths)
  PROVE  Held(srcs) \in Seq(Inodes \cup {Empty})
<1>1. DOMAIN srcs = 1 .. Len(srcs) /\ Len(srcs) \in Nat
  OBVIOUS
<1>2. \A i \in 1 .. Len(srcs) :
        (IF fs[srcs[i]] = Empty THEN Empty ELSE data[fs[srcs[i]]]) \in Inodes \cup {Empty}
  BY DEF TypeOK
<1>3. Held(srcs) \in [1 .. Len(srcs) -> Inodes \cup {Empty}]
  BY <1>1, <1>2 DEF Held
<1> QED BY <1>1, <1>3

LEMMA BeginPasteStep ==
  ASSUME FileOpsInv, NEW j \in Jobs, NEW d \in Dirs, BeginPaste(j, d)
  PROVE  FileOpsInv'
<1> DEFINE at == IF clip.paths = <<>> THEN "done" ELSE "next"
           r == [Blank EXCEPT !.at = at, !.srcs = clip.paths, !.dest = <<d>>,
                              !.was = Held(clip.paths), !.kind = "paste"]
<1>1. Step(j, r) /\ Releases(job[j], r) /\ UNCHANGED <<disk, clip, from, stray, purged>>
  BY Begins DEF BeginPaste
<1>2. clip.paths \in Seq(Paths) /\ Held(clip.paths) \in Seq(Inodes \cup {Empty})
  BY HeldType DEF FileOpsInv, TypeOK
<1>3. /\ r \in Records /\ r.at \in {"done", "next"} /\ r.kind = "paste" /\ r.dest = <<d>>
  BY <1>2, BlankRecord DEF Blank, Records, Steps, AllKinds
<1> HIDE DEF r
<1>4. PhaseOK(r) /\ Relies(r)
  BY <1>3 DEF PhaseOK, Relies
<1> QED BY <1>1, <1>3, <1>4, DiskUntouched DEF FileOpsInv, TypeOK

LEMMA EndPasteStep ==
  ASSUME FileOpsInv, NEW j \in Jobs, EndPaste(j)
  PROVE  FileOpsInv'
<1> DEFINE r == [job[j] EXCEPT !.at = "done"]
<1>1. /\ Step(j, r) /\ UNCHANGED <<disk, from, stray, purged>> /\ job[j].at = "next"
      /\ clip' = IF clip.move THEN [clip EXCEPT !.paths = <<>>] ELSE clip
  BY DEF EndPaste, Goto
<1>2. r \in Records /\ r.at = "done"
  <2>1. job[j] \in Records
    BY DEF FileOpsInv, TypeOK
  <2> QED BY <2>1 DEF Records
<1>3. clip' \in [paths : Seq(Paths), move : BOOLEAN]
  <2>1. clip \in [paths : Seq(Paths), move : BOOLEAN] /\ <<>> \in Seq(Paths)
    BY DEF FileOpsInv, TypeOK
  <2> QED BY <1>1, <2>1
<1> HIDE DEF r
<1>4. PhaseOK(r) /\ Relies(r) /\ Releases(job[j], r)
  BY <1>1, <1>2, ElsewhereFree DEF Elsewhere, PhaseOK
<1> QED BY <1>1, <1>2, <1>3, <1>4, DiskUntouched

-----------------------------------------------------------------------------
(***************************************************************************)
(* Files outside the trash.                                                *)
(***************************************************************************)
DiskTypes ==
  /\ fs \in [Paths -> Inodes \cup {Empty}] /\ data \in [Inodes -> Inodes \cup {Empty}]
  /\ born \in 0 .. MaxInodes /\ purged \subseteq Inodes

\* A step that leaves the trash alone and keeps the names and contents of
\* files in order.
LEMMA OtherFiles ==
  ASSUME FileOpsInv, NEW j \in Jobs, NEW r \in Records, PhaseOK(r), r.at # "new",
         Step(j, r), UNCHANGED <<files, info, from, stray, clip>>, Relies(r), Releases(job[j], r),
         DiskTypes', OneName', Numbered', purged \subseteq purged',
         TrashInv => Kept', TrashInv /\ r.at = "write" /\ r.to \in 1 .. Len(Files) => r.to \in purged'
  PROVE  FileOpsInv'
<1>1. /\ job' \in [Jobs -> Records] /\ Phases' /\ After(j, r)
      /\ crashes' = crashes /\ crossed' \in BOOLEAN /\ alone' \subseteq Jobs
  BY StepRecords DEF FileOpsInv
<1>2. TypeOK'
  BY <1>1 DEF FileOpsInv, TypeOK, DiskTypes
<1>4. Grows
  BY DEF FileOpsInv, TypeOK, Grows
<1>3. ASSUME ~crossed'
      PROVE  TrashInv'
  <2>1. ~crossed /\ Apart' /\ Reliance' /\ Restorable' /\ Answered'
    BY <1>3, <1>4, TrashUntouched
  <2>2. Kept'
    BY <2>1 DEF FileOpsInv
  <2>3. Overwrites'
    BY <1>1, <2>1 DEF FileOpsInv, TrashInv, Overwrites, After, Steps
  <2> QED BY <2>1, <2>2, <2>3 DEF TrashInv
<1> QED BY <1>1, <1>2, <1>3 DEF FileOpsInv

\* What a file that was replaced held is gone, whatever has not been.
LEMMA GoneContents ==
  ASSUME TypeOK, NEW i \in Inodes \cup {Empty}
  PROVE  /\ Gone(i) \subseteq Inodes
         /\ i # Empty /\ data[i] # Empty => data[i] \in Gone(i)
BY Distinct DEF TypeOK, Gone, Empty

\* Files move, or go for good: each that goes is purged.
LEMMA KeptWhenMoved ==
  ASSUME FileOpsInv, TrashInv, data' = data, files' = files, purged \subseteq purged',
         \A p \in Paths : fs[p] # Empty =>
           \/ \E q \in Paths : fs'[q] = fs[p]
           \/ Gone(fs[p]) \subseteq purged'
  PROVE  Kept'
<1> SUFFICES ASSUME NEW c \in 1 .. Len(Files), c \notin purged'
             PROVE  data'[c] = c /\ Linked(c)'
  BY DEF Kept
<1>1. c \in Inodes /\ c # Empty
  BY FilesAssumption, Distinct DEF Inodes, Empty
<1>2. data[c] = c /\ Linked(c)
  BY DEF TrashInv, Kept
<1>3. CASE \E t \in TrashNames : files[t] = c
  BY <1>2, <1>3 DEF Linked
<1>4. CASE \E p \in Paths : fs[p] = c
  <2>1. c \in Gone(c)
    BY <1>1, <1>2, GoneContents DEF FileOpsInv
  <2> QED BY <1>1, <1>2, <1>4, <2>1 DEF Linked
<1> QED BY <1>2, <1>3, <1>4 DEF Linked

LEMMA RemoveForGoodStep ==
  ASSUME FileOpsInv, NEW j \in Jobs, NEW p \in Paths, RemoveForGood(j, p)
  PROVE  FileOpsInv'
<1> DEFINE r == [Only EXCEPT !.kind = "delete"]
<1>1. /\ Step(j, r) /\ Releases(job[j], r) /\ UNCHANGED <<data, born, files, info, clip, from, stray>>
      /\ fs[p] # Empty /\ fs' = [fs EXCEPT ![p] = Empty] /\ purged' = purged \cup Gone(fs[p])
  BY Begins DEF RemoveForGood
<1>2. r \in Records /\ r.at = "done"
  BY BlankRecord DEF Only, Blank, Records, Steps, AllKinds
<1> HIDE DEF r
<1>3. PhaseOK(r) /\ Relies(r)
  BY <1>2 DEF PhaseOK, Relies
<1>4. DiskTypes'
  BY <1>1, GoneContents DEF FileOpsInv, TypeOK, DiskTypes
<1>5. OneName' /\ Numbered'
  BY <1>1 DEF FileOpsInv, TypeOK, OneName, Numbered, Empty
<1>6. TrashInv => Kept'
  BY <1>1, KeptWhenMoved DEF FileOpsInv, TypeOK
<1> QED BY <1>1, <1>2, <1>3, <1>4, <1>5, <1>6, OtherFiles

\* One file takes the place of another.
LEMMA Moved ==
  ASSUME FileOpsInv, NEW src \in Paths, NEW dst \in Paths, src # dst, fs[src] # Empty,
         fs' = [fs EXCEPT ![dst] = fs[src], ![src] = Empty],
         purged' = purged \cup Gone(fs[dst]), UNCHANGED <<data, born, files>>
  PROVE  DiskTypes' /\ OneName' /\ Numbered' /\ (TrashInv => Kept')
<1>1. /\ fs \in [Paths -> Inodes \cup {Empty}] /\ fs'[dst] = fs[src] /\ fs'[src] = Empty
      /\ \A p \in Paths \ {src, dst} : fs'[p] = fs[p]
  BY DEF FileOpsInv, TypeOK
<1>2. DiskTypes'
  BY GoneContents DEF FileOpsInv, TypeOK, DiskTypes
<1>3. OneName'
  BY <1>1 DEF FileOpsInv, OneName
<1>4. Numbered'
  BY <1>1 DEF FileOpsInv, TypeOK, Numbered, Empty
<1>5. TrashInv => Kept'
  BY <1>1, KeptWhenMoved
<1> QED BY <1>2, <1>3, <1>4, <1>5

LEMMA RenameFileStep ==
  ASSUME FileOpsInv, NEW j \in Jobs, NEW p \in Paths, NEW n \in Names, RenameFile(j, p, n)
  PROVE  FileOpsInv'
<1> DEFINE r == [Only EXCEPT !.kind = "rename"]
           dst == <<p[1], n>>
<1>1. /\ Step(j, r) /\ Releases(job[j], r) /\ UNCHANGED <<data, born, files, info, clip, from, stray>>
      /\ fs[p] # Empty /\ p # dst
      /\ fs' = [fs EXCEPT ![dst] = fs[p], ![p] = Empty] /\ purged' = purged \cup Gone(fs[dst])
  BY Begins DEF RenameFile
<1>2. r \in Records /\ r.at = "done"
  BY BlankRecord DEF Only, Blank, Records, Steps, AllKinds
<1> HIDE DEF r
<1>3. PhaseOK(r) /\ Relies(r)
  BY <1>2 DEF PhaseOK, Relies
<1>4. dst \in Paths
  BY NamesInTrash DEF FileOpsInv, Paths
<1> HIDE DEF dst
<1>5. DiskTypes' /\ OneName' /\ Numbered' /\ (TrashInv => Kept')
  BY <1>1, <1>4, Moved
<1> QED BY <1>1, <1>2, <1>3, <1>5, OtherFiles

\* The next inode has no name yet.
LEMMA Fresh ==
  ASSUME TypeOK, Numbered
  PROVE  /\ born \in Nat /\ \A p \in Paths : fs[p] \in Nat /\ fs[p] # born + 1
         /\ \A t \in TrashNames : files[t] \in Nat /\ files[t] # born + 1
<1>1. born \in Nat /\ Inodes \cup {Empty} \subseteq Nat
  BY Distinct DEF TypeOK, Empty
<1>2. \A p \in Paths : fs[p] \in Nat /\ fs[p] <= born
  BY <1>1 DEF TypeOK, Numbered
<1>3. \A t \in TrashNames : files[t] \in Nat /\ files[t] <= born
  BY <1>1 DEF TypeOK, Numbered
<1>4. \A n \in Nat : n <= born => n # born + 1
  BY <1>1
<1> QED BY <1>1, <1>2, <1>3, <1>4

LEMMA CreateFileStep ==
  ASSUME FileOpsInv, NEW j \in Jobs, NEW p \in Paths, CreateFile(j, p)
  PROVE  FileOpsInv'
<1> DEFINE r == [Only EXCEPT !.kind = "create"]
           i == born + 1
<1>1. /\ Step(j, r) /\ Releases(job[j], r) /\ UNCHANGED <<files, info, clip, from, stray, purged>>
      /\ fs[p] = Empty /\ i \in Inodes /\ born' = i
      /\ fs' = [fs EXCEPT ![p] = i] /\ data' = [data EXCEPT ![i] = i]
  BY Begins DEF CreateFile
<1>2. r \in Records /\ r.at = "done"
  BY BlankRecord DEF Only, Blank, Records, Steps, AllKinds
<1> HIDE DEF r
<1>3. PhaseOK(r) /\ Relies(r)
  BY <1>2 DEF PhaseOK, Relies
<1>4. DiskTypes'
  BY <1>1, Distinct DEF FileOpsInv, TypeOK, DiskTypes, Inodes
<1>5. /\ born \in Nat /\ \A q \in Paths : fs[q] \in Nat /\ fs[q] # i
      /\ \A t \in TrashNames : files[t] \in Nat /\ files[t] # i
  BY Fresh DEF FileOpsInv
<1>6. OneName'
  BY <1>1, <1>5 DEF FileOpsInv, TypeOK, OneName
<1>7. Numbered'
  BY <1>1, <1>5 DEF FileOpsInv, TypeOK, Numbered
<1>8. ASSUME TrashInv
      PROVE  Kept'
  <2>1. ASSUME NEW c \in 1 .. Len(Files), c \notin purged'
        PROVE  data'[c] = c /\ Linked(c)'
    <3>1. data[c] = c /\ Linked(c) /\ c # i /\ c # Empty
      BY <1>1, <1>5, <1>8, <2>1 DEF TrashInv, Kept, FileOpsInv, Numbered, Empty
    <3>2. data'[c] = c
      BY <1>1, <3>1 DEF FileOpsInv, TypeOK
    <3> QED BY <1>1, <3>1, <3>2 DEF Linked, FileOpsInv, TypeOK
  <2> QED BY <2>1 DEF Kept
<1> QED BY <1>1, <1>2, <1>3, <1>4, <1>6, <1>7, <1>8, OtherFiles

\* The source and the target of a paste are paths.
LEMMA PastePaths ==
  ASSUME FileOpsInv, NEW j \in Jobs, NextSource(j)
  PROVE  /\ job[j] \in Records /\ job[j].at = "next" /\ job[j].kind = "paste"
         /\ PhaseOK(job[j]) /\ Source(j) \in Paths /\ Target(j) \in Paths
<1>1. job[j] \in Records /\ PhaseOK(job[j]) /\ job[j].at = "next"
  BY DEF NextSource, FileOpsInv, TypeOK, Phases
<1>2. job[j].kind = "paste" /\ \E d \in Dirs : job[j].dest = <<d>>
  BY <1>1 DEF PhaseOK
<1>3. Source(j) \in Paths
  <2>1. job[j].srcs \in Seq(Paths) /\ job[j].i \in Nat \ {0} /\ job[j].i <= Len(job[j].srcs)
    BY <1>1 DEF Records, NextSource
  <2> QED BY <2>1 DEF Source
<1>4. Target(j) \in Paths
  BY <1>2, <1>3, NamesInTrash DEF Target, FileOpsInv, Paths
<1> QED BY <1>1, <1>2, <1>3, <1>4

\* The next source.
LEMMA OneOn ==
  ASSUME NEW q \in Records
  PROVE  LET r == [q EXCEPT !.i = @ + 1]
         IN  r \in Records /\ r.at = q.at /\ r.kind = q.kind /\ r.dest = q.dest
<1> DEFINE n == q.i + 1
<1>1. n \in Nat \ {0}
  BY DEF Records
<1> HIDE DEF n
<1>2. [q EXCEPT !.i = n] \in Records
  BY <1>1 DEF Records
<1> QED BY <1>2 DEF Records, n

LEMMA PasteByMoveStep ==
  ASSUME FileOpsInv, NEW j \in Jobs, PasteByMove(j)
  PROVE  FileOpsInv'
<1> DEFINE src == Source(j)
           dst == Target(j)
           r == [job[j] EXCEPT !.i = @ + 1]
<1>1. NextSource(j) /\ UNCHANGED <<data, born, files, info, clip, from, stray>>
  BY DEF PasteByMove
<1>2. CASE ~(Goto(j, "failed") /\ UNCHANGED <<fs, purged>>)
  <2>1. /\ Step(j, r) /\ fs[src] # Empty
        /\ fs' = IF src = dst THEN fs ELSE [fs EXCEPT ![dst] = fs[src], ![src] = Empty]
        /\ purged' = purged \cup (IF src = dst THEN {} ELSE Gone(fs[dst]))
    BY <1>2 DEF PasteByMove
  <2>2. /\ src \in Paths /\ dst \in Paths /\ job[j] \in Records /\ job[j].at = "next"
        /\ PhaseOK(job[j])
    BY <1>1, PastePaths
  <2>3. r \in Records /\ r.at = "next" /\ r.kind = job[j].kind /\ r.dest = job[j].dest
    BY <2>2, OneOn
  <2> HIDE DEF r, src, dst
  <2>4. PhaseOK(r) /\ Relies(r) /\ Releases(job[j], r)
    BY <2>2, <2>3, ElsewhereFree DEF PhaseOK, Elsewhere
  <2>5. CASE src = dst
    BY <1>1, <2>1, <2>2, <2>3, <2>4, <2>5, DiskUntouched DEF disk, FileOpsInv, TypeOK
  <2>6. CASE src # dst
    <3>1. /\ fs' = [fs EXCEPT ![dst] = fs[src], ![src] = Empty]
          /\ purged' = purged \cup Gone(fs[dst])
      BY <2>1, <2>6
    <3>2. DiskTypes' /\ OneName' /\ Numbered' /\ (TrashInv => Kept')
      BY <1>1, <2>1, <2>2, <2>6, <3>1, Moved
    <3> QED BY <1>1, <2>1, <2>3, <2>4, <3>1, <3>2, OtherFiles
  <2> QED BY <2>5, <2>6
<1>3. CASE Goto(j, "failed") /\ UNCHANGED <<fs, purged>>
  BY <1>1, <1>3, FailsAlone DEF NextSource, disk
<1> QED BY <1>2, <1>3

LEMMA OpenCopyStep ==
  ASSUME FileOpsInv, NEW j \in Jobs, OpenCopy(j)
  PROVE  FileOpsInv'
<1> DEFINE src == Source(j)
           dst == Target(j)
           to == IF fs[dst] = Empty THEN born + 1 ELSE fs[dst]
           r == [job[j] EXCEPT !.at = "write", !.inode = fs[src], !.to = to]
<1>1. NextSource(j) /\ UNCHANGED <<files, info, clip, from, stray>>
  BY DEF OpenCopy
<1>2. CASE Goto(j, "failed") /\ UNCHANGED <<fs, data, born, purged>>
  BY <1>1, <1>2, FailsAlone DEF NextSource, disk
<1>3. CASE ~(Goto(j, "failed") /\ UNCHANGED <<fs, data, born, purged>>)
  <2>1. /\ Step(j, r) /\ fs[src] # Empty /\ to \in Inodes
        /\ fs' = [fs EXCEPT ![dst] = to] /\ data' = [data EXCEPT ![to] = Empty]
        /\ born' = (IF to > born THEN to ELSE born) /\ purged' = purged \cup Gone(fs[dst])
    BY <1>3 DEF OpenCopy
  <2>2. /\ src \in Paths /\ dst \in Paths /\ job[j] \in Records /\ job[j].at = "next"
        /\ PhaseOK(job[j])
    BY <1>1, PastePaths
  <2>3. fs[src] \in Inodes /\ fs[dst] \in Inodes \cup {Empty}
    BY <2>1, <2>2 DEF FileOpsInv, TypeOK
  <2>4. to = (IF fs[dst] = Empty THEN born + 1 ELSE fs[dst])
    OBVIOUS
  <2> HIDE DEF src, dst, to
  <2>5. /\ r \in Records /\ r.at = "write" /\ r.kind = job[j].kind /\ r.dest = job[j].dest
        /\ r.inode \in Inodes /\ r.to = to
    BY <2>1, <2>2, <2>3 DEF Records, Steps
  <2> HIDE DEF r
  <2>6. PhaseOK(r) /\ Relies(r) /\ Releases(job[j], r)
    BY <2>1, <2>2, <2>5, ElsewhereFree DEF PhaseOK, Elsewhere
  <2>7. /\ born \in Nat /\ to \in Nat /\ Len(Files) <= born
        /\ fs[dst] = Empty => to = born + 1
        /\ fs[dst] # Empty => to = fs[dst] /\ to <= born
        /\ \A p \in Paths : fs[p] \in Nat /\ fs[p] <= born /\ fs[p] # born + 1
        /\ \A t \in TrashNames : files[t] \in Nat /\ files[t] <= born /\ files[t] # born + 1
    BY <2>2, <2>4, Fresh DEF FileOpsInv, Numbered
  <2>8. DiskTypes'
    <3>1. Gone(fs[dst]) \subseteq Inodes
      BY <2>3, GoneContents DEF FileOpsInv
    <3>2. born' \in 0 .. MaxInodes
      BY <2>1, <2>7, Distinct DEF FileOpsInv, TypeOK, Inodes
    <3> QED BY <2>1, <3>1, <3>2 DEF FileOpsInv, TypeOK, DiskTypes
  <2>9. fs'[dst] = to /\ (\A p \in Paths \ {dst} : fs'[p] = fs[p])
    BY <2>1, <2>2 DEF FileOpsInv, TypeOK
  <2>10. OneName'
    <3>1. CASE fs[dst] = Empty
      BY <1>1, <2>7, <2>9, <3>1 DEF FileOpsInv, OneName
    <3>2. CASE fs[dst] # Empty
      BY <1>1, <2>7, <2>9, <3>2 DEF FileOpsInv, OneName
    <3> QED BY <3>1, <3>2
  <2>11. Numbered'
    BY <1>1, <2>1, <2>7, <2>9 DEF Numbered
  <2>12. ASSUME TrashInv, NEW c \in 1 .. Len(Files), c = to
         PROVE  c \in purged'
    <3>1. c \in Nat /\ c # Empty /\ c # born + 1
      BY <2>7 DEF Empty
    <3>2. fs[dst] = c
      BY <2>7, <2>12, <3>1
    <3>3. c \in purged \/ data[c] = c
      BY <2>12 DEF TrashInv, Kept
    <3> QED BY <2>1, <2>3, <3>1, <3>2, <3>3, GoneContents DEF FileOpsInv
  <2>13. ASSUME TrashInv
         PROVE  Kept'
    <3>1. ASSUME NEW c \in 1 .. Len(Files), c \notin purged'
          PROVE  data'[c] = c /\ Linked(c)'
      <4>1. c # to /\ c # Empty /\ data[c] = c /\ Linked(c)
        BY <2>1, <2>12, <2>13, <3>1 DEF TrashInv, Kept, Empty
      <4>2. data'[c] = c
        BY <2>1, <4>1 DEF FileOpsInv, TypeOK
      <4>3. fs[dst] # c
        BY <2>7, <4>1
      <4> QED BY <1>1, <2>9, <4>1, <4>2, <4>3 DEF Linked
    <3> QED BY <3>1 DEF Kept
  <2>14. TrashInv /\ r.to \in 1 .. Len(Files) => r.to \in purged'
    BY <2>5, <2>12
  <2>15. purged \subseteq purged'
    BY <2>1
  <2> QED BY <1>1, <2>1, <2>5, <2>6, <2>8, <2>10, <2>11, <2>13, <2>14, <2>15, OtherFiles
<1> QED BY <1>2, <1>3

LEMMA WriteCopyStep ==
  ASSUME FileOpsInv, NEW j \in Jobs, WriteCopy(j)
  PROVE  FileOpsInv'
<1> DEFINE q == job[j]
           r == [job[j] EXCEPT !.at = "next", !.i = @ + 1, !.to = Empty]
<1> SUFFICES ASSUME ~(Goto(j, "failed") /\ data' = data) PROVE FileOpsInv'
  BY FailsAlone DEF WriteCopy, disk
<1>1. /\ q.at = "write" /\ Step(j, r) /\ UNCHANGED <<fs, born, files, info, clip, from, stray, purged>>
      /\ data' = [data EXCEPT ![q.to] = data[q.inode]]
  BY DEF WriteCopy
<1>2. q \in Records /\ PhaseOK(q) /\ q.inode \in Inodes /\ q.to \in Inodes
  BY <1>1 DEF FileOpsInv, TypeOK, Phases, PhaseOK
<1>3. r \in Records /\ r.at = "next" /\ r.kind = q.kind /\ r.dest = q.dest
  <2> DEFINE s == [q EXCEPT !.i = @ + 1]
  <2>1. s \in Records /\ s.kind = q.kind /\ s.dest = q.dest
    BY <1>2, OneOn
  <2>2. r = [s EXCEPT !.at = "next", !.to = Empty]
    BY <1>2 DEF Records
  <2> HIDE DEF s, r
  <2> QED BY <2>1, <2>2 DEF Records, Steps
<1> HIDE DEF r
<1>4. PhaseOK(r) /\ Relies(r) /\ Releases(q, r)
  BY <1>1, <1>2, <1>3, ElsewhereFree DEF PhaseOK, Elsewhere
<1>5. DiskTypes' /\ OneName' /\ Numbered'
  BY <1>1, <1>2 DEF FileOpsInv, TypeOK, DiskTypes, OneName, Numbered
<1>6. ASSUME TrashInv
      PROVE  Kept'
  <2>1. ASSUME NEW c \in 1 .. Len(Files), c \notin purged
        PROVE  data'[c] = c /\ Linked(c)'
    <3>1. data[c] = c /\ Linked(c)
      BY <1>6, <2>1 DEF TrashInv, Kept
    <3>2. c # q.to
      BY <1>1, <1>6, <2>1 DEF TrashInv, Overwrites
    <3>3. data'[c] = c
      BY <1>1, <3>1, <3>2 DEF FileOpsInv, TypeOK
    <3> QED BY <1>1, <3>1, <3>3 DEF Linked
  <2> QED BY <1>1, <2>1 DEF Kept
<1> QED BY <1>1, <1>3, <1>4, <1>5, <1>6, OtherFiles

-----------------------------------------------------------------------------
(***************************************************************************)
(* The trash.                                                              *)
(***************************************************************************)
\* A request that changes the trash, and does not overlap another over the
\* names it changes, disturbs none.
LEMMA TrashChanged ==
  ASSUME FileOpsInv, NEW j \in Jobs, NEW r \in Records, PhaseOK(r), r.at # "new",
         Step(j, r), ~crossed', job[j].at \in Steps,
         \/ job[j].kind = "empty"
         \/ /\ job[j].kind \in {"trash", "restore"}
            /\ \A u \in TrashNames \ {job[j].name} : files'[u] = files[u] /\ info'[u] = info[u]
  PROVE  /\ TrashInv /\ Apart' /\ Relies(job[j])
         /\ \A k \in Jobs \ {j} : Relies(job[k])'
         /\ \A k \in Jobs \ {j}, u \in TrashNames : Answers(job[k], u) => Answers(job[k], u)'
<1>1. /\ ~crossed /\ Apart'
      /\ \A k \in Jobs \ {j} : job[k].at \in Steps => ~Interfere(job[j], job[k])
  BY StepApart DEF FileOpsInv, TrashInv
<1>2. TrashInv /\ (\A k \in Jobs : Relies(job[k]))
  BY <1>1 DEF FileOpsInv, TrashInv, Reliance
<1>3. After(j, r)
  BY StepRecords DEF FileOpsInv
<1>4. ASSUME NEW k \in Jobs \ {j}
      PROVE  Relies(job[k])' /\ \A u \in TrashNames : Answers(job[k], u) => Answers(job[k], u)'
  <2>1. CASE job[k].at \notin Steps
    BY <1>3, <2>1 DEF After, Relies, Answers, Steps
  <2>2. CASE job[k].at \in Steps
    <3>1. job'[k] = job[k] /\ ~Interfere(job[j], job[k])
      BY <1>1, <1>3, <2>2 DEF After
    <3>2. \A u \in TrashNames : Answers(job[k], u) => Answers(job[k], u)'
      BY <3>1 DEF Answers
    <3>3. PhaseOK(job[k]) /\ Relies(job[k])
      BY <1>2 DEF FileOpsInv, Phases
    <3>4. CASE job[k].kind \notin {"trash", "restore", "empty"}
      BY <3>1, <3>3, <3>4 DEF PhaseOK, Relies
    <3>5. CASE job[k].kind = "empty"
      BY <3>1, <3>5 DEF Interfere
    <3>6. CASE job[k].kind \in {"trash", "restore"} /\ job[j].kind = "empty"
      BY <3>1, <3>6 DEF Interfere
    <3>7. CASE job[k].kind \in {"trash", "restore"} /\ job[j].kind # "empty"
      <4>1. job[k].name # job[j].name
        BY <3>1, <3>7 DEF Interfere
      <4>2. job[k].name \in TrashNames =>
              files'[job[k].name] = files[job[k].name] /\ info'[job[k].name] = info[job[k].name]
        BY <3>7, <4>1
      <4> QED BY <3>1, <3>3, <3>7, <4>2 DEF PhaseOK, Relies
    <3> QED BY <3>2, <3>4, <3>5, <3>6, <3>7
  <2> QED BY <2>1, <2>2
<1> QED BY <1>1, <1>2, <1>4

TrashTypes ==
  /\ files \in [TrashNames -> Inodes \cup {Empty}]
  /\ info \in [TrashNames -> Paths \cup {NoPath, Cut}]
  /\ from \in [Inodes -> Paths \cup {NoPath}] /\ stray \subseteq TrashNames

\* What remains to be shown of such a step.
LEMMA TrashStep ==
  ASSUME FileOpsInv, NEW j \in Jobs, NEW r \in Records, PhaseOK(r), r.at \notin {"new", "write"},
         Step(j, r), clip' = clip, purged \subseteq purged',
         DiskTypes', OneName', Numbered',
         TrashTypes',
         ~crossed' => TrashInv /\ Apart' /\ Reliance' /\ Restorable' /\ Answered' /\ Kept'
  PROVE  FileOpsInv'
<1>1. /\ job' \in [Jobs -> Records] /\ Phases' /\ After(j, r)
      /\ crashes' = crashes /\ crossed' \in BOOLEAN /\ alone' \subseteq Jobs
  BY StepRecords DEF FileOpsInv
<1>2. TypeOK'
  BY <1>1 DEF FileOpsInv, TypeOK, DiskTypes, TrashTypes
<1>3. ASSUME ~crossed'
      PROVE  Overwrites'
  <2>1. Overwrites
    BY <1>3 DEF TrashInv
  <2> QED BY <1>1, <2>1 DEF Overwrites, After, Steps
<1> QED BY <1>1, <1>2, <1>3 DEF FileOpsInv, TrashInv

\* OpenInfo and WriteInfo: an info is written for a name without a file.
LEMMA InfoWritten ==
  ASSUME FileOpsInv, NEW j \in Jobs, NEW at \in {"writeInfo", "move", "failed"},
         NEW v \in Paths \cup {Cut}, job[j].at \in {"openInfo", "writeInfo"}, Goto(j, at),
         info' = [info EXCEPT ![job[j].name] = v], at = "move" => v = job[j].path,
         stray \ {job[j].name} \subseteq stray', stray' \subseteq TrashNames,
         at = "failed" => job[j].name \in stray',
         UNCHANGED <<fs, data, born, files, clip, from, purged>>
  PROVE  FileOpsInv'
<1> DEFINE q == job[j]
           t == q.name
           r == [q EXCEPT !.at = at]
<1>1. Step(j, r)
  BY DEF Goto
<1>2. q \in Records /\ q.kind = "trash" /\ t \in TrashNames /\ q.path \in Paths
  BY DEF FileOpsInv, TypeOK, Phases, PhaseOK
<1>3. r \in Records /\ PhaseOK(r) /\ r.at = at /\ r.name = t /\ r.path = q.path
  BY <1>2 DEF Records, Steps, PhaseOK
<1> HIDE DEF r
<1>4. /\ DiskTypes' /\ TrashTypes' /\ OneName' /\ Numbered'
      /\ info'[t] = v /\ \A u \in TrashNames \ {t} : info'[u] = info[u]
  BY <1>2 DEF FileOpsInv, TypeOK, DiskTypes, TrashTypes, OneName, Numbered
<1>5. ASSUME ~crossed'
      PROVE  TrashInv /\ Apart' /\ Reliance' /\ Restorable' /\ Answered' /\ Kept'
  <2>1. /\ TrashInv /\ Apart' /\ Relies(q)
        /\ \A k \in Jobs \ {j} : Relies(job[k])'
        /\ \A k \in Jobs \ {j}, u \in TrashNames : Answers(job[k], u) => Answers(job[k], u)'
    BY <1>1, <1>2, <1>3, <1>4, <1>5, TrashChanged DEF Steps
  <2>2. IF at \in Steps THEN job'[j] = r ELSE job'[j].at \notin Steps
    BY <1>1, <1>3, StepRecords DEF FileOpsInv, After
  <2>3. files[t] = Empty
    BY <2>1 DEF Relies
  <2>4. Relies(job[j])'
    <3>1. CASE at = "failed"
      BY <2>2, <3>1 DEF Relies, Steps
    <3>2. CASE at # "failed"
      BY <1>3, <1>4, <2>2, <2>3, <3>2 DEF Relies, Steps
    <3> QED BY <3>1, <3>2
  <2>5. Reliance'
    BY <2>1, <2>4 DEF Reliance
  <2>6. Restorable'
    BY <1>4, <2>1, <2>3 DEF TrashInv, Restorable
  <2>7. ASSUME NEW u \in Orphans', u \notin stray'
        PROVE  \E k \in Jobs : Answers(job[k], u)'
    <3>1. CASE u = t
      <4>1. at # "failed"
        BY <2>7, <3>1
      <4> QED BY <1>3, <2>2, <3>1, <4>1 DEF Answers, Steps
    <3>2. CASE u # t
      <4>1. u \in Orphans /\ u \notin stray
        BY <1>4, <2>7, <3>2 DEF Orphans
      <4>2. PICK k \in Jobs : Answers(job[k], u)
        BY <2>1, <4>1 DEF TrashInv, Answered
      <4> QED BY <2>1, <3>2, <4>1, <4>2 DEF Answers, Orphans
    <3> QED BY <3>1, <3>2
  <2>8. Kept'
    BY <2>1 DEF TrashInv, Kept, Linked
  <2> QED BY <2>1, <2>5, <2>6, <2>7, <2>8 DEF Answered
<1> QED BY <1>1, <1>3, <1>4, <1>5, TrashStep DEF FileOpsInv, TypeOK

LEMMA OpenInfoStep ==
  ASSUME FileOpsInv, NEW j \in Jobs, OpenInfo(j)
  PROVE  FileOpsInv'
<1>1. stray \subseteq TrashNames /\ job[j].at = "openInfo"
  BY DEF OpenInfo, FileOpsInv, TypeOK
<1>2. CASE Goto(j, "failed") /\ UNCHANGED <<info, stray>>
  BY <1>1, <1>2, FailsAlone DEF OpenInfo, disk
<1>3. CASE ~(Goto(j, "failed") /\ UNCHANGED <<info, stray>>)
  BY <1>1, <1>3, InfoWritten DEF OpenInfo
<1> QED BY <1>2, <1>3

LEMMA WriteInfoStep ==
  ASSUME FileOpsInv, NEW j \in Jobs, WriteInfo(j)
  PROVE  FileOpsInv'
<1>1. /\ stray \subseteq TrashNames /\ job[j].at = "writeInfo"
      /\ job[j].name \in TrashNames /\ job[j].path \in Paths
  BY DEF WriteInfo, FileOpsInv, TypeOK, Phases, PhaseOK
<1>2. CASE Goto(j, "move") /\ UNCHANGED stray /\ info' = [info EXCEPT ![job[j].name] = job[j].path]
  BY <1>1, <1>2, InfoWritten DEF WriteInfo
<1>3. ASSUME NEW part \in {Cut, job[j].path}, info' = [info EXCEPT ![job[j].name] = part],
             stray' = stray \cup {job[j].name}, Goto(j, "failed")
      PROVE  FileOpsInv'
  BY <1>1, <1>3, InfoWritten DEF WriteInfo
<1> QED BY <1>2, <1>3 DEF WriteInfo

\* RemoveOwnInfo and RemoveInfo: the name has no file, and keeps the info
\* only as one left behind.
LEMMA InfoRemoved ==
  ASSUME FileOpsInv, NEW j \in Jobs, NEW at \in {"done", "failed"},
         job[j].at \in {"undo", "removeInfo"}, Goto(j, at),
         RemoveIgnored(j),
         UNCHANGED <<fs, data, born, files, clip, from, purged>>
  PROVE  FileOpsInv'
<1> DEFINE q == job[j]
           t == q.name
           r == [q EXCEPT !.at = at]
<1>1. Step(j, r)
  BY DEF Goto
<1>2. q \in Records /\ q.kind \in {"trash", "restore"} /\ t \in TrashNames
  BY DEF FileOpsInv, TypeOK, Phases, PhaseOK
<1>3. r \in Records /\ PhaseOK(r) /\ r.at = at
  BY <1>2 DEF Records, Steps, PhaseOK
<1> HIDE DEF r
<1>6. /\ stray \subseteq stray' /\ stray' \subseteq TrashNames
      /\ \/ info' = [info EXCEPT ![t] = NoPath]
         \/ info' = info /\ t \in stray'
  BY <1>2 DEF RemoveIgnored, FileOpsInv, TypeOK
<1>4. /\ DiskTypes' /\ TrashTypes' /\ OneName' /\ Numbered'
      /\ info'[t] = NoPath \/ t \in stray'
      /\ \A u \in TrashNames \ {t} : info'[u] = info[u]
  BY <1>2, <1>6 DEF FileOpsInv, TypeOK, DiskTypes, TrashTypes, OneName, Numbered
<1>5. ASSUME ~crossed'
      PROVE  TrashInv /\ Apart' /\ Reliance' /\ Restorable' /\ Answered' /\ Kept'
  <2>1. /\ TrashInv /\ Apart' /\ Relies(q)
        /\ \A k \in Jobs \ {j} : Relies(job[k])'
        /\ \A k \in Jobs \ {j}, u \in TrashNames : Answers(job[k], u) => Answers(job[k], u)'
    BY <1>1, <1>2, <1>3, <1>4, <1>5, TrashChanged DEF Steps
  <2>2. job'[j].at \notin Steps /\ crashes' = crashes
    BY <1>1, <1>3, StepRecords DEF FileOpsInv, After, Steps
  <2>3. files[t] = Empty
    BY <2>1 DEF Relies
  <2>4. Reliance'
    BY <2>1, <2>2 DEF Reliance, Relies, Steps
  <2>5. Restorable'
    BY <1>4, <2>1, <2>3 DEF TrashInv, Restorable
  <2>6. ASSUME NEW u \in Orphans', u \notin stray'
        PROVE  \E k \in Jobs : Answers(job[k], u)'
    <3>1. u # t
      BY <1>4, <2>6 DEF Orphans
    <3>2. u \in Orphans /\ u \notin stray
      BY <1>4, <1>6, <2>6, <3>1 DEF Orphans
    <3>3. PICK k \in Jobs : Answers(job[k], u)
      BY <2>1, <3>2 DEF TrashInv, Answered
    <3>4. k # j
      BY <3>1, <3>3 DEF Answers
    <3> QED BY <2>1, <3>2, <3>3, <3>4 DEF Orphans
  <2>7. Kept'
    BY <2>1 DEF TrashInv, Kept, Linked
  <2> QED BY <2>1, <2>4, <2>5, <2>6, <2>7 DEF Answered
<1> QED BY <1>1, <1>3, <1>4, <1>5, TrashStep DEF FileOpsInv, TypeOK

LEMMA MoveFileStep ==
  ASSUME FileOpsInv, NEW j \in Jobs, MoveFile(j)
  PROVE  FileOpsInv'
<1> DEFINE q == job[j]
           p == q.path
           t == q.name
<1>1. q.at = "move" /\ UNCHANGED <<data, born, info, clip, stray, purged>>
  BY DEF MoveFile
<1>2. q \in Records /\ q.kind = "trash" /\ t \in TrashNames /\ p \in Paths
  BY <1>1 DEF FileOpsInv, TypeOK, Phases, PhaseOK
<1>3. ASSUME fs[p] # Empty, files' = [files EXCEPT ![t] = fs[p]], fs' = [fs EXCEPT ![p] = Empty],
             from' = [from EXCEPT ![fs[p]] = p], Goto(j, "done")
      PROVE  FileOpsInv'
  <2> DEFINE r == [q EXCEPT !.at = "done"]
  <2>1. /\ Step(j, r) /\ files' = [files EXCEPT ![t] = fs[p]]
        /\ fs' = [fs EXCEPT ![p] = Empty] /\ from' = [from EXCEPT ![fs[p]] = p]
    BY <1>3 DEF Goto
  <2>2. r \in Records /\ PhaseOK(r) /\ r.at = "done"
    BY <1>2 DEF Records, Steps, PhaseOK
  <2> HIDE DEF r
  <2>3. /\ fs[p] \in Inodes /\ files'[t] = fs[p] /\ fs'[p] = Empty /\ from'[fs[p]] = p
        /\ \A o \in Paths \ {p} : fs'[o] = fs[o]
        /\ \A u \in TrashNames \ {t} : files'[u] = files[u]
        /\ \A i \in Inodes \ {fs[p]} : from'[i] = from[i]
    BY <1>2, <1>3, <2>1 DEF FileOpsInv, TypeOK
  <2>4. DiskTypes' /\ TrashTypes'
    BY <1>1, <1>2, <2>1, <2>3 DEF FileOpsInv, TypeOK, DiskTypes, TrashTypes
  <2>5. OneName'
    BY <1>2, <1>3, <2>3 DEF FileOpsInv, OneName
  <2>6. Numbered'
    <3>1. born \in Nat /\ born' = born /\ Numbered
      BY <1>1, Fresh DEF FileOpsInv
    <3>2. \A o \in Paths : fs'[o] = fs[o] \/ fs'[o] = 0
      BY <2>3 DEF Empty
    <3>3. \A u \in TrashNames : files'[u] = files[u] \/ files'[u] = fs[p]
      BY <2>3
    <3> QED BY <1>2, <3>1, <3>2, <3>3 DEF Numbered
  <2>7. ASSUME ~crossed'
        PROVE  TrashInv /\ Apart' /\ Reliance' /\ Restorable' /\ Answered' /\ Kept'
    <3>1. /\ TrashInv /\ Apart' /\ Relies(q)
          /\ \A k \in Jobs \ {j} : Relies(job[k])'
          /\ \A k \in Jobs \ {j}, u \in TrashNames : Answers(job[k], u) => Answers(job[k], u)'
      BY <1>1, <1>2, <2>1, <2>2, <2>3, <2>7, TrashChanged DEF Steps
    <3>2. job'[j].at \notin Steps /\ crashes' = crashes
      BY <2>1, <2>2, StepRecords DEF FileOpsInv, After, Steps
    <3>3. files[t] = Empty /\ info[t] = p
      BY <1>1, <3>1 DEF Relies
    <3>4. Reliance'
      BY <3>1, <3>2 DEF Reliance, Relies, Steps
    <3>5. ASSUME NEW u \in TrashNames, files'[u] # Empty
          PROVE  info'[u] = from'[files'[u]]
      <4>1. CASE u = t
        BY <1>1, <2>3, <3>3, <4>1
      <4>2. CASE u # t
        <5>1. files[u] # Empty /\ files[u] # fs[p] /\ files[u] \in Inodes
          BY <1>2, <1>3, <2>3, <3>5, <4>2 DEF FileOpsInv, TypeOK, OneName
        <5> QED BY <1>1, <2>3, <3>1, <4>2, <5>1 DEF TrashInv, Restorable
      <4> QED BY <4>1, <4>2
    <3>6. ASSUME NEW u \in Orphans', u \notin stray'
          PROVE  \E k \in Jobs : Answers(job[k], u)'
      <4>1. u # t
        BY <1>3, <2>3, <3>6 DEF Orphans
      <4>2. u \in Orphans /\ u \notin stray
        BY <1>1, <2>3, <3>6, <4>1 DEF Orphans
      <4>3. PICK k \in Jobs : Answers(job[k], u)
        BY <3>1, <4>2 DEF TrashInv, Answered
      <4>4. k # j
        BY <1>1, <4>1, <4>3 DEF Answers
      <4> QED BY <3>1, <4>2, <4>3, <4>4 DEF Orphans
    <3>7. ASSUME NEW c \in 1 .. Len(Files), c \notin purged
          PROVE  data'[c] = c /\ Linked(c)'
      <4>1. data[c] = c /\ Linked(c) /\ c # Empty
        BY <3>1, <3>7 DEF TrashInv, Kept, Empty
      <4> QED BY <1>1, <1>2, <2>3, <3>3, <4>1 DEF Linked
    <3> QED BY <1>1, <3>1, <3>4, <3>5, <3>6, <3>7 DEF Restorable, Answered, Kept
  <2> QED BY <1>1, <2>1, <2>2, <2>4, <2>5, <2>6, <2>7, TrashStep
<1>4. ASSUME Goto(j, "undo"), UNCHANGED <<files, fs, from>>
      PROVE  FileOpsInv'
  <2> DEFINE r == [q EXCEPT !.at = "undo"]
  <2>1. Step(j, r) /\ UNCHANGED <<disk, clip, from, stray, purged>>
    BY <1>1, <1>4 DEF Goto, disk
  <2>2. r \in Records /\ PhaseOK(r) /\ r.at = "undo" /\ r.name = t
    BY <1>2 DEF Records, Steps, PhaseOK
  <2> HIDE DEF r
  <2>3. ~crossed => Relies(r) /\ Releases(q, r)
    BY <1>1, <2>2 DEF FileOpsInv, TrashInv, Reliance, Relies, Releases, Answers
  <2> QED BY <2>1, <2>2, <2>3, DiskUntouched DEF FileOpsInv, TypeOK
<1> QED BY <1>3, <1>4 DEF MoveFile

LEMMA MoveBackStep ==
  ASSUME FileOpsInv, NEW j \in Jobs, MoveBack(j)
  PROVE  FileOpsInv'
<1> DEFINE q == job[j]
           t == q.name
           dst == q.dest
<1>1. q.at = "moveBack" /\ UNCHANGED <<data, born, info, clip, from, stray>>
  BY DEF MoveBack
<1>2. q \in Records /\ q.kind = "restore" /\ t \in TrashNames /\ dst \in Paths
  BY <1>1 DEF FileOpsInv, TypeOK, Phases, PhaseOK
<1>3. ASSUME files[t] # Empty, fs' = [fs EXCEPT ![dst] = files[t]],
             files' = [files EXCEPT ![t] = Empty], purged' = purged \cup Gone(fs[dst]),
             Goto(j, "removeInfo")
      PROVE  FileOpsInv'
  <2> DEFINE r == [q EXCEPT !.at = "removeInfo"]
  <2>1. /\ Step(j, r) /\ fs' = [fs EXCEPT ![dst] = files[t]]
        /\ files' = [files EXCEPT ![t] = Empty] /\ purged' = purged \cup Gone(fs[dst])
    BY <1>3 DEF Goto
  <2>2. r \in Records /\ PhaseOK(r) /\ r.at = "removeInfo" /\ r.name = t
    BY <1>2 DEF Records, Steps, PhaseOK
  <2> HIDE DEF r
  <2>3. /\ files[t] \in Inodes /\ files'[t] = Empty /\ fs'[dst] = files[t]
        /\ fs[dst] \in Inodes \cup {Empty}
        /\ \A o \in Paths \ {dst} : fs'[o] = fs[o]
        /\ \A u \in TrashNames \ {t} : files'[u] = files[u]
    BY <1>2, <1>3, <2>1 DEF FileOpsInv, TypeOK
  <2>4. DiskTypes' /\ TrashTypes'
    <3>1. Gone(fs[dst]) \subseteq Inodes
      BY <2>3, GoneContents DEF FileOpsInv
    <3> QED BY <1>1, <1>2, <2>1, <2>3, <3>1 DEF FileOpsInv, TypeOK, DiskTypes, TrashTypes
  <2>5. OneName'
    BY <1>2, <1>3, <2>3 DEF FileOpsInv, OneName
  <2>6. Numbered'
    <3>1. born \in Nat /\ born' = born /\ Numbered
      BY <1>1, Fresh DEF FileOpsInv
    <3>2. \A o \in Paths : fs'[o] = fs[o] \/ fs'[o] = files[t]
      BY <2>3
    <3>3. \A u \in TrashNames : files'[u] = files[u] \/ files'[u] = 0
      BY <2>3 DEF Empty
    <3> QED BY <1>2, <3>1, <3>2, <3>3 DEF Numbered
  <2>7. ASSUME ~crossed'
        PROVE  TrashInv /\ Apart' /\ Reliance' /\ Restorable' /\ Answered' /\ Kept'
    <3>1. /\ TrashInv /\ Apart' /\ Relies(q)
          /\ \A k \in Jobs \ {j} : Relies(job[k])'
          /\ \A k \in Jobs \ {j}, u \in TrashNames : Answers(job[k], u) => Answers(job[k], u)'
      BY <1>1, <1>2, <2>1, <2>2, <2>3, <2>7, TrashChanged DEF Steps
    <3>2. job'[j] = r /\ crashes' = crashes
      BY <2>1, <2>2, StepRecords DEF FileOpsInv, After, Steps
    <3>3. Reliance'
      BY <2>2, <2>3, <3>1, <3>2 DEF Reliance, Relies
    <3>4. Restorable'
      BY <1>1, <2>3, <3>1 DEF TrashInv, Restorable
    <3>5. ASSUME NEW u \in Orphans', u \notin stray'
          PROVE  \E k \in Jobs : Answers(job[k], u)'
      <4>1. CASE u = t
        BY <2>2, <3>2, <4>1 DEF Answers
      <4>2. CASE u # t
        <5>1. u \in Orphans /\ u \notin stray
          BY <1>1, <2>3, <3>5, <4>2 DEF Orphans
        <5>2. PICK k \in Jobs : Answers(job[k], u)
          BY <3>1, <5>1 DEF TrashInv, Answered
        <5>3. k # j
          BY <1>1, <5>2 DEF Answers
        <5> QED BY <3>1, <5>1, <5>2, <5>3 DEF Orphans
      <4> QED BY <4>1, <4>2
    <3>6. ASSUME NEW c \in 1 .. Len(Files), c \notin purged'
          PROVE  data'[c] = c /\ Linked(c)'
      <4>1. data[c] = c /\ Linked(c) /\ c # Empty
        BY <2>1, <3>1, <3>6 DEF TrashInv, Kept, Empty
      <4>2. fs[dst] # c
        BY <2>1, <2>3, <3>6, <4>1, GoneContents DEF FileOpsInv
      <4> QED BY <1>1, <1>2, <2>3, <4>1, <4>2 DEF Linked
    <3> QED BY <3>1, <3>3, <3>4, <3>5, <3>6 DEF Answered, Kept
  <2> QED BY <1>1, <2>1, <2>2, <2>4, <2>5, <2>6, <2>7, TrashStep
<1>4. ASSUME Goto(j, "failed"), UNCHANGED <<fs, files, purged>>
      PROVE  FileOpsInv'
  BY <1>1, <1>4, FailsAlone DEF disk
<1> QED BY <1>3, <1>4 DEF MoveBack

LEMMA RemoveFileStep ==
  ASSUME FileOpsInv, NEW j \in Jobs, NEW t \in TrashNames, RemoveFile(j, t)
  PROVE  FileOpsInv'
<1> DEFINE q == job[j]
           r == [q EXCEPT !.todo = @ \ {t}]
<1> SUFFICES ASSUME ~(GiveUp(j) /\ UNCHANGED <<files, purged>>) PROVE FileOpsInv'
  BY GivesUp DEF RemoveFile, disk
<1>1. /\ q.at = "removeFiles" /\ Step(j, r) /\ UNCHANGED <<fs, data, born, info, clip, from, stray>>
      /\ files' = [files EXCEPT ![t] = Empty] /\ purged' = purged \cup Gone(files[t])
  BY DEF RemoveFile
<1>2. q \in Records /\ q.kind = "empty"
  BY <1>1 DEF FileOpsInv, TypeOK, Phases, PhaseOK
<1>3. r \in Records /\ r.kind = "empty" /\ r.at = "removeFiles" /\ r.todo = q.todo \ {t}
  BY <1>1, <1>2 DEF Records
<1> HIDE DEF r
<1>4. /\ files'[t] = Empty /\ files[t] \in Inodes \cup {Empty}
      /\ \A u \in TrashNames \ {t} : files'[u] = files[u]
  BY <1>1 DEF FileOpsInv, TypeOK
<1>5. PhaseOK(r)
  BY <1>3 DEF PhaseOK
<1>6. DiskTypes' /\ TrashTypes' /\ OneName'
  <2>1. Gone(files[t]) \subseteq Inodes
    BY <1>4, GoneContents DEF FileOpsInv
  <2> QED BY <1>1, <1>4, <2>1 DEF FileOpsInv, TypeOK, DiskTypes, TrashTypes, OneName
<1>7. Numbered'
  <2>1. born \in Nat /\ Numbered
    BY Fresh DEF FileOpsInv
  <2>2. \A u \in TrashNames : files'[u] = files[u] \/ files'[u] = 0
    BY <1>4 DEF Empty
  <2> QED BY <1>1, <2>1, <2>2 DEF Numbered
<1>8. ASSUME ~crossed'
      PROVE  TrashInv /\ Apart' /\ Reliance' /\ Restorable' /\ Answered' /\ Kept'
  <2>1. /\ TrashInv /\ Apart' /\ Relies(q) /\ \A k \in Jobs \ {j} : Relies(job[k])'
    BY <1>1, <1>2, <1>3, <1>5, <1>8, TrashChanged DEF Steps
  <2>2. job'[j] = r
    BY <1>1, <1>3, <1>5, StepRecords DEF FileOpsInv, After, Steps
  <2>3. \A u \in TrashNames : files'[u] # Empty => u \in r.todo
    BY <1>1, <1>3, <1>4, <2>1 DEF Relies
  <2>4. Relies(job[j])'
    BY <1>3, <2>2, <2>3 DEF Relies
  <2>5. Reliance'
    BY <2>1, <2>4 DEF Reliance
  <2>6. Restorable'
    BY <1>1, <1>4, <2>1 DEF TrashInv, Restorable
  <2>7. Answered'
    BY <1>3, <2>2 DEF Answered, Answers
  <2>8. ASSUME NEW c \in 1 .. Len(Files), c \notin purged'
        PROVE  data'[c] = c /\ Linked(c)'
    <3>1. data[c] = c /\ Linked(c) /\ c # Empty
      BY <1>1, <2>1, <2>8 DEF TrashInv, Kept, Empty
    <3>2. files[t] # c
      BY <1>1, <1>4, <2>8, <3>1, GoneContents DEF FileOpsInv
    <3> QED BY <1>1, <1>4, <3>1, <3>2 DEF Linked
  <2> QED BY <2>1, <2>5, <2>6, <2>7, <2>8 DEF Kept
<1> QED BY <1>1, <1>3, <1>5, <1>6, <1>7, <1>8, TrashStep

LEMMA RemoveInfoOfStep ==
  ASSUME FileOpsInv, NEW j \in Jobs, NEW t \in TrashNames, RemoveInfoOf(j, t)
  PROVE  FileOpsInv'
<1> DEFINE q == job[j]
           r == [q EXCEPT !.todo = @ \ {t}]
<1> SUFFICES ASSUME ~(GiveUp(j) /\ UNCHANGED info) PROVE FileOpsInv'
  BY GivesUp DEF RemoveInfoOf, disk
<1>1. /\ q.at = "removeInfos" /\ Step(j, r) /\ info' = [info EXCEPT ![t] = NoPath]
      /\ stray' = stray \ {t}
      /\ UNCHANGED <<fs, data, born, files, clip, from, purged>>
  BY DEF RemoveInfoOf
<1>2. q \in Records /\ q.kind = "empty"
  BY <1>1 DEF FileOpsInv, TypeOK, Phases, PhaseOK
<1>3. r \in Records /\ r.kind = "empty" /\ r.at = "removeInfos" /\ r.todo = q.todo \ {t}
  BY <1>1, <1>2 DEF Records
<1> HIDE DEF r
<1>4. PhaseOK(r)
  BY <1>3 DEF PhaseOK
<1>5. /\ DiskTypes' /\ TrashTypes' /\ OneName' /\ Numbered'
      /\ info'[t] = NoPath /\ \A u \in TrashNames \ {t} : info'[u] = info[u]
  BY <1>1 DEF FileOpsInv, TypeOK, DiskTypes, TrashTypes, OneName, Numbered
<1>6. ASSUME ~crossed'
      PROVE  TrashInv /\ Apart' /\ Reliance' /\ Restorable' /\ Answered' /\ Kept'
  <2>1. /\ TrashInv /\ Apart' /\ Relies(q) /\ \A k \in Jobs \ {j} : Relies(job[k])'
        /\ \A k \in Jobs \ {j}, u \in TrashNames : Answers(job[k], u) => Answers(job[k], u)'
    BY <1>1, <1>2, <1>3, <1>4, <1>6, TrashChanged DEF Steps
  <2>2. job'[j] = r /\ crashes' = crashes
    BY <1>1, <1>3, <1>4, StepRecords DEF FileOpsInv, After, Steps
  <2>3. \A u \in TrashNames : files[u] = Empty
    BY <1>1, <2>1 DEF Relies
  <2>4. Reliance'
    BY <1>1, <1>3, <2>1, <2>2, <2>3 DEF Reliance, Relies
  <2>5. Restorable'
    BY <1>1, <2>3 DEF Restorable
  <2>6. ASSUME NEW u \in Orphans', u \notin stray'
        PROVE  \E k \in Jobs : Answers(job[k], u)'
    <3>1. u # t
      BY <1>5, <2>6 DEF Orphans
    <3>2. u \in Orphans /\ u \notin stray
      BY <1>1, <1>5, <2>6, <3>1 DEF Orphans
    <3>3. PICK k \in Jobs : Answers(job[k], u)
      BY <2>1, <3>2 DEF TrashInv, Answered
    <3>4. CASE k = j
      BY <1>1, <1>3, <2>2, <3>1, <3>3, <3>4 DEF Answers
    <3> QED BY <2>1, <3>2, <3>3, <3>4 DEF Orphans
  <2>7. Kept'
    BY <1>1, <2>1 DEF TrashInv, Kept, Linked
  <2> QED BY <2>1, <2>4, <2>5, <2>6, <2>7 DEF Answered
<1> QED BY <1>1, <1>3, <1>4, <1>5, <1>6, TrashStep DEF FileOpsInv, TypeOK

-----------------------------------------------------------------------------
(***************************************************************************)
(* The daemon's death, the start, and the theorems.                        *)
(***************************************************************************)
LEMMA CrashStep ==
  ASSUME FileOpsInv, Crash
  PROVE  FileOpsInv'
<1>1. /\ crashes' = crashes + 1 /\ crashes < MaxCrashes /\ alone' = {}
      /\ job' = [j \in Jobs |-> IF Running(j) THEN [job[j] EXCEPT !.at = "failed"] ELSE job[j]]
      /\ clip' = [paths |-> <<>>, move |-> FALSE]
      /\ stray' = stray \cup Orphans
      /\ UNCHANGED <<fs, data, born, files, info, from, purged, crossed>>
  BY DEF Crash, disk
<1>2. ASSUME NEW j \in Jobs
      PROVE  job'[j] \in Records /\ PhaseOK(job'[j]) /\ job'[j].at \notin Steps
  <2>1. job[j] \in Records /\ PhaseOK(job[j])
    BY DEF FileOpsInv, TypeOK, Phases
  <2>2. CASE Running(j)
    <3>1. job'[j] = [job[j] EXCEPT !.at = "failed"]
      BY <1>1, <2>2
    <3> QED BY <2>1, <3>1 DEF Records, PhaseOK, Steps
  <2>3. CASE ~Running(j)
    BY <1>1, <2>1, <2>3 DEF Running, Steps
  <2> QED BY <2>2, <2>3
<1>3. job' \in [Jobs -> Records] /\ Phases'
  <2>1. Phases'
    BY <1>2 DEF Phases, PhaseOK
  <2> QED BY <1>1, <1>2, <2>1
<1>4. crashes' \in 1 .. MaxCrashes
  BY <1>1, FilesAssumption DEF FileOpsInv, TypeOK
<1>5. TypeOK' /\ OneName' /\ Numbered'
  BY <1>1, <1>3, <1>4 DEF FileOpsInv, TypeOK, OneName, Numbered, Orphans
<1>6. Apart' /\ Reliance' /\ Overwrites'
  BY <1>2 DEF Apart, Running, Reliance, Relies, Overwrites, Records, Steps
<1>7. Answered'
  BY <1>1 DEF Answered, Orphans
<1>8. TrashInv => Restorable' /\ Kept'
  BY <1>1 DEF TrashInv, Restorable, Kept, Linked
<1> QED BY <1>1, <1>3, <1>5, <1>6, <1>7, <1>8 DEF FileOpsInv, TrashInv

LEMMA InitStart == Init => FileOpsInv
<1> SUFFICES ASSUME Init PROVE FileOpsInv
  OBVIOUS
<1>1. /\ Len(Files) \in Nat /\ Len(Files) <= MaxInodes /\ DOMAIN Files = 1 .. Len(Files)
      /\ 1 .. Len(Files) \subseteq Inodes /\ \A i \in 1 .. Len(Files) : Files[i] \in Paths
  BY FilesAssumption, Distinct DEF Inodes
<1>2. \A p \in Paths : \/ fs[p] = Empty /\ p \notin ToSet(Files)
                       \/ fs[p] \in 1 .. Len(Files) /\ Files[fs[p]] = p
  BY <1>1 DEF Init, ToSet
<1>3. fs \in [Paths -> Inodes \cup {Empty}]
  BY <1>1, <1>2 DEF Init
<1>4. TypeOK
  <2>1. data \in [Inodes -> Inodes \cup {Empty}] /\ born \in 0 .. MaxInodes
    BY <1>1, Distinct DEF Init
  <2>2. files \in [TrashNames -> Inodes \cup {Empty}] /\ info \in [TrashNames -> Paths \cup {NoPath, Cut}]
    BY DEF Init
  <2>3. clip \in [paths : Seq(Paths), move : BOOLEAN] /\ job \in [Jobs -> Records]
    BY BlankRecord DEF Init
  <2>4. crashes \in 0 .. MaxCrashes /\ from \in [Inodes -> Paths \cup {NoPath}]
    BY FilesAssumption DEF Init
  <2> QED BY <1>3, <2>1, <2>2, <2>3, <2>4 DEF Init, TypeOK
<1>5. Phases
  BY BlankRecord DEF Init, Phases
<1>6. OneName /\ Numbered
  BY <1>1, <1>2, Distinct DEF Init, OneName, Numbered, Empty
<1>7. \A j \in Jobs : job[j].at = "new"
  BY DEF Init, Blank
<1>8. Apart /\ Reliance /\ Overwrites
  BY <1>7 DEF Apart, Running, Reliance, Relies, Overwrites
<1>9. Restorable /\ Answered
  BY DEF Init, Restorable, Answered, Orphans
<1>10. Kept
  <2>1. ASSUME NEW c \in 1 .. Len(Files)
        PROVE  data[c] = c /\ fs[Files[c]] = c
    <3>1. Files[c] \in ToSet(Files) /\ Files[c] \in Paths
      BY <1>1 DEF ToSet
    <3>2. fs[Files[c]] \in 1 .. Len(Files) /\ Files[fs[Files[c]]] = Files[c]
      BY <1>2, <3>1
    <3> QED BY <1>1, <3>2, FilesAssumption DEF Init
  <2> QED BY <1>1, <2>1 DEF Kept, Linked
<1> QED BY <1>4, <1>5, <1>6, <1>8, <1>9, <1>10 DEF FileOpsInv, TrashInv

LEMMA NextKeeps == FileOpsInv /\ [Next]_vars => FileOpsInv'
<1> SUFFICES ASSUME FileOpsInv, [Next]_vars PROVE FileOpsInv'
  OBVIOUS
<1>1. ASSUME NEW j \in Jobs, MoveToTrash(j)
      PROVE  FileOpsInv'
  <2>1. CASE RemoveOwnInfo(j)
    BY <2>1, InfoRemoved DEF RemoveOwnInfo
  <2> QED BY <1>1, <2>1, StartTrashStep, StatNextStep, OpenInfoStep, WriteInfoStep, MoveFileStep
         DEF MoveToTrash
<1>2. ASSUME NEW j \in Jobs, RestoreFromTrash(j)
      PROVE  FileOpsInv'
  <2>1. CASE RemoveInfo(j)
    BY <2>1, InfoRemoved DEF RemoveInfo
  <2> QED BY <1>2, <2>1, ParseInfoStep, MoveBackStep DEF RestoreFromTrash
<1>3. ASSUME NEW j \in Jobs, EmptyTrash(j)
      PROVE  FileOpsInv'
  BY <1>3, ListFilesStep, ListInfoStep, EmptiedStep, RemoveFileStep, RemoveInfoOfStep DEF EmptyTrash
<1>4. ASSUME NEW j \in Jobs, Copy(j)
      PROVE  FileOpsInv'
  BY <1>4, SetPathsStep, SetMoveStep DEF Copy
<1>5. ASSUME NEW j \in Jobs, Paste(j)
      PROVE  FileOpsInv'
  BY <1>5, BeginPasteStep, PasteByMoveStep, OpenCopyStep, WriteCopyStep, EndPasteStep DEF Paste
<1>6. ASSUME NEW j \in Jobs, Single(j)
      PROVE  FileOpsInv'
  BY <1>6, RemoveForGoodStep, CreateFileStep, RenameFileStep DEF Single
<1>7. CASE UNCHANGED vars
  <2>1. UNCHANGED <<fs, data, born, files, info, clip, job, crashes, from, stray, purged, crossed, alone>>
    BY <1>7 DEF vars, disk, history
  <2>2. TypeOK' /\ Phases' /\ OneName' /\ Numbered'
    BY <2>1 DEF FileOpsInv, TypeOK, Phases, OneName, Numbered
  <2>3. TrashInv => Apart' /\ Reliance' /\ Restorable'
    BY <2>1 DEF TrashInv, Apart, Running, Reliance, Relies, Restorable
  <2>4. TrashInv => Answered' /\ Kept' /\ Overwrites'
    BY <2>1 DEF TrashInv, Answered, Answers, Orphans, Kept, Linked, Overwrites
  <2> QED BY <2>1, <2>2, <2>3, <2>4 DEF FileOpsInv, TrashInv
<1> QED BY <1>1, <1>2, <1>3, <1>4, <1>5, <1>6, <1>7, CrashStep DEF Next

\* The requests of trash.go and browser_handlers.go keep the invariant above,
\* in any order, whichever calls fail, and with deaths of the daemon between
\* any two.
THEOREM FileOpsCorrect == Spec => []FileOpsInv
BY InitStart, NextKeeps, PTL DEF Spec

\* What is in the trash can be restored, whichever calls fail, and what is
\* listed is there or was left behind by a failed call or a death (MoveToTrash,
\* RestoreFromTrash, EmptyTrash).
THEOREM TrashedRestorableAlways == Spec => []TrashedRestorable
<1>1. FileOpsInv => TrashedRestorable
  <2> SUFFICES ASSUME FileOpsInv, ~crossed, NEW t \in TrashNames
               PROVE  IF files[t] # Empty THEN info[t] = from[files[t]]
                      ELSE Idle => info[t] = NoPath \/ t \in stray
    BY DEF TrashedRestorable
  <2>1. TrashInv
    BY DEF FileOpsInv
  <2>2. CASE files[t] # Empty
    BY <2>1, <2>2 DEF TrashInv, Restorable
  <2>3. ASSUME files[t] = Empty, Idle, info[t] # NoPath
        PROVE  t \in stray
    <3>1. \A j \in Jobs : ~Answers(job[j], t)
      BY <2>3 DEF Idle, Running, Answers
    <3> QED BY <2>1, <2>3, <3>1 DEF TrashInv, Answered, Orphans
  <2> QED BY <2>2, <2>3
<1> QED BY <1>1, FileOpsCorrect, PTL

\* Contents disappear only because they were deleted or replaced
\* (browser_handlers.go: Paste, Rename, Delete; trash.go).
THEOREM NothingLostAlways == Spec => []NothingLost
<1>1. FileOpsInv => NothingLost
  <2> SUFFICES ASSUME FileOpsInv, ~crossed, NEW c \in 1 .. Len(Files), c \notin purged
               PROVE  \E i \in Inodes : data[i] = c /\ Linked(i)
    BY DEF NothingLost
  <2>1. data[c] = c /\ Linked(c)
    BY DEF FileOpsInv, TrashInv, Kept
  <2>2. c \in Inodes
    BY FilesAssumption, Distinct DEF Inodes
  <2> QED BY <2>1, <2>2
<1> QED BY <1>1, FileOpsCorrect, PTL

-----------------------------------------------------------------------------
(***************************************************************************)
(* What a paste does that no other request comes between.                  *)
(***************************************************************************)
\* What the clipboard holds was put there by a copy that has not failed; a
\* single one that has ended told whether to move it.
Asked ==
  /\ \A j \in Jobs : job[j].at = "setMove" => job[j].kind = "copy"
  /\ clip.paths # <<>> =>
       /\ Copies # {} /\ \A k \in Copies : job[k].at \in {"setMove", "done"}
       /\ \A k \in Jobs : Copies = {k} /\ job[k].at = "done" => clip.move = job[k].move

\* Beside a request no other came between, none is running.
Undisturbed ==
  \A j \in alone : job[j].at # "new" /\ \A k \in Jobs \ {j} : job[k].at \notin Steps

\* No source is in the destination, and no two have one name.
Proper(r) ==
  /\ \A i \in DOMAIN r.srcs : r.srcs[i][1] # r.dest[1]
  /\ \A i, l \in DOMAIN r.srcs : Base(r.srcs[i]) = Base(r.srcs[l]) => i = l

\* Of the sources, those before the current one are pasted, the others are as
\* they were.
PastePath(r, l) == <<r.dest[1], Base(r.srcs[l])>>
Pasted(r, l) ==
  /\ fs[PastePath(r, l)] # Empty /\ data[fs[PastePath(r, l)]] = r.was[l]
  /\ Held(r.srcs)[l] = IF clip.move THEN Empty ELSE r.was[l]
Progress(r) ==
  /\ r.srcs # <<>> /\ clip.paths = r.srcs
  /\ \A l \in DOMAIN r.srcs : IF l < r.i THEN Pasted(r, l) ELSE Held(r.srcs)[l] = r.was[l]
  /\ r.at = "write" =>
       /\ ~clip.move /\ r.i \in DOMAIN r.srcs
       /\ r.inode = fs[r.srcs[r.i]] /\ r.inode # Empty /\ r.to = fs[PastePath(r, r.i)] /\ r.to # Empty
Pasting ==
  \A j \in alone : job[j].at \in {"next", "write"} /\ Proper(job[j]) => Progress(job[j])

PasteInv == Asked /\ Undisturbed /\ Pasting /\ PasteFaithful

LEMMA TrimmedCopy ==
  \A r : /\ Trimmed(r).kind = "copy" => r.kind = "copy"
         /\ r.kind = "copy" /\ r.at \in {"setMove", "done"} =>
              Trimmed(r).kind = "copy" /\ Trimmed(r).at = r.at /\ Trimmed(r).move = r.move
BY DEF Trimmed, Blank

\* Only the request that steps is alone after it, with its record as it is.
LEMMA AloneAfter ==
  ASSUME FileOpsInv, Undisturbed, NEW j \in Jobs, NEW r, r.at # "new", Step(j, r)
  PROVE  /\ alone' \subseteq {j} /\ Undisturbed'
         /\ j \in alone' => job'[j] = r /\ (job[j].at # "new" => j \in alone)
         /\ job'[j] \in {r, Trimmed(r)}
         /\ \A k \in Jobs \ {j} : job'[k] = Trimmed(job[k])
<1>1. /\ alone' = IF job[j].at = "new" /\ Idle THEN {j} ELSE alone \cap {j}
      /\ j \in alone' => job'[j] = r
      /\ job'[j] \in {r, Trimmed(r)}
      /\ \A k \in Jobs \ {j} : job'[k] = Trimmed(job[k])
  BY DEF Step
<1>2. ASSUME j \in alone', NEW k \in Jobs \ {j} PROVE job'[k].at \notin Steps
  <2>1. job[k].at \notin Steps
    BY <1>1, <1>2 DEF Undisturbed, Idle, Running, Steps
  <2> QED BY <1>1, <2>1, TrimmedRecord DEF FileOpsInv, TypeOK, Phases
<1>3. Undisturbed'
  BY <1>1, <1>2 DEF Undisturbed
<1> QED BY <1>1, <1>3

\* While the clipboard holds something, a request of another kind leaves the
\* copies as they are.
LEMMA CopiesStay ==
  ASSUME FileOpsInv, Asked, Undisturbed, NEW j \in Jobs, NEW r, r.at # "new", Step(j, r),
         r.kind # "copy", job[j].kind # "copy", clip.paths # <<>>
  PROVE  /\ Copies' = Copies
         /\ \A k \in Copies : job'[k].at = job[k].at /\ job'[k].move = job[k].move
<1>1. /\ job'[j] \in {r, Trimmed(r)} /\ \A k \in Jobs \ {j} : job'[k] = Trimmed(job[k])
  BY AloneAfter
<1>2. \A k \in Copies : k # j /\ k \in Jobs /\ job[k].kind = "copy" /\ job[k].at \in {"setMove", "done"}
  BY DEF Asked, Copies
<1>3. \A k \in Jobs : job'[k].kind = "copy" <=> job[k].kind = "copy"
  <2>1. job'[j].kind # "copy"
    BY <1>1, TrimmedCopy
  <2>2. \A k \in Jobs \ {j} : job'[k].kind = "copy" <=> job[k].kind = "copy"
    BY <1>1, <1>2, TrimmedCopy DEF Copies
  <2> QED BY <2>1, <2>2
<1>4. Copies' = Copies
  BY <1>3 DEF Copies
<1> QED BY <1>1, <1>2, <1>4, TrimmedCopy

LEMMA AskedAside ==
  ASSUME FileOpsInv, Asked, Undisturbed, NEW j \in Jobs, NEW r, r.at \notin {"new", "setMove"}, Step(j, r),
         r.kind # "copy", job[j].kind # "copy", clip'.move = clip.move, clip'.paths \in {clip.paths, <<>>}
  PROVE  Asked'
<1>1. ASSUME NEW k \in Jobs, job'[k].at = "setMove" PROVE job'[k].kind = "copy"
  <2>1. k # j
    <3>1. job'[j] \in {r, Trimmed(r)}
      BY AloneAfter
    <3>2. Trimmed(r).at # "setMove"
      BY DEF Trimmed, Blank
    <3> QED BY <1>1, <3>1, <3>2
  <2>2. job'[k] = Trimmed(job[k])
    BY <2>1, AloneAfter
  <2>3. job[k].at = "setMove"
    BY <1>1, <2>2 DEF Trimmed, Blank
  <2> QED BY <2>2, <2>3, TrimmedCopy DEF Asked
<1>2. CASE clip'.paths = <<>>
  BY <1>1, <1>2 DEF Asked
<1>3. CASE clip'.paths # <<>>
  <2>1. clip.paths # <<>>
    BY <1>3
  <2>2. /\ Copies' = Copies
        /\ \A k \in Copies : job'[k].at = job[k].at /\ job'[k].move = job[k].move
    BY <2>1, CopiesStay
  <2>3. /\ Copies # {} /\ \A k \in Copies : job[k].at \in {"setMove", "done"}
        /\ \A k \in Jobs : Copies = {k} /\ job[k].at = "done" => clip.move = job[k].move
    BY <2>1 DEF Asked
  <2> QED BY <1>1, <2>2, <2>3 DEF Asked
<1> QED BY <1>2, <1>3

\* Requests that neither copy nor paste.
LEMMA PasteAside ==
  ASSUME FileOpsInv, PasteInv, NEW j \in Jobs, NEW r, r.at \notin {"new", "setMove", "next", "write"},
         Step(j, r), r.kind \notin {"copy", "paste"}, job[j].kind # "copy", clip' = clip
  PROVE  PasteInv'
<1>1. Asked'
  BY AskedAside DEF PasteInv
<1>2. alone' \subseteq {j} /\ Undisturbed' /\ (j \in alone' => job'[j] = r)
  BY AloneAfter DEF PasteInv
<1>3. Pasting'
  BY <1>2 DEF Pasting
<1>4. PasteFaithful'
  BY <1>2 DEF PasteFaithful
<1> QED BY <1>1, <1>2, <1>3, <1>4 DEF PasteInv

\* A step of one that goes on to at.
LEMMA GoesAside ==
  ASSUME FileOpsInv, PasteInv, NEW j \in Jobs, NEW at, at \notin {"new", "setMove", "next", "write"},
         Goto(j, at), job[j].kind \notin {"copy", "paste"}, clip' = clip
  PROVE  PasteInv'
<1> DEFINE r == [job[j] EXCEPT !.at = at]
<1>1. Step(j, r)
  BY DEF Goto
<1>2. job[j] \in Records
  BY DEF FileOpsInv, TypeOK
<1>3. r.at = at /\ r.kind = job[j].kind
  BY <1>2 DEF Records
<1> HIDE DEF r
<1> QED BY <1>1, <1>3, PasteAside

LEMMA MoveToTrashAside ==
  ASSUME FileOpsInv, PasteInv, NEW j \in Jobs, MoveToTrash(j)
  PROVE  PasteInv'
<1>1. job[j] \in Records /\ PhaseOK(job[j])
  BY DEF FileOpsInv, TypeOK, Phases
<1>2. ASSUME NEW p \in Paths, StartTrash(j, p)
      PROVE  PasteInv'
  <2> DEFINE q == [Blank EXCEPT !.path = p, !.name = <<Base(p), 0>>]
             r == [StatName(q) EXCEPT !.kind = "trash"]
  <2>1. Step(j, r) /\ job[j] = Blank /\ clip' = clip
    BY <1>2, Begins DEF StartTrash
  <2>2. r.kind = "trash" /\ r.at \in {"stat", "openInfo"}
    BY DEF StatName, Blank
  <2> HIDE DEF r
  <2> QED BY <2>1, <2>2, PasteAside DEF Blank
<1>3. CASE StatNext(j)
  <2> DEFINE r == StatName(job[j])
  <2>1. Step(j, r) /\ job[j].kind = "trash" /\ clip' = clip
    BY <1>1, <1>3 DEF StatNext, PhaseOK
  <2>2. r.kind = "trash" /\ r.at \in {"stat", "openInfo"}
    BY <1>1, <2>1 DEF StatName, Records
  <2> HIDE DEF r
  <2> QED BY <2>1, <2>2, PasteAside
<1>4. CASE OpenInfo(j) \/ WriteInfo(j)
  <2>1. /\ job[j].kind = "trash" /\ clip' = clip
        /\ Goto(j, "writeInfo") \/ Goto(j, "move") \/ Goto(j, "failed")
    BY <1>1, <1>4 DEF OpenInfo, WriteInfo, PhaseOK
  <2> QED BY <2>1, GoesAside
<1>5. CASE MoveFile(j)
  <2>1. job[j].kind = "trash" /\ clip' = clip /\ (Goto(j, "done") \/ Goto(j, "undo"))
    BY <1>1, <1>5 DEF MoveFile, PhaseOK
  <2> QED BY <2>1, GoesAside
<1>6. CASE RemoveOwnInfo(j)
  BY <1>1, <1>6, GoesAside DEF RemoveOwnInfo, PhaseOK
<1> QED BY <1>2, <1>3, <1>4, <1>5, <1>6 DEF MoveToTrash

LEMMA RestoreAside ==
  ASSUME FileOpsInv, PasteInv, NEW j \in Jobs, RestoreFromTrash(j)
  PROVE  PasteInv'
<1>1. job[j] \in Records /\ PhaseOK(job[j])
  BY DEF FileOpsInv, TypeOK, Phases
<1>2. ASSUME NEW t \in TrashNames, ParseInfo(j, t)
      PROVE  PasteInv'
  <2>3. PICK dst : New(j, "restore", [Blank EXCEPT !.at = "moveBack", !.name = t, !.dest = dst])
    BY <1>2 DEF ParseInfo
  <2> DEFINE q == [Blank EXCEPT !.at = "moveBack", !.name = t, !.dest = dst]
             r == [q EXCEPT !.kind = "restore"]
  <2>1. Step(j, r) /\ job[j] = Blank /\ clip' = clip
    BY <1>2, <2>3, Begins DEF ParseInfo
  <2>2. r.kind = "restore" /\ r.at = "moveBack"
    BY DEF Blank
  <2> HIDE DEF r
  <2> QED BY <2>1, <2>2, PasteAside DEF Blank
<1>3. CASE MoveBack(j)
  <2>1. job[j].kind = "restore" /\ clip' = clip /\ (Goto(j, "removeInfo") \/ Goto(j, "failed"))
    BY <1>1, <1>3 DEF MoveBack, PhaseOK
  <2> QED BY <2>1, GoesAside
<1>4. CASE RemoveInfo(j)
  BY <1>1, <1>4, GoesAside DEF RemoveInfo, PhaseOK
<1> QED BY <1>2, <1>3, <1>4 DEF RestoreFromTrash

LEMMA EmptyTrashAside ==
  ASSUME FileOpsInv, PasteInv, NEW j \in Jobs, EmptyTrash(j)
  PROVE  PasteInv'
<1>1. job[j] \in Records /\ PhaseOK(job[j])
  BY DEF FileOpsInv, TypeOK, Phases
<1>2. CASE ListFiles(j)
  <2> DEFINE todo == {t \in TrashNames : files[t] # Empty}
             r == [Blank EXCEPT !.at = "removeFiles", !.todo = todo, !.kind = "empty"]
  <2>1. Step(j, r) /\ job[j] = Blank /\ clip' = clip
    BY <1>2, Begins DEF ListFiles
  <2>2. r.kind = "empty" /\ r.at = "removeFiles"
    BY DEF Blank
  <2> HIDE DEF r
  <2> QED BY <2>1, <2>2, PasteAside DEF Blank
<1>3. ASSUME NEW todo, Step(j, [job[j] EXCEPT !.todo = todo]), clip' = clip,
             job[j].at \in {"removeFiles", "removeInfos"}
      PROVE  PasteInv'
  <2> DEFINE r == [job[j] EXCEPT !.todo = todo]
  <2>1. job[j].kind = "empty"
    BY <1>1, <1>3 DEF PhaseOK
  <2>2. r.at = job[j].at /\ r.kind = "empty"
    BY <1>1, <2>1 DEF Records
  <2>3. Step(j, r)
    BY <1>3
  <2> HIDE DEF r
  <2> QED BY <1>3, <2>1, <2>2, <2>3, PasteAside
<1>7. ASSUME GiveUp(j), clip' = clip, job[j].at \in {"removeFiles", "removeInfos"}
      PROVE  PasteInv'
  BY <1>1, <1>7, GoesAside DEF GiveUp, PhaseOK
<1>4. CASE ListInfo(j) /\ ~GiveUp(j)
  <2> DEFINE todo == {t \in TrashNames : info[t] # NoPath}
             r == [job[j] EXCEPT !.at = "removeInfos", !.todo = todo]
  <2>1. Step(j, r) /\ job[j].kind = "empty" /\ clip' = clip
    BY <1>1, <1>4 DEF ListInfo, PhaseOK
  <2>2. r.kind = "empty" /\ r.at = "removeInfos"
    BY <1>1, <2>1 DEF Records
  <2> HIDE DEF r
  <2> QED BY <2>1, <2>2, PasteAside
<1>5. CASE Emptied(j)
  BY <1>1, <1>5, GoesAside DEF Emptied, PhaseOK
<1>6. ASSUME NEW t \in TrashNames, RemoveFile(j, t) \/ RemoveInfoOf(j, t)
      PROVE  PasteInv'
  <2> DEFINE todo == job[j].todo \ {t}
  <2>1. /\ Step(j, [job[j] EXCEPT !.todo = todo]) \/ GiveUp(j)
        /\ clip' = clip /\ job[j].at \in {"removeFiles", "removeInfos"}
    BY <1>6 DEF RemoveFile, RemoveInfoOf
  <2> HIDE DEF todo
  <2> QED BY <2>1, <1>3, <1>7
<1>8. CASE ListInfo(j) /\ GiveUp(j)
  BY <1>7, <1>8 DEF ListInfo
<1> QED BY <1>2, <1>4, <1>5, <1>6, <1>8 DEF EmptyTrash

LEMMA SingleAside ==
  ASSUME FileOpsInv, PasteInv, NEW j \in Jobs, Single(j)
  PROVE  PasteInv'
<1>1. ASSUME NEW kind \in {"delete", "create", "rename"}, New(j, kind, Only), clip' = clip
      PROVE  PasteInv'
  <2> DEFINE r == [Only EXCEPT !.kind = kind]
  <2>1. Step(j, r) /\ job[j] = Blank
    BY <1>1, Begins
  <2>2. r.kind = kind /\ r.at = "done"
    BY DEF Only, Blank
  <2> HIDE DEF r
  <2> QED BY <1>1, <2>1, <2>2, PasteAside DEF Blank
<1> QED BY <1>1 DEF Single, RemoveForGood, CreateFile, RenameFile

\* A copy sets the paths, then tells whether to move them.
LEMMA CopiesAt ==
  ASSUME FileOpsInv
  PROVE  \A k \in Copies : job[k].at \in {"setMove", "done", "failed"}
<1> SUFFICES ASSUME NEW k \in Copies PROVE job[k].at \in {"setMove", "done", "failed"}
  OBVIOUS
<1>1. k \in Jobs /\ job[k].kind = "copy"
  BY DEF Copies
<1>2. job[k] \in Records /\ PhaseOK(job[k])
  BY <1>1 DEF FileOpsInv, TypeOK, Phases
<1>3. job[k] # Blank
  BY <1>1 DEF Blank
<1>4. job[k].at \in Steps \cup {"new", "done", "failed"}
  BY <1>2 DEF Records
<1> QED BY <1>1, <1>2, <1>3, <1>4 DEF PhaseOK, Steps

LEMMA CopyAside ==
  ASSUME FileOpsInv, PasteInv, NEW j \in Jobs, NEW r, r.kind = "copy", r.at \in {"setMove", "done"},
         Step(j, r), Asked'
  PROVE  PasteInv'
<1>1. alone' \subseteq {j} /\ Undisturbed' /\ (j \in alone' => job'[j] = r)
  BY AloneAfter DEF PasteInv
<1>2. Pasting'
  BY <1>1 DEF Pasting
<1>3. PasteFaithful'
  BY <1>1 DEF PasteFaithful
<1> QED BY <1>1, <1>2, <1>3 DEF PasteInv

LEMMA SetPathsAside ==
  ASSUME FileOpsInv, PasteInv, NEW j \in Jobs, NEW srcs \in Selections, NEW move \in BOOLEAN,
         SetPaths(j, srcs, move)
  PROVE  PasteInv'
<1> DEFINE r == [Blank EXCEPT !.at = "setMove", !.move = move, !.kind = "copy"]
<1>1. Step(j, r)
  BY Begins DEF SetPaths
<1>2. r.kind = "copy" /\ r.at = "setMove" /\ Trimmed(r) = r
  BY DEF Blank, Trimmed
<1> HIDE DEF r
<1>3. job'[j] = r /\ \A k \in Jobs \ {j} : job'[k] = Trimmed(job[k])
  BY <1>1, <1>2, AloneAfter DEF PasteInv
<1>4. \A k \in Jobs \ {j} :
        /\ job'[k].at = "setMove" => job'[k].kind = "copy"
        /\ job'[k].kind = "copy" => job'[k].at \in {"setMove", "done"}
  <2> SUFFICES ASSUME NEW k \in Jobs \ {j}
               PROVE  /\ Trimmed(job[k]).at = "setMove" => Trimmed(job[k]).kind = "copy"
                      /\ Trimmed(job[k]).kind = "copy" => Trimmed(job[k]).at \in {"setMove", "done"}
    BY <1>3
  <2>1. /\ job[k].at = "setMove" => job[k].kind = "copy"
        /\ job[k].kind = "copy" => job[k].at \in {"setMove", "done", "failed"}
    BY CopiesAt DEF PasteInv, Asked, Copies
  <2> QED BY <2>1 DEF Trimmed, Blank
<1>5. j \in Copies' /\ (\A k \in Copies' : job'[k].at \in {"setMove", "done"})
  BY <1>2, <1>3, <1>4 DEF Copies
<1>6. \A k \in Jobs : job'[k].at = "setMove" => job'[k].kind = "copy"
  BY <1>2, <1>3, <1>4
<1>7. \A k \in Jobs : ~(Copies' = {k} /\ job'[k].at = "done")
  BY <1>2, <1>3, <1>5
<1>8. Asked'
  BY <1>5, <1>6, <1>7 DEF Asked
<1> QED BY <1>1, <1>2, <1>8, CopyAside

LEMMA SetMoveAside ==
  ASSUME FileOpsInv, PasteInv, NEW j \in Jobs, SetMove(j)
  PROVE  PasteInv'
<1> DEFINE r == [job[j] EXCEPT !.at = "done"]
<1>1. /\ Step(j, r) /\ job[j].at = "setMove" /\ job[j].kind = "copy" /\ job[j] \in Records
      /\ clip'.paths = clip.paths /\ clip'.move = job[j].move
  BY DEF SetMove, Goto, PasteInv, Asked, FileOpsInv, TypeOK
<1>2. r.kind = "copy" /\ r.at = "done" /\ r.move = job[j].move
  BY <1>1 DEF Records
<1> HIDE DEF r
<1>3. job'[j] \in {r, Trimmed(r)} /\ \A k \in Jobs \ {j} : job'[k] = Trimmed(job[k])
  BY <1>1, <1>2, AloneAfter DEF PasteInv
<1>4. job'[j].kind = "copy" /\ job'[j].at = "done" /\ job'[j].move = clip'.move
  BY <1>1, <1>2, <1>3, TrimmedCopy
<1>5. \A k \in Jobs : job'[k].at = "setMove" => job'[k].kind = "copy"
  <2> SUFFICES ASSUME NEW k \in Jobs \ {j}, Trimmed(job[k]).at = "setMove"
               PROVE  Trimmed(job[k]).kind = "copy"
    BY <1>3, <1>4
  <2>1. job[k].at = "setMove"
    BY DEF Trimmed, Blank
  <2> QED BY <2>1, TrimmedCopy DEF PasteInv, Asked
<1>6. Asked'
  <2>1. CASE clip.paths = <<>>
    BY <1>1, <1>5, <2>1 DEF Asked
  <2>2. CASE clip.paths # <<>>
    <3>1. \A k \in Copies \ {j} : job'[k].kind = "copy" /\ job'[k].at \in {"setMove", "done"}
      BY <1>3, <2>2, TrimmedCopy DEF PasteInv, Asked, Copies
    <3>2. \A k \in Jobs \ {j} : job'[k].kind = "copy" => job[k].kind = "copy"
      BY <1>3, TrimmedCopy
    <3>3. j \in Copies' /\ (\A k \in Copies' : job'[k].at \in {"setMove", "done"})
      BY <1>4, <3>1, <3>2 DEF Copies
    <3> QED BY <1>4, <1>5, <3>3 DEF Asked
  <2> QED BY <2>1, <2>2
<1> QED BY <1>1, <1>2, <1>6, CopyAside

\* Sources and targets of a proper paste are all different.
LEMMA PastePathsApart ==
  ASSUME NEW r, r.srcs \in Seq(Paths), NEW d \in Dirs, r.dest = <<d>>, Proper(r)
  PROVE  /\ \A l \in DOMAIN r.srcs : r.srcs[l] \in Paths /\ PastePath(r, l) \in Paths
         /\ \A l, m \in DOMAIN r.srcs :
              /\ r.srcs[l] # PastePath(r, m)
              /\ PastePath(r, l) = PastePath(r, m) => l = m
              /\ r.srcs[l] = r.srcs[m] => l = m
<1>1. \A l \in DOMAIN r.srcs : r.srcs[l] \in Paths /\ r.srcs[l][2] \in Names
  BY DEF Paths
<1>2. \A l \in DOMAIN r.srcs : PastePath(r, l) = <<d, r.srcs[l][2]>> /\ PastePath(r, l) \in Paths
  BY <1>1 DEF PastePath, Base, Paths
<1>3. /\ \A l \in DOMAIN r.srcs : r.srcs[l][1] # d
      /\ \A l, m \in DOMAIN r.srcs : r.srcs[l][2] = r.srcs[m][2] => l = m
  BY DEF Proper, Base
<1> QED BY <1>1, <1>2, <1>3

\* What a paste's step must show: that it is as far as its record says, or has
\* pasted everything.
LEMMA PasteOnward ==
  ASSUME FileOpsInv, PasteInv, NEW j \in Jobs, NEW r, r.at \in {"next", "write", "done", "failed"},
         r.kind = "paste", Step(j, r), job[j].kind # "copy",
         clip'.move = clip.move, clip'.paths \in {clip.paths, <<>>},
         r.at \in {"next", "write"} /\ j \in alone' /\ Proper(r) => Progress(r)',
         r.at = "done" /\ j \in alone' /\ Proper(r) =>
           \A l \in DOMAIN r.srcs : clip.paths # <<>> /\ Pasted(r, l)'
  PROVE  PasteInv'
<1>1. Asked'
  BY AskedAside DEF PasteInv
<1>2. alone' \subseteq {j} /\ Undisturbed' /\ (j \in alone' => job'[j] = r)
  BY AloneAfter DEF PasteInv
<1>3. Pasting'
  <2>1. ASSUME j \in alone', r.at \in {"next", "write"}, Proper(job[j])'
        PROVE  Progress(job[j])'
    <3>1. job'[j] = r
      BY <1>2, <2>1
    <3>2. Progress(r)'
      BY <2>1, <3>1 DEF Proper, Base
    <3> QED BY <3>1, <3>2 DEF Progress, Pasted, PastePath, Held, Base
  <2> QED BY <1>2, <2>1 DEF Pasting
<1>4. PasteFaithful'
  <2> SUFFICES ASSUME NEW m \in alone', NEW k \in Copies', job'[m].at = "done", job'[k].at = "done",
                      Copies' = {k},
                      \A l \in DOMAIN job'[m].srcs : job'[m].srcs[l][1] # job'[m].dest[1],
                      \A l, n \in DOMAIN job'[m].srcs :
                        Base(job'[m].srcs[l]) = Base(job'[m].srcs[n]) => l = n,
                      NEW i \in DOMAIN job'[m].srcs
               PROVE  LET dst == <<job'[m].dest[1], Base(job'[m].srcs[i])>>
                      IN  /\ Held(job[m].srcs)'[i] = IF job'[k].move THEN Empty ELSE job'[m].was[i]
                          /\ fs'[dst] # Empty /\ data'[fs'[dst]] = job'[m].was[i]
    BY DEF PasteFaithful
  <2>1. m = j /\ job'[m] = r /\ i \in DOMAIN r.srcs /\ r.at = "done" /\ Proper(r)
    BY <1>2 DEF Proper
  <2>2. clip.paths # <<>> /\ Pasted(r, i)'
    BY <2>1
  <2>3. k \in Copies /\ Copies = {k} /\ job[k].at = "done" /\ job'[k].move = job[k].move
    BY <2>2, CopiesStay DEF PasteInv
  <2>4. clip.move = job[k].move
    BY <2>2, <2>3 DEF PasteInv, Asked, Copies
  <2> QED BY <2>2, <2>3, <2>4, <2>1 DEF Pasted, PastePath, Held, Base
<1> QED BY <1>1, <1>2, <1>3, <1>4 DEF PasteInv

\* How far a paste that nothing came between is, seen from its next record.
LEMMA PasteStands ==
  ASSUME FileOpsInv, PasteInv, NEW j \in Jobs, job[j].at \in {"next", "write"},
         NEW r, r.at # "new", r.srcs = job[j].srcs, r.dest = job[j].dest, r.was = job[j].was,
         Step(j, r), j \in alone', Proper(r)
  PROVE  /\ r.srcs \in Seq(Paths) /\ r.srcs # <<>> /\ clip.paths = r.srcs
         /\ \A l \in DOMAIN r.srcs : r.srcs[l] \in Paths /\ PastePath(r, l) \in Paths
         /\ \A l, m \in DOMAIN r.srcs :
              /\ r.srcs[l] # PastePath(r, m)
              /\ PastePath(r, l) = PastePath(r, m) => l = m
              /\ r.srcs[l] = r.srcs[m] => l = m
         /\ \A l \in DOMAIN r.srcs :
              IF l < job[j].i THEN Pasted(r, l) ELSE Held(r.srcs)[l] = r.was[l]
         /\ job[j].at = "write" =>
              /\ ~clip.move /\ job[j].i \in DOMAIN r.srcs
              /\ job[j].inode = fs[r.srcs[job[j].i]] /\ job[j].inode # Empty
              /\ job[j].to = fs[PastePath(r, job[j].i)] /\ job[j].to # Empty
<1>1. job[j] \in Records /\ PhaseOK(job[j])
  BY DEF FileOpsInv, TypeOK, Phases
<1>2. r.srcs \in Seq(Paths)
  BY <1>1 DEF Records
<1>3. j \in alone
  BY AloneAfter DEF PasteInv
<1>4. Progress(job[j])
  BY <1>3 DEF PasteInv, Pasting, Proper
<1>5. \A l \in DOMAIN r.srcs : Pasted(job[j], l) <=> Pasted(r, l)
  BY DEF Pasted, PastePath
<1>6. PastePath(job[j], job[j].i) = PastePath(r, job[j].i)
  BY DEF PastePath
<1>7. PICK d \in Dirs : r.dest = <<d>>
  BY <1>1 DEF PhaseOK
<1>8. /\ \A l \in DOMAIN r.srcs : r.srcs[l] \in Paths /\ PastePath(r, l) \in Paths
      /\ \A l, m \in DOMAIN r.srcs :
           /\ r.srcs[l] # PastePath(r, m)
           /\ PastePath(r, l) = PastePath(r, m) => l = m
           /\ r.srcs[l] = r.srcs[m] => l = m
  BY <1>2, <1>7, PastePathsApart
<1> QED BY <1>2, <1>4, <1>5, <1>6, <1>8 DEF Progress

\* The step of one source leaves the others as they are, and their copies.
LEMMA OtherSources ==
  ASSUME NEW r, NEW i \in DOMAIN r.srcs, NEW l \in DOMAIN r.srcs, l # i, clip'.move = clip.move,
         r.srcs[l] \in Paths, PastePath(r, l) \in Paths,
         \A m, n \in {i, l} : /\ r.srcs[m] # PastePath(r, n)
                              /\ PastePath(r, m) = PastePath(r, n) => m = n
                              /\ r.srcs[m] = r.srcs[n] => m = n,
         \A p \in Paths \ {r.srcs[i], PastePath(r, i)} :
           fs'[p] = fs[p] /\ (fs[p] # Empty => data'[fs[p]] = data[fs[p]])
  PROVE  (Pasted(r, l) => Pasted(r, l)') /\ Held(r.srcs)'[l] = Held(r.srcs)[l]
<1>1. /\ fs'[r.srcs[l]] = fs[r.srcs[l]] /\ fs'[PastePath(r, l)] = fs[PastePath(r, l)]
      /\ fs[r.srcs[l]] # Empty => data'[fs[r.srcs[l]]] = data[fs[r.srcs[l]]]
      /\ fs[PastePath(r, l)] # Empty => data'[fs[PastePath(r, l)]] = data[fs[PastePath(r, l)]]
  OBVIOUS
<1>2. Held(r.srcs)'[l] = Held(r.srcs)[l]
  BY <1>1 DEF Held
<1>3. PastePath(r, l)' = PastePath(r, l)
  BY DEF PastePath
<1> QED BY <1>1, <1>2, <1>3 DEF Pasted, PastePath

LEMMA BeginPasteAside ==
  ASSUME FileOpsInv, PasteInv, NEW j \in Jobs, NEW d \in Dirs, BeginPaste(j, d)
  PROVE  PasteInv'
<1> DEFINE at == IF clip.paths = <<>> THEN "done" ELSE "next"
<1>1. PICK r : r = [Blank EXCEPT !.at = at, !.srcs = clip.paths, !.dest = <<d>>,
                                 !.was = Held(clip.paths), !.kind = "paste"]
  OBVIOUS
<1>2. Step(j, r) /\ job[j] = Blank /\ UNCHANGED <<fs, data, clip>>
  BY <1>1, Begins DEF BeginPaste, disk
<1>3. /\ r.at = at /\ r.kind = "paste" /\ r.srcs = clip.paths /\ r.was = Held(clip.paths)
      /\ r.i = 1
  BY <1>1 DEF Blank
<1>4. clip.paths \in Seq(Paths)
  BY DEF FileOpsInv, TypeOK
<1>5. ASSUME r.at = "next"
      PROVE  Progress(r)'
  <2>1. clip.paths # <<>>
    BY <1>3, <1>5
  <2>2. \A l \in DOMAIN r.srcs : ~(l < r.i) /\ Held(r.srcs)'[l] = r.was[l]
    BY <1>2, <1>3, <1>4 DEF Held
  <2> QED BY <1>2, <1>3, <1>5, <2>1, <2>2 DEF Progress
<1>6. ASSUME r.at = "done"
      PROVE  DOMAIN r.srcs = {}
  BY <1>3, <1>6
<1>7. r.at \in {"next", "done"} /\ job[j].kind # "copy"
  BY <1>2, <1>3 DEF Blank
<1> QED BY <1>2, <1>3, <1>5, <1>6, <1>7, PasteOnward

\* A paste that fails promises nothing.
LEMMA PasteFailsAside ==
  ASSUME FileOpsInv, PasteInv, NEW j \in Jobs, job[j].kind = "paste", Goto(j, "failed"), clip' = clip
  PROVE  PasteInv'
<1>1. PICK r : r = [job[j] EXCEPT !.at = "failed"]
  OBVIOUS
<1>2. Step(j, r) /\ job[j] \in Records /\ job[j].kind = "paste"
  BY <1>1 DEF Goto, FileOpsInv, TypeOK
<1>3. r.at = "failed" /\ r.kind = "paste"
  BY <1>1, <1>2 DEF Records
<1> QED BY <1>2, <1>3, PasteOnward

LEMMA PasteByMoveAside ==
  ASSUME FileOpsInv, PasteInv, NEW j \in Jobs, PasteByMove(j)
  PROVE  PasteInv'
<1>1. PICK i, src, dst : i = job[j].i /\ src = Source(j) /\ dst = Target(j)
  OBVIOUS
<1>2. /\ NextSource(j) /\ clip.move /\ clip' = clip /\ data' = data
      /\ job[j] \in Records /\ job[j].at = "next" /\ job[j].kind = "paste"
  BY PastePaths DEF PasteByMove
<1>3. CASE Goto(j, "failed")
  BY <1>2, <1>3, PasteFailsAside
<1>4. ASSUME fs[src] # Empty, Step(j, [job[j] EXCEPT !.i = @ + 1]),
             fs' = IF src = dst THEN fs ELSE [fs EXCEPT ![dst] = fs[src], ![src] = Empty]
      PROVE  PasteInv'
  <2>1. PICK r : r = [job[j] EXCEPT !.i = @ + 1]
    OBVIOUS
  <2>2. /\ Step(j, r)
        /\ fs' = IF src = dst THEN fs ELSE [fs EXCEPT ![dst] = fs[src], ![src] = Empty]
    BY <1>4, <2>1
  <2>3. /\ r.at = "next" /\ r.kind = "paste" /\ r.i = i + 1 /\ i \in Nat \ {0}
        /\ r.srcs = job[j].srcs /\ r.dest = job[j].dest /\ r.was = job[j].was
    BY <1>2, <1>1, <2>1 DEF Records
  <2>4. ASSUME j \in alone', Proper(r)
        PROVE  Progress(r)'
    <3>1. /\ r.srcs \in Seq(Paths) /\ r.srcs # <<>> /\ clip.paths = r.srcs
          /\ \A l \in DOMAIN r.srcs : r.srcs[l] \in Paths /\ PastePath(r, l) \in Paths
          /\ \A l, m \in DOMAIN r.srcs :
               /\ r.srcs[l] # PastePath(r, m)
               /\ PastePath(r, l) = PastePath(r, m) => l = m
               /\ r.srcs[l] = r.srcs[m] => l = m
          /\ \A l \in DOMAIN r.srcs :
               IF l < i THEN Pasted(r, l) ELSE Held(r.srcs)[l] = r.was[l]
      BY <1>2, <1>1, <2>2, <2>3, <2>4, PasteStands
    <3>2. i \in DOMAIN r.srcs /\ \A l \in DOMAIN r.srcs : l \in Nat
      BY <1>2, <1>1, <2>3, <3>1 DEF NextSource
    <3>3. src = r.srcs[i] /\ dst = PastePath(r, i) /\ src \in Paths /\ dst \in Paths /\ src # dst
      BY <1>1, <2>3, <3>1, <3>2 DEF Source, Target, PastePath
    <3>4. /\ fs'[dst] = fs[src] /\ fs'[src] = Empty
          /\ \A p \in Paths \ {src, dst} : fs'[p] = fs[p]
      BY <2>2, <3>3 DEF FileOpsInv, TypeOK
    <3>5. Pasted(r, i)'
      <4>1. Held(r.srcs)[i] = r.was[i] /\ Held(r.srcs)[i] = data[fs[src]]
        <5>1. ~(i < i)
          BY <2>3
        <5>2. Held(r.srcs)[i] = r.was[i]
          BY <3>1, <3>2, <5>1
        <5>3. Held(r.srcs)[i] = IF fs[r.srcs[i]] = Empty THEN Empty ELSE data[fs[r.srcs[i]]]
          BY <3>2 DEF Held
        <5> QED BY <1>4, <3>3, <5>2, <5>3
      <4>2. Held(r.srcs)'[i] = Empty
        BY <3>2, <3>3, <3>4 DEF Held
      <4>3. fs'[PastePath(r, i)] # Empty /\ data'[fs'[PastePath(r, i)]] = r.was[i]
        BY <1>2, <1>4, <3>3, <3>4, <4>1
      <4> QED BY <1>2, <4>2, <4>3 DEF Pasted, PastePath
    <3>6. \A l \in DOMAIN r.srcs \ {i} :
            (Pasted(r, l) => Pasted(r, l)') /\ Held(r.srcs)'[l] = Held(r.srcs)[l]
      <4> TAKE l \in DOMAIN r.srcs \ {i}
      <4>1. \A m, n \in {i, l} : /\ r.srcs[m] # PastePath(r, n)
                                 /\ PastePath(r, m) = PastePath(r, n) => m = n
                                 /\ r.srcs[m] = r.srcs[n] => m = n
        BY <3>1, <3>2
      <4>2. \A p \in Paths \ {r.srcs[i], PastePath(r, i)} :
              fs'[p] = fs[p] /\ (fs[p] # Empty => data'[fs[p]] = data[fs[p]])
        BY <1>2, <3>3, <3>4
      <4>3. l # i /\ clip'.move = clip.move /\ r.srcs[l] \in Paths /\ PastePath(r, l) \in Paths
        BY <1>2, <3>1
      <4> QED BY <3>2, <4>1, <4>2, <4>3, OtherSources
    <3>7. \A l \in DOMAIN r.srcs :
            IF l < r.i THEN Pasted(r, l)' ELSE Held(r.srcs)'[l] = r.was[l]
      <4> TAKE l \in DOMAIN r.srcs
      <4>1. CASE l = i
        BY <2>3, <3>5, <4>1
      <4>2. CASE l # i
        <5>1. l < r.i <=> l < i
          BY <2>3, <3>2, <4>2
        <5> QED BY <3>1, <3>6, <4>2, <5>1
      <4> QED BY <4>1, <4>2
    <3> QED BY <1>2, <2>3, <3>1, <3>7 DEF Progress
  <2>5. /\ r.at \in {"next", "write", "done", "failed"} /\ r.at # "done" /\ job[j].kind # "copy"
        /\ clip'.move = clip.move /\ clip'.paths \in {clip.paths, <<>>}
    BY <1>2, <2>3
  <2> QED BY <2>2, <2>3, <2>4, <2>5, PasteOnward
<1> QED BY <1>1, <1>3, <1>4 DEF PasteByMove

LEMMA OpenCopyAside ==
  ASSUME FileOpsInv, PasteInv, NEW j \in Jobs, OpenCopy(j)
  PROVE  PasteInv'
<1>1. PICK i, src, dst : i = job[j].i /\ src = Source(j) /\ dst = Target(j)
  OBVIOUS
<1>2. PICK to : to = IF fs[dst] = Empty THEN born + 1 ELSE fs[dst]
  OBVIOUS
<1>3. /\ NextSource(j) /\ ~clip.move /\ clip' = clip
      /\ job[j] \in Records /\ job[j].at = "next" /\ job[j].kind = "paste"
  BY PastePaths DEF OpenCopy
<1>4. CASE Goto(j, "failed")
  BY <1>3, <1>4, PasteFailsAside
<1>5. ASSUME fs[src] # Empty, to \in Inodes, fs' = [fs EXCEPT ![dst] = to],
             data' = [data EXCEPT ![to] = Empty],
             Step(j, [job[j] EXCEPT !.at = "write", !.inode = fs[src], !.to = to])
      PROVE  PasteInv'
  <2>1. PICK r : r = [job[j] EXCEPT !.at = "write", !.inode = fs[src], !.to = to]
    OBVIOUS
  <2>2. /\ Step(j, r) /\ to \in Inodes
        /\ fs' = [fs EXCEPT ![dst] = to] /\ data' = [data EXCEPT ![to] = Empty]
    BY <1>5, <2>1
  <2>3. /\ r.at = "write" /\ r.kind = "paste" /\ r.i = i /\ i \in Nat \ {0}
        /\ r.inode = fs[src] /\ r.to = to
        /\ r.srcs = job[j].srcs /\ r.dest = job[j].dest /\ r.was = job[j].was
    BY <1>1, <1>3, <2>1 DEF Records
  <2>4. ASSUME j \in alone', Proper(r)
        PROVE  Progress(r)'
    <3>1. /\ r.srcs \in Seq(Paths) /\ r.srcs # <<>> /\ clip.paths = r.srcs
          /\ \A l \in DOMAIN r.srcs : r.srcs[l] \in Paths /\ PastePath(r, l) \in Paths
          /\ \A l, m \in DOMAIN r.srcs :
               /\ r.srcs[l] # PastePath(r, m)
               /\ PastePath(r, l) = PastePath(r, m) => l = m
               /\ r.srcs[l] = r.srcs[m] => l = m
          /\ \A l \in DOMAIN r.srcs :
               IF l < i THEN Pasted(r, l) ELSE Held(r.srcs)[l] = r.was[l]
      BY <1>1, <1>3, <2>2, <2>3, <2>4, PasteStands
    <3>2. i \in DOMAIN r.srcs /\ \A l \in DOMAIN r.srcs : l \in Nat
      BY <1>1, <1>3, <2>3, <3>1 DEF NextSource
    <3>3. src = r.srcs[i] /\ dst = PastePath(r, i) /\ src \in Paths /\ dst \in Paths /\ src # dst
      BY <1>1, <2>3, <3>1, <3>2 DEF Source, Target, PastePath
    <3>4. /\ fs'[dst] = to /\ \A p \in Paths \ {dst} : fs'[p] = fs[p]
          /\ \A n \in Inodes \ {to} : data'[n] = data[n]
      BY <2>2, <3>3 DEF FileOpsInv, TypeOK
    <3>5. \A p \in Paths \ {dst} : fs[p] # to
      <4>1. CASE fs[dst] = Empty
        <5>1. to = born + 1
          BY <1>2, <4>1
        <5> QED BY <5>1, Fresh DEF FileOpsInv
      <4>2. CASE fs[dst] # Empty
        <5>1. to = fs[dst]
          BY <1>2, <4>2
        <5> QED BY <3>3, <4>2, <5>1 DEF FileOpsInv, OneName
      <4> QED BY <4>1, <4>2
    <3>6. \A p \in Paths \ {dst} :
            fs'[p] = fs[p] /\ (fs[p] # Empty => data'[fs[p]] = data[fs[p]])
      <4> TAKE p \in Paths \ {dst}
      <4>1. fs[p] # Empty => fs[p] \in Inodes
        BY DEF FileOpsInv, TypeOK
      <4> QED BY <3>4, <3>5, <4>1
    <3>7. Held(r.srcs)'[i] = r.was[i]
      <4>1. ~(i < i)
        BY <2>3
      <4>2. Held(r.srcs)[i] = r.was[i]
        BY <3>1, <3>2, <4>1
      <4>3. Held(r.srcs)[i] = data[fs[src]]
        BY <1>5, <3>2, <3>3 DEF Held
      <4>4. fs'[src] = fs[src] /\ data'[fs'[src]] = data[fs[src]]
        BY <1>5, <3>3, <3>6
      <4>5. Held(r.srcs)'[i] = data'[fs'[src]]
        BY <1>5, <3>2, <3>3, <4>4 DEF Held
      <4> QED BY <4>2, <4>3, <4>4, <4>5
    <3>8. \A l \in DOMAIN r.srcs \ {i} :
            (Pasted(r, l) => Pasted(r, l)') /\ Held(r.srcs)'[l] = Held(r.srcs)[l]
      <4> TAKE l \in DOMAIN r.srcs \ {i}
      <4>1. \A m, n \in {i, l} : /\ r.srcs[m] # PastePath(r, n)
                                 /\ PastePath(r, m) = PastePath(r, n) => m = n
                                 /\ r.srcs[m] = r.srcs[n] => m = n
        BY <3>1, <3>2
      <4>2. \A p \in Paths \ {r.srcs[i], PastePath(r, i)} :
              fs'[p] = fs[p] /\ (fs[p] # Empty => data'[fs[p]] = data[fs[p]])
        BY <3>3, <3>6
      <4>3. l # i /\ clip'.move = clip.move /\ r.srcs[l] \in Paths /\ PastePath(r, l) \in Paths
        BY <1>3, <3>1
      <4> QED BY <3>2, <4>1, <4>2, <4>3, OtherSources
    <3>9. \A l \in DOMAIN r.srcs :
            IF l < r.i THEN Pasted(r, l)' ELSE Held(r.srcs)'[l] = r.was[l]
      <4> TAKE l \in DOMAIN r.srcs
      <4>1. CASE l = i
        BY <2>3, <3>7, <4>1
      <4>2. CASE l # i
        BY <2>3, <3>1, <3>8, <4>2
      <4> QED BY <4>1, <4>2
    <3>10. /\ ~clip'.move /\ r.i \in DOMAIN r.srcs
           /\ r.inode = fs'[r.srcs[r.i]] /\ r.inode # Empty
           /\ r.to = fs'[PastePath(r, r.i)] /\ r.to # Empty
      BY <1>3, <1>5, <2>2, <2>3, <3>2, <3>3, <3>4, Distinct
    <3> QED BY <1>3, <3>1, <3>9, <3>10 DEF Progress, PastePath
  <2>5. /\ r.at \in {"next", "write", "done", "failed"} /\ r.at # "done" /\ job[j].kind # "copy"
        /\ clip'.move = clip.move /\ clip'.paths \in {clip.paths, <<>>}
    BY <1>3, <2>3
  <2> QED BY <2>2, <2>3, <2>4, <2>5, PasteOnward
<1> QED BY <1>1, <1>2, <1>4, <1>5 DEF OpenCopy

LEMMA WriteCopyAside ==
  ASSUME FileOpsInv, PasteInv, NEW j \in Jobs, WriteCopy(j)
  PROVE  PasteInv'
<1>8. job[j].at = "write" /\ job[j].kind = "paste" /\ clip' = clip
  BY DEF WriteCopy, FileOpsInv, Phases, PhaseOK
<1> SUFFICES ASSUME ~Goto(j, "failed") PROVE PasteInv'
  BY <1>8, PasteFailsAside
<1>1. PICK i, inode, to : i = job[j].i /\ inode = job[j].inode /\ to = job[j].to
  OBVIOUS
<1>2. PICK r : r = [job[j] EXCEPT !.at = "next", !.i = @ + 1, !.to = Empty]
  OBVIOUS
<1>3. /\ Step(j, r) /\ job[j].at = "write" /\ clip' = clip /\ fs' = fs
      /\ data' = [data EXCEPT ![to] = data[inode]]
  BY <1>1, <1>2 DEF WriteCopy
<1>4. job[j] \in Records /\ job[j].kind = "paste" /\ to \in Inodes
  BY <1>1, <1>3 DEF FileOpsInv, TypeOK, Phases, PhaseOK
<1>5. /\ r.at = "next" /\ r.kind = "paste" /\ r.i = i + 1 /\ i \in Nat \ {0}
      /\ r.srcs = job[j].srcs /\ r.dest = job[j].dest /\ r.was = job[j].was
  BY <1>1, <1>2, <1>4 DEF Records
<1>6. ASSUME j \in alone', Proper(r)
      PROVE  Progress(r)'
  <2>1. /\ r.srcs \in Seq(Paths) /\ r.srcs # <<>> /\ clip.paths = r.srcs
        /\ \A l \in DOMAIN r.srcs : r.srcs[l] \in Paths /\ PastePath(r, l) \in Paths
        /\ \A l, m \in DOMAIN r.srcs :
             /\ r.srcs[l] # PastePath(r, m)
             /\ PastePath(r, l) = PastePath(r, m) => l = m
             /\ r.srcs[l] = r.srcs[m] => l = m
        /\ \A l \in DOMAIN r.srcs :
             IF l < i THEN Pasted(r, l) ELSE Held(r.srcs)[l] = r.was[l]
        /\ ~clip.move /\ i \in DOMAIN r.srcs /\ inode = fs[r.srcs[i]] /\ inode # Empty
        /\ to = fs[PastePath(r, i)] /\ to # Empty
    BY <1>1, <1>3, <1>5, <1>6, PasteStands
  <2>2. PICK src, dst : src = r.srcs[i] /\ dst = PastePath(r, i)
    OBVIOUS
  <2>3. /\ src \in Paths /\ dst \in Paths /\ src # dst
        /\ inode = fs[src] /\ inode # Empty /\ to = fs[dst] /\ to # Empty
    BY <2>1, <2>2
  <2>4. \A l \in DOMAIN r.srcs : l \in Nat
    BY <2>1
  <2>5. data'[to] = data[inode] /\ \A n \in Inodes \ {to} : data'[n] = data[n]
    BY <1>3, <1>4 DEF FileOpsInv, TypeOK
  <2>6. \A p \in Paths \ {dst} :
          fs'[p] = fs[p] /\ (fs[p] # Empty => data'[fs[p]] = data[fs[p]])
    <3> TAKE p \in Paths \ {dst}
    <3>1. fs[p] # Empty => fs[p] \in Inodes
      BY DEF FileOpsInv, TypeOK
    <3>2. fs[p] # to
      BY <2>3 DEF FileOpsInv, OneName
    <3> QED BY <1>3, <2>5, <3>1, <3>2
  <2>7. Pasted(r, i)'
    <3>1. ~(i < i)
      BY <1>5
    <3>2. Held(r.srcs)[i] = r.was[i]
      BY <2>1, <3>1
    <3>3. Held(r.srcs)[i] = data[inode]
      BY <2>1, <2>2, <2>3 DEF Held
    <3>4. fs'[src] = inode /\ data'[inode] = data[inode]
      BY <2>3, <2>6
    <3>5. Held(r.srcs)'[i] = data'[fs'[src]]
      BY <2>1, <2>2, <2>3, <3>4 DEF Held
    <3>6. Held(r.srcs)'[i] = r.was[i]
      BY <3>2, <3>3, <3>4, <3>5
    <3>7. fs'[dst] # Empty /\ data'[fs'[dst]] = r.was[i]
      BY <1>3, <2>3, <2>5, <3>2, <3>3
    <3> QED BY <1>3, <2>1, <2>2, <3>6, <3>7 DEF Pasted, PastePath
  <2>8. \A l \in DOMAIN r.srcs \ {i} :
          (Pasted(r, l) => Pasted(r, l)') /\ Held(r.srcs)'[l] = Held(r.srcs)[l]
    <3> TAKE l \in DOMAIN r.srcs \ {i}
    <3>1. \A m, n \in {i, l} : /\ r.srcs[m] # PastePath(r, n)
                               /\ PastePath(r, m) = PastePath(r, n) => m = n
                               /\ r.srcs[m] = r.srcs[n] => m = n
      BY <2>1
    <3>2. \A p \in Paths \ {r.srcs[i], PastePath(r, i)} :
            fs'[p] = fs[p] /\ (fs[p] # Empty => data'[fs[p]] = data[fs[p]])
      BY <2>2, <2>6
    <3>3. l # i /\ clip'.move = clip.move /\ r.srcs[l] \in Paths /\ PastePath(r, l) \in Paths
      BY <1>3, <2>1
    <3> QED BY <2>1, <3>1, <3>2, <3>3, OtherSources
  <2>9. \A l \in DOMAIN r.srcs :
          IF l < r.i THEN Pasted(r, l)' ELSE Held(r.srcs)'[l] = r.was[l]
    <3> TAKE l \in DOMAIN r.srcs
    <3>1. CASE l = i
      BY <1>5, <2>7, <3>1
    <3>2. CASE l # i
      <4>1. l < r.i <=> l < i
        BY <1>5, <2>4, <3>2
      <4> QED BY <2>1, <2>8, <3>2, <4>1
    <3> QED BY <3>1, <3>2
  <2> QED BY <1>3, <1>5, <2>1, <2>9 DEF Progress
<1>7. /\ r.at \in {"next", "write", "done", "failed"} /\ r.at # "done" /\ job[j].kind # "copy"
      /\ clip'.move = clip.move /\ clip'.paths \in {clip.paths, <<>>}
  BY <1>3, <1>4, <1>5
<1> QED BY <1>3, <1>5, <1>6, <1>7, PasteOnward

LEMMA EndPasteAside ==
  ASSUME FileOpsInv, PasteInv, NEW j \in Jobs, EndPaste(j)
  PROVE  PasteInv'
<1>1. PICK i : i = job[j].i
  OBVIOUS
<1>2. PICK r : r = [job[j] EXCEPT !.at = "done"]
  OBVIOUS
<1>3. /\ Step(j, r) /\ job[j].at = "next" /\ i > Len(job[j].srcs) /\ fs' = fs /\ data' = data
      /\ clip' = IF clip.move THEN [clip EXCEPT !.paths = <<>>] ELSE clip
  BY <1>1, <1>2 DEF EndPaste, Goto, disk
<1>4. job[j] \in Records /\ job[j].kind = "paste"
  BY <1>3 DEF FileOpsInv, TypeOK, Phases, PhaseOK
<1>5. clip'.move = clip.move /\ clip'.paths \in {clip.paths, <<>>}
  BY <1>3 DEF FileOpsInv, TypeOK
<1>6. /\ r.at = "done" /\ r.kind = "paste" /\ i \in Nat \ {0}
      /\ r.srcs = job[j].srcs /\ r.dest = job[j].dest /\ r.was = job[j].was
  BY <1>1, <1>2, <1>4 DEF Records
<1>7. ASSUME j \in alone', Proper(r)
      PROVE  \A l \in DOMAIN r.srcs : clip.paths # <<>> /\ Pasted(r, l)'
  <2>1. /\ r.srcs \in Seq(Paths) /\ r.srcs # <<>> /\ clip.paths = r.srcs
        /\ \A l \in DOMAIN r.srcs :
             IF l < i THEN Pasted(r, l) ELSE Held(r.srcs)[l] = r.was[l]
    BY <1>1, <1>3, <1>6, <1>7, PasteStands
  <2> TAKE l \in DOMAIN r.srcs
  <2>2. l < i
    BY <1>3, <1>6, <2>1
  <2>3. Pasted(r, l)
    BY <2>1, <2>2
  <2>4. Pasted(r, l)'
    BY <1>3, <1>5, <2>3 DEF Pasted, PastePath, Held
  <2> QED BY <2>1, <2>4
<1> QED BY <1>3, <1>4, <1>5, <1>6, <1>7, PasteOnward

LEMMA PasteNext == FileOpsInv /\ PasteInv /\ [Next]_vars => PasteInv'
<1> SUFFICES ASSUME FileOpsInv, PasteInv, [Next]_vars PROVE PasteInv'
  OBVIOUS
<1>1. ASSUME NEW j \in Jobs, MoveToTrash(j) \/ RestoreFromTrash(j) \/ EmptyTrash(j) \/ Single(j)
      PROVE  PasteInv'
  BY <1>1, MoveToTrashAside, RestoreAside, EmptyTrashAside, SingleAside
<1>2. ASSUME NEW j \in Jobs, Copy(j)
      PROVE  PasteInv'
  BY <1>2, SetPathsAside, SetMoveAside DEF Copy
<1>3. ASSUME NEW j \in Jobs, Paste(j)
      PROVE  PasteInv'
  BY <1>3, BeginPasteAside, PasteByMoveAside, OpenCopyAside, WriteCopyAside, EndPasteAside DEF Paste
<1>4. CASE Crash
  <2>1. /\ job' = [j \in Jobs |-> IF Running(j) THEN [job[j] EXCEPT !.at = "failed"] ELSE job[j]]
        /\ clip'.paths = <<>> /\ alone' = {}
    BY <1>4 DEF Crash
  <2>2. \A j \in Jobs : job[j] \in Records
    BY DEF FileOpsInv, TypeOK
  <2>3. \A j \in Jobs : job'[j].at # "setMove"
    BY <2>1, <2>2 DEF Running, Records
  <2> QED BY <2>1, <2>3 DEF PasteInv, Asked, Undisturbed, Pasting, PasteFaithful
<1>5. CASE UNCHANGED vars
  <2>1. UNCHANGED <<fs, data, clip, job, alone>>
    BY <1>5 DEF vars, disk, history
  <2>2. Asked' /\ Undisturbed'
    BY <2>1 DEF PasteInv, Asked, Undisturbed, Copies
  <2>3. Pasting'
    <3>1. ASSUME NEW j \in alone, job[j].at \in {"next", "write"}, Proper(job[j])
          PROVE  Progress(job[j])'
      <4>1. Progress(job[j])
        BY <3>1 DEF PasteInv, Pasting
      <4> QED BY <2>1, <4>1 DEF Progress, Pasted, PastePath, Held, Base
    <3> QED BY <2>1, <3>1 DEF Pasting, Proper, Base
  <2>4. PasteFaithful'
    BY <2>1 DEF PasteInv, PasteFaithful, Copies, Held, Base
  <2> QED BY <2>2, <2>3, <2>4 DEF PasteInv
<1> QED BY <1>1, <1>2, <1>3, <1>4, <1>5 DEF Next

\* A paste nothing came between leaves every source's contents in the
\* destination, and the source itself if a copy was asked for (Copy, Paste of
\* the clipboard by os.Rename or copyRecursive).
THEOREM PasteFaithfulAlways == Spec => []PasteFaithful
<1>1. Init => PasteInv
  <2> SUFFICES ASSUME Init PROVE PasteInv
    OBVIOUS
  <2>1. (\A j \in Jobs : job[j] = Blank) /\ clip.paths = <<>> /\ alone = {}
    BY DEF Init
  <2> QED BY <2>1 DEF PasteInv, Asked, Undisturbed, Pasting, PasteFaithful, Blank
<1>2. PasteInv => PasteFaithful
  BY DEF PasteInv
<1> QED BY <1>1, <1>2, InitStart, NextKeeps, PasteNext, PTL DEF Spec
=============================================================================
