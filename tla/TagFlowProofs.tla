--------------------------- MODULE TagFlowProofs ---------------------------
(***************************************************************************)
(* What the writers of tags never do to the index and the graph, for any   *)
(* files, tags, rules and worlds and any number of operations.             *)
(***************************************************************************)
EXTENDS TagFlow, FiniteSetTheorems, WellFoundedInduction, TLAPS

Active(j) == Started(j) /\ ~Finished(j)

\* A row belongs to one path, and there are ids enough: an operation makes at
\* most one row, when it leaves "apply".
OneOwner == \A p, q \in Paths : row[p] = row[q] /\ row[p] # 0 => p = q
Synced == {j \in Jobs : job[j].at \notin {"new", "sync", "apply"}}
Numbered == \A p \in Paths : row[p] <= Cardinality(Paths) + Cardinality(Synced)

\* What kind of operation is where.
KindOK(b) ==
  /\ b.at \in {"readXattr", "writeXattr", "reread", "setGraph"} => b.kind = "tag"
  /\ b.at \in {"lookup", "modify"} => b.kind \in {"tag", "retag"}
  /\ b.at \in {"sync", "apply"} => b.kind \in {"event", "scan"}
  /\ b.at \in {"prepare", "asyncLookup", "read", "eval", "write", "setIndex", "graph"} =>
       b.kind \in {"event", "scan", "async", "sweep"}
  /\ b.at = "delete" => b.kind = "delete"
  /\ b.kind = "retag" /\ b.op # "remove" => b.tag = b.dest

RowInv ==
  /\ TypeOK /\ OneOwner /\ Numbered
  /\ \A j \in Jobs : KindOK(job[j]) /\ (~Started(j) => job[j] = Blank)

-----------------------------------------------------------------------------
\* A path that only requests to add tags have touched keeps its row, and no
\* operation on another path holds its id.
Pure(p) ==
  \A k \in Jobs : Started(k) /\ job[k].path = p => job[k].kind = "tag" /\ job[k].op = "add"

AddPhase(b) ==
  /\ b.at = "modify" => b.id = row[b.path] /\ b.id # 0
  /\ b.at \in {"reread", "setGraph", "done"} =>
       row[b.path] # 0 /\ b.tag \in fileTags[row[b.path]]

PureInv ==
  \A p \in Paths : Pure(p) =>
    \A j \in Jobs : Started(j) =>
      IF job[j].path = p THEN AddPhase(job[j])
      ELSE job[j].id # 0 => job[j].id # row[p]

-----------------------------------------------------------------------------
\* Operations run one at a time where they do not overlap.
Alone == ~world.overlap => \A j, k \in Jobs : Active(j) /\ Active(k) => j = k

\* While no row is deleted under an operation, the id it holds is that of its
\* path, ...
OwnIds ==
  Undeleted => \A j \in Jobs : Active(j) => job[j].id \in {0, row[job[j].path]}

\* ... and what it holds and what the stores have was given to the path.
OwnTags ==
  Undeleted => \A p \in Paths :
    /\ xattr[p] \subseteq GivenTo(p) /\ graph[p] \subseteq GivenTo(p)
    /\ IndexTags(p) \subseteq GivenTo(p)
    /\ \A j \in Jobs : Started(j) /\ job[j].path = p => job[j].tags \subseteq GivenTo(p)

-----------------------------------------------------------------------------
\* Operations one at a time: when the stores agree, and what the one under way
\* owes them.
IndexAgrees(p) ==
  p \notin apart /\ exists[p] /\ row[p] # 0 => IndexTags(p) = xattr[p]
GraphHas(p) == p \notin behind => graph[p] = IndexTags(p)

Owing(b) ==
  LET p == b.path IN
  /\ \/ b.at \in {"apply", "setIndex"}
     \/ b.kind = "tag" /\ b.at \in {"lookup", "modify"}
     \/ IndexAgrees(p)
  /\ b.at \in {"reread", "setGraph", "graph"} \/ GraphHas(p)
  /\ b.at = "writeXattr" => b.tags = IF exists[p] THEN xattr[p] ELSE {}
  /\ b.kind = "tag" /\ b.at \in {"lookup", "modify"} =>
       (p \notin apart /\ exists[p] /\ row[p] # 0 =>
          xattr[p] = Modified(IndexTags(p), b.op, b.tag))
  /\ b.at = "apply" => exists[p] /\ b.tags = xattr[p]
  /\ b.at = "setIndex" => b.tags = xattr[p]
  /\ b.at \in {"modify", "write", "setIndex"} => b.id = row[p] /\ row[p] # 0
  /\ b.kind = "async" /\ b.at \in {"read", "eval"} => b.id = row[p] /\ row[p] # 0
  /\ b.at \in {"setGraph", "graph"} => b.tags = IndexTags(p)

OneAtATime ==
  ~world.overlap =>
    /\ \A p \in Paths :
         (\A j \in Jobs : Active(j) => job[j].path # p) => IndexAgrees(p) /\ GraphHas(p)
    /\ \A j \in Jobs : Active(j) => Owing(job[j])

-----------------------------------------------------------------------------
(***************************************************************************)
(* Steps                                                                   *)
(***************************************************************************)

LEMMA Updates ==
  ASSUME NEW b \in JobStates
  PROVE  /\ \A at \in At : [b EXCEPT !.at = at] \in JobStates
         /\ \A at \in At, tags \in SUBSET Tags : [b EXCEPT !.at = at, !.tags = tags] \in JobStates
         /\ \A at \in At, id \in Ids \cup {0} :
              /\ [b EXCEPT !.at = at, !.id = id] \in JobStates
              /\ \A tags \in SUBSET Tags :
                   [b EXCEPT !.at = at, !.id = id, !.tags = tags] \in JobStates
         /\ b.dest \in Tags =>
              [b EXCEPT !.op = "add", !.tag = b.dest, !.at = "lookup"] \in JobStates
<1>1. /\ \A at \in At : [b EXCEPT !.at = at] \in JobStates
      /\ \A at \in At, tags \in SUBSET Tags : [b EXCEPT !.at = at, !.tags = tags] \in JobStates
  BY DEF JobStates
<1>2. ASSUME NEW at \in At, NEW id \in Ids \cup {0}
      PROVE  [b EXCEPT !.at = at, !.id = id] \in JobStates
  BY DEF JobStates
<1>3. ASSUME NEW at \in At, NEW id \in Ids \cup {0}, NEW tags \in SUBSET Tags
      PROVE  [b EXCEPT !.at = at, !.id = id, !.tags = tags] \in JobStates
  BY DEF JobStates
<1>4. ASSUME b.dest \in Tags
      PROVE  [b EXCEPT !.op = "add", !.tag = b.dest, !.at = "lookup"] \in JobStates
  BY <1>4 DEF JobStates, At, AllOps
<1> QED BY <1>1, <1>2, <1>3, <1>4

\* A step of a job replaces its record and no other.
LEMMA Replaces ==
  ASSUME job \in [Jobs -> JobStates], NEW j \in Jobs, NEW b \in JobStates,
         job' = [job EXCEPT ![j] = b]
  PROVE  /\ job' \in [Jobs -> JobStates] /\ job'[j] = b
         /\ \A k \in Jobs \ {j} : job'[k] = job[k]
  OBVIOUS

\* AfterModify ends a tag request's part, or turns a retag to its second tag.
LEMMA AfterModifyIs ==
  ASSUME NEW b \in JobStates, NEW ok \in BOOLEAN, b.kind \in {"tag", "retag"}, b.dest \in Tags
  PROVE  /\ AfterModify(b, ok) \in JobStates
         /\ b.kind = "tag" => AfterModify(b, ok) = [b EXCEPT !.at = IF ok THEN "reread" ELSE "failed"]
         /\ b.kind = "retag" =>
              \/ AfterModify(b, ok) = [b EXCEPT !.at = "done"] /\ b.op # "remove"
              \/ AfterModify(b, ok) = [b EXCEPT !.op = "add", !.tag = b.dest, !.at = "lookup"]
<1>1. CASE b.kind = "tag"
  <2>1. AfterModify(b, ok) = [b EXCEPT !.at = IF ok THEN "reread" ELSE "failed"]
    BY <1>1 DEF AfterModify
  <2> DEFINE at == IF ok THEN "reread" ELSE "failed"
  <2>2. at \in At
    BY DEF At
  <2> HIDE DEF at
  <2>3. [b EXCEPT !.at = at] \in JobStates
    BY <2>2, Updates
  <2> QED BY <1>1, <2>1, <2>3 DEF at
<1>2. CASE b.kind = "retag" /\ b.op = "remove"
  <2>1. AfterModify(b, ok) = [b EXCEPT !.op = "add", !.tag = b.dest, !.at = "lookup"]
    BY <1>2 DEF AfterModify
  <2> QED BY <1>2, <2>1, Updates
<1>3. CASE b.kind = "retag" /\ b.op # "remove"
  <2>1. AfterModify(b, ok) = [b EXCEPT !.at = "done"]
    BY <1>3 DEF AfterModify
  <2>2. "done" \in At
    BY DEF At
  <2> QED BY <1>3, <2>1, <2>2, Updates
<1> QED BY <1>1, <1>2, <1>3

\* What every step of an operation leaves alone.
Same(j) ==
  /\ job' \in [Jobs -> JobStates]
  /\ \A k \in Jobs \ {j} : job'[k] = job[k]
  /\ Active(j) /\ job'[j].at # "new"
  /\ job'[j].path = job[j].path /\ job'[j].kind = job[j].kind /\ job'[j].dest = job[j].dest
  /\ \/ job'[j].tag = job[j].tag /\ job'[j].op = job[j].op
     \/ job[j].kind = "retag" /\ job'[j].tag = job[j].dest /\ job'[j].op = "add"

LEMMA TagSteps ==
  ASSUME RowInv, NEW j \in Jobs, TagRequest(j)
  PROVE  /\ Same(j) /\ KindOK(job'[j])
         /\ job[j].at \notin {"sync", "apply"} /\ job'[j].at \notin {"sync", "apply"}
<1>0. /\ job \in [Jobs -> JobStates] /\ job[j] \in JobStates /\ KindOK(job[j])
      /\ xattr \in [Paths -> SUBSET Tags] /\ row \in [Paths -> Ids \cup {0}]
      /\ fileTags \in [Ids -> SUBSET Tags]
      /\ Started(j) => /\ job[j].path \in Paths
                       /\ job[j].kind \in {"tag", "retag"} => job[j].tag \in Tags /\ job[j].dest \in Tags
  BY DEF RowInv, TypeOK
<1>1. CASE TagReadsXattr(j)
  <2> DEFINE read == IF exists[job[j].path] THEN xattr[job[j].path] ELSE {}
             b == [job[j] EXCEPT !.at = "writeXattr", !.tags = read]
  <2>1. job[j].at = "readXattr" /\ job' = [job EXCEPT ![j] = b]
    BY <1>0, <1>1 DEF TagReadsXattr
  <2>2. read \in SUBSET Tags /\ "writeXattr" \in At
    BY <1>0, <2>1 DEF Started, At
  <2> HIDE DEF read
  <2>3. b \in JobStates
    BY <1>0, <2>2, Updates
  <2> QED BY <1>0, <2>1, <2>3, Replaces DEF Same, KindOK, Active, Started, Finished, JobStates
<1>2. CASE TagWritesXattr(j)
  <2> DEFINE b == [job[j] EXCEPT !.at = "lookup"]
  <2>1. job[j].at = "writeXattr" /\ job' = [job EXCEPT ![j] = b]
    BY <1>0, <1>2 DEF TagWritesXattr, Goto
  <2>2. b \in JobStates
    BY <1>0, Updates DEF At
  <2> QED BY <1>0, <2>1, <2>2, Replaces DEF Same, KindOK, Active, Started, Finished, JobStates
<1>3. ASSUME NEW ok \in BOOLEAN, job[j].at \in {"lookup", "modify"},
             job' = [job EXCEPT ![j] = AfterModify(job[j], ok)]
      PROVE  Same(j) /\ KindOK(job'[j]) /\ job'[j].at \notin {"sync", "apply"}
  <2> DEFINE b == AfterModify(job[j], ok)
  <2>1. job[j].kind \in {"tag", "retag"} /\ job[j].dest \in Tags
    BY <1>0, <1>3 DEF KindOK, Started
  <2>2. b \in JobStates
    BY <1>0, <2>1, AfterModifyIs
  <2>3. job'[j] = b /\ job' \in [Jobs -> JobStates] /\ \A k \in Jobs \ {j} : job'[k] = job[k]
    BY <1>0, <1>3, <2>2, Replaces
  <2>4. CASE job[j].kind = "tag"
    <3>1. b = [job[j] EXCEPT !.at = IF ok THEN "reread" ELSE "failed"]
      BY <1>0, <2>1, <2>4, AfterModifyIs
    <3> HIDE DEF b
    <3> QED BY <1>0, <1>3, <2>3, <2>4, <3>1 DEF Same, KindOK, Active, Started, Finished, JobStates
  <2>5. CASE job[j].kind = "retag"
    <3>1. \/ b = [job[j] EXCEPT !.at = "done"] /\ job[j].op # "remove"
          \/ b = [job[j] EXCEPT !.op = "add", !.tag = job[j].dest, !.at = "lookup"]
      BY <1>0, <2>1, <2>5, AfterModifyIs
    <3> HIDE DEF b
    <3>2. Active(j) /\ job'[j].at \in {"done", "lookup"}
      BY <1>0, <1>3, <2>3, <3>1 DEF Active, Started, Finished, JobStates
    <3>3. /\ job'[j].path = job[j].path /\ job'[j].kind = job[j].kind /\ job'[j].dest = job[j].dest
          /\ \/ job'[j].tag = job[j].tag /\ job'[j].op = job[j].op /\ job[j].op # "remove"
             \/ job'[j].tag = job[j].dest /\ job'[j].op = "add"
      BY <1>0, <2>3, <3>1 DEF JobStates
    <3>4. KindOK(job'[j])
      BY <1>0, <2>5, <3>2, <3>3 DEF KindOK
    <3> QED BY <2>3, <2>5, <3>2, <3>3, <3>4 DEF Same
  <2> QED BY <2>1, <2>4, <2>5
<1>4. CASE TagLooksUp(j)
  <2> DEFINE b == [job[j] EXCEPT !.id = row[job[j].path], !.at = "modify"]
  <2>1. job[j].at = "lookup"
    BY <1>4 DEF TagLooksUp
  <2>2. CASE row[job[j].path] = 0
    <3>1. job' = [job EXCEPT ![j] = AfterModify(job[j], FALSE)]
      BY <1>4, <2>2 DEF TagLooksUp
    <3> QED BY <1>3, <2>1, <3>1
  <2>3. CASE row[job[j].path] # 0
    <3>1. job' = [job EXCEPT ![j] = b]
      BY <1>4, <2>3 DEF TagLooksUp
    <3>2. b \in JobStates
      BY <1>0, <2>1 DEF Started, JobStates, At
    <3> QED BY <1>0, <2>1, <3>1, <3>2, Replaces DEF Same, KindOK, Active, Started, Finished, JobStates
  <2> QED BY <2>2, <2>3
<1>5. CASE TagModifies(j)
  <2> DEFINE ok == Live(job[j].id) \/ job[j].op = "remove"
  <2>1. job[j].at = "modify" /\ job' = [job EXCEPT ![j] = AfterModify(job[j], ok)]
    BY <1>5 DEF TagModifies
  <2>2. ok \in BOOLEAN
    BY DEF Live
  <2> HIDE DEF ok
  <2> QED BY <1>3, <2>1, <2>2
<1>6. CASE TagRereads(j)
  <2> DEFINE read == IndexTags(job[j].path)
             b == [job[j] EXCEPT !.at = "setGraph", !.tags = read]
  <2>1. job[j].at = "reread" /\ job' = [job EXCEPT ![j] = b]
    BY <1>0, <1>6 DEF TagRereads
  <2>2. read \in SUBSET Tags /\ "setGraph" \in At
    BY <1>0, <2>1 DEF Started, At, IndexTags
  <2> HIDE DEF read
  <2>3. b \in JobStates
    BY <1>0, <2>2, Updates
  <2> QED BY <1>0, <2>1, <2>3, Replaces DEF Same, KindOK, Active, Started, Finished, JobStates
<1>7. CASE TagSetsGraph(j)
  <2> DEFINE b == [job[j] EXCEPT !.at = "done"]
  <2>1. job[j].at = "setGraph" /\ job' = [job EXCEPT ![j] = b]
    BY <1>0, <1>7 DEF TagSetsGraph, Goto
  <2>2. b \in JobStates
    BY <1>0, Updates DEF At
  <2> QED BY <1>0, <2>1, <2>2, Replaces DEF Same, KindOK, Active, Started, Finished, JobStates
<1> QED BY <1>1, <1>2, <1>3, <1>4, <1>5, <1>6, <1>7 DEF TagRequest, TagLooksUp, TagModifies

LEMMA RunSteps ==
  ASSUME RowInv, NEW j \in Jobs, Run(j)
  PROVE  /\ Same(j) /\ KindOK(job'[j])
         /\ job'[j].tag = job[j].tag /\ job'[j].op = job[j].op
         /\ job'[j].at = "sync" => job[j].at = "sync"
         /\ job'[j].at = "apply" => job[j].at = "sync"
<1>0. /\ job \in [Jobs -> JobStates] /\ job[j] \in JobStates /\ KindOK(job[j])
      /\ xattr \in [Paths -> SUBSET Tags] /\ row \in [Paths -> Ids \cup {0}]
      /\ Started(j) => job[j].path \in Paths
  BY DEF RowInv, TypeOK
<1> DEFINE Result == /\ Same(j) /\ KindOK(job'[j])
                     /\ job'[j].tag = job[j].tag /\ job'[j].op = job[j].op
                     /\ job'[j].at = "sync" => job[j].at = "sync"
                     /\ job'[j].at = "apply" => job[j].at = "sync"
\* A step that only moves on.
<1>1. ASSUME NEW at \in At, Goto(j, at), Active(j), at \notin {"new", "sync", "apply"},
             KindOK([job[j] EXCEPT !.at = at])
      PROVE  Result
  <2>1. [job[j] EXCEPT !.at = at] \in JobStates
    BY <1>0, Updates
  <2>2. job' = [job EXCEPT ![j] = [job[j] EXCEPT !.at = at]]
    BY <1>0, <1>1 DEF Goto
  <2> QED BY <1>0, <1>1, <2>1, <2>2, Replaces DEF Same, JobStates
\* One that reads tags, an id or both.
<1>2. ASSUME NEW at \in At, NEW tags \in SUBSET Tags, NEW id \in Ids \cup {0},
             job' = [job EXCEPT ![j] = [job[j] EXCEPT !.at = at, !.id = id, !.tags = tags]],
             Active(j), at \notin {"new", "sync"}, at = "apply" => job[j].at = "sync",
             KindOK([job[j] EXCEPT !.at = at])
      PROVE  Result
  <2> DEFINE b == [job[j] EXCEPT !.at = at, !.id = id, !.tags = tags]
  <2>1. b \in JobStates
    BY <1>0, Updates
  <2>2. job'[j] = b /\ job' \in [Jobs -> JobStates] /\ \A k \in Jobs \ {j} : job'[k] = job[k]
    BY <1>0, <1>2, <2>1, Replaces
  <2> QED BY <1>0, <1>2, <2>2 DEF Same, KindOK, JobStates
<1>3. CASE SyncReads(j)
  <2>1. job[j].at = "sync" /\ Active(j) /\ job[j].path \in Paths
    BY <1>0, <1>3 DEF SyncReads, Active, Started, Finished
  <2>2. CASE job' = [job EXCEPT ![j].at = "apply", ![j].tags = xattr[job[j].path]]
    <3>1. job' = [job EXCEPT ![j] = [job[j] EXCEPT !.at = "apply", !.id = job[j].id,
                                                   !.tags = xattr[job[j].path]]]
      BY <1>0, <2>2 DEF JobStates
    <3>2. xattr[job[j].path] \in SUBSET Tags /\ job[j].id \in Ids \cup {0} /\ "apply" \in At
      BY <1>0, <2>1 DEF JobStates, At
    <3>3. KindOK([job[j] EXCEPT !.at = "apply"])
      BY <1>0, <2>1 DEF KindOK, JobStates
    <3> QED BY <1>2, <2>1, <3>1, <3>2, <3>3
  <2>3. CASE Goto(j, "done") \/ Goto(j, "prepare")
    <3>1. \A at \in {"done", "prepare"} : at \in At /\ KindOK([job[j] EXCEPT !.at = at])
      BY <1>0, <2>1 DEF KindOK, JobStates, At
    <3> QED BY <1>1, <2>1, <2>3, <3>1
  <2> QED BY <1>3, <2>2, <2>3 DEF SyncReads
<1>4. CASE SyncApplies(j)
  <2>1. job[j].at = "apply" /\ Active(j)
    BY <1>4 DEF SyncApplies, Active, Started, Finished
  <2>2. Goto(j, "done") \/ Goto(j, "prepare")
    BY <1>4 DEF SyncApplies
  <2>3. \A at \in {"done", "prepare"} : at \in At /\ KindOK([job[j] EXCEPT !.at = at])
    BY <1>0, <2>1 DEF KindOK, JobStates, At
  <2> QED BY <1>1, <2>1, <2>2, <2>3
<1>5. CASE RunPrepares(j)
  <2>1. job[j].at = "prepare" /\ Active(j)
    BY <1>5 DEF RunPrepares, Active, Started, Finished
  <2>2. Goto(j, "done") \/ Goto(j, "asyncLookup") \/ Goto(j, "read")
    BY <1>5 DEF RunPrepares
  <2>3. \A at \in {"done", "asyncLookup", "read"} : at \in At /\ KindOK([job[j] EXCEPT !.at = at])
    BY <1>0, <2>1 DEF KindOK, JobStates, At
  <2> QED BY <1>1, <2>1, <2>2, <2>3
<1>6. CASE AsyncLooksUp(j)
  <2> DEFINE at == IF row[job[j].path] = 0 THEN "done" ELSE "read"
  <2>1. job[j].at = "asyncLookup" /\ Active(j) /\ job[j].path \in Paths
    BY <1>0, <1>6 DEF AsyncLooksUp, Active, Started, Finished
  <2>2. job' = [job EXCEPT ![j] = [job[j] EXCEPT !.at = at, !.id = row[job[j].path],
                                                 !.tags = job[j].tags]]
    BY <1>0, <1>6 DEF AsyncLooksUp, JobStates
  <2>3. at \in {"done", "read"}
    OBVIOUS
  <2> HIDE DEF at
  <2>4. at \in At /\ KindOK([job[j] EXCEPT !.at = at])
    BY <1>0, <2>1, <2>3 DEF KindOK, JobStates, At
  <2>5. row[job[j].path] \in Ids \cup {0} /\ job[j].tags \in SUBSET Tags
    BY <1>0, <2>1 DEF JobStates
  <2> QED BY <1>2, <2>1, <2>2, <2>3, <2>4, <2>5
<1>7. CASE RunReads(j)
  <2> DEFINE gone == ~exists[job[j].path] /\ job[j].kind # "async"
             at == IF gone THEN "done" ELSE "eval"
             read == IF exists[job[j].path] THEN xattr[job[j].path] ELSE {}
  <2>1. job[j].at = "read" /\ Active(j) /\ job[j].path \in Paths
    BY <1>0, <1>7 DEF RunReads, Active, Started, Finished
  <2>2. job' = [job EXCEPT ![j] = [job[j] EXCEPT !.at = at, !.id = job[j].id, !.tags = read]]
    BY <1>0, <1>7 DEF RunReads, JobStates
  <2>3. at \in {"done", "eval"} /\ read \in SUBSET Tags
    BY <1>0, <2>1
  <2> HIDE DEF at, read
  <2>4. at \in At /\ KindOK([job[j] EXCEPT !.at = at]) /\ job[j].id \in Ids \cup {0}
    BY <1>0, <2>1, <2>3 DEF KindOK, JobStates, At
  <2> QED BY <1>2, <2>1, <2>2, <2>3, <2>4
<1>8. CASE RunEvaluates(j)
  <2> DEFINE id == IF job[j].kind = "async" THEN job[j].id ELSE row[job[j].path]
             added == RuleTags[job[j].path] \ job[j].tags
             at == IF id = 0 \/ added = {} THEN "done" ELSE "write"
             all == job[j].tags \cup added
  <2>1. job[j].at = "eval" /\ Active(j) /\ job[j].path \in Paths
    BY <1>0, <1>8 DEF RunEvaluates, Active, Started, Finished
  <2>2. id \in Ids \cup {0} /\ all \in SUBSET Tags /\ at \in {"done", "write"}
    BY <1>0, <2>1, RuleTagsAssumption DEF JobStates
  <2>3. \/ job' = [job EXCEPT ![j] = [job[j] EXCEPT !.at = at, !.id = id, !.tags = all]]
        \/ Goto(j, "done")
    BY <1>0, <1>8 DEF RunEvaluates
  <2> HIDE DEF at, id, all
  <2>4. \A a \in {"done", "write"} : a \in At /\ KindOK([job[j] EXCEPT !.at = a])
    BY <1>0, <2>1 DEF KindOK, JobStates, At
  <2> QED BY <1>1, <1>2, <2>1, <2>2, <2>3, <2>4
<1>9. CASE RunWrites(j)
  <2>1. job[j].at = "write" /\ Active(j)
    BY <1>9 DEF RunWrites, Active, Started, Finished
  <2>2. Goto(j, "done") \/ Goto(j, "setIndex")
    BY <1>9 DEF RunWrites
  <2>3. \A at \in {"done", "setIndex"} : at \in At /\ KindOK([job[j] EXCEPT !.at = at])
    BY <1>0, <2>1 DEF KindOK, JobStates, At
  <2> QED BY <1>1, <2>1, <2>2, <2>3
<1>10. CASE RunSetsIndex(j)
  <2>1. job[j].at = "setIndex" /\ Active(j)
    BY <1>10 DEF RunSetsIndex, Active, Started, Finished
  <2>2. Goto(j, "done") \/ Goto(j, "graph")
    BY <1>10 DEF RunSetsIndex
  <2>3. \A at \in {"done", "graph"} : at \in At /\ KindOK([job[j] EXCEPT !.at = at])
    BY <1>0, <2>1 DEF KindOK, JobStates, At
  <2> QED BY <1>1, <2>1, <2>2, <2>3
<1>11. CASE RunSetsGraph(j) \/ Deletes(j)
  <2>1. job[j].at \in {"graph", "delete"} /\ Active(j) /\ Goto(j, "done")
    BY <1>11 DEF RunSetsGraph, Deletes, Active, Started, Finished
  <2>2. "done" \in At /\ KindOK([job[j] EXCEPT !.at = "done"])
    BY <1>0, <2>1 DEF KindOK, JobStates, At
  <2> QED BY <1>1, <2>1, <2>2
<1> QED BY <1>3, <1>4, <1>5, <1>6, <1>7, <1>8, <1>9, <1>10, <1>11 DEF Run

\* An operation begins with its kind, its path and where it is.
Begins(j) ==
  /\ job' \in [Jobs -> JobStates]
  /\ \A k \in Jobs \ {j} : job'[k] = job[k]
  /\ MayStart /\ ~Started(j) /\ job'[j].path \in Paths /\ KindOK(job'[j])
  /\ job'[j].at \in {"readXattr", "lookup", "sync", "prepare", "read", "delete"}
  /\ job'[j].id = 0 /\ job'[j].tags = {}
  /\ job'[j].kind \in {"tag", "retag"} => job'[j].tag \in Tags /\ job'[j].dest \in Tags
  /\ job'[j].kind = "tag" => job'[j].at = "readXattr"
  /\ job'[j].kind = "async" => job'[j].at = "prepare"
  /\ UNCHANGED <<exists, stores, changes, history>>

Starting(j, p) ==
  \/ \E op \in AllOps, t \in Tags : StartTag(j, op, t, p)
  \/ \E t, d \in Tags : StartRetag(j, t, d, p)
  \/ \E kind \in AllKinds \ {"tag", "retag"} : StartRun(j, kind, p)

LEMMA StartSteps ==
  ASSUME RowInv, NEW j \in Jobs, NEW p \in Paths, Starting(j, p)
  PROVE  Begins(j) /\ skipped' \subseteq skipped
<1>0. /\ job \in [Jobs -> JobStates] /\ job[j] \in JobStates
      /\ ~Started(j) => job[j] = Blank
  BY DEF RowInv, TypeOK
<1>1. ASSUME NEW kind \in AllKinds, NEW op \in AllOps, NEW t \in Tags \cup {AnyTag},
             NEW d \in Tags \cup {AnyTag}, NEW at \in At, Start(j, kind, op, t, d, p, at),
             at \in {"readXattr", "lookup", "sync", "prepare", "read", "delete"},
             kind \in {"tag", "retag"} => t \in Tags /\ d \in Tags,
             KindOK([kind |-> kind, op |-> op, tag |-> t, dest |-> d, at |-> at]),
             kind = "tag" => at = "readXattr", kind = "async" => at = "prepare"
      PROVE  Begins(j) /\ skipped' \subseteq skipped
  <2> DEFINE b == [job[j] EXCEPT !.kind = kind, !.op = op, !.tag = t, !.dest = d, !.path = p,
                                 !.at = at]
  <2>1. job[j].id = 0 /\ job[j].tags = {} /\ ~Started(j) /\ MayStart
    BY <1>0, <1>1 DEF Start, Started, Blank
  <2>2. job' = [job EXCEPT ![j] = b]
    BY <1>0, <1>1 DEF Start
  <2>3. /\ b \in JobStates /\ b.kind = kind /\ b.op = op /\ b.tag = t /\ b.dest = d /\ b.path = p
        /\ b.at = at /\ b.id = 0 /\ b.tags = {}
    BY <1>0, <2>1 DEF JobStates
  <2> HIDE DEF b
  <2>4. job'[j] = b /\ job' \in [Jobs -> JobStates] /\ \A k \in Jobs \ {j} : job'[k] = job[k]
    BY <1>0, <2>2, <2>3, Replaces
  <2>5. KindOK(b)
    BY <1>1, <2>3 DEF KindOK
  <2>6. skipped' \subseteq skipped /\ UNCHANGED <<exists, stores, changes, history>>
    BY <1>1 DEF Start
  <2> QED BY <1>1, <2>1, <2>3, <2>4, <2>5, <2>6 DEF Begins
<1>2. ASSUME NEW op \in AllOps, NEW t \in Tags, StartTag(j, op, t, p)
      PROVE  Begins(j) /\ skipped' \subseteq skipped
  BY <1>1, <1>2 DEF StartTag, KindOK, AllKinds, At
<1>3. ASSUME NEW t \in Tags, NEW d \in Tags, StartRetag(j, t, d, p)
      PROVE  Begins(j) /\ skipped' \subseteq skipped
  BY <1>1, <1>3 DEF StartRetag, KindOK, AllKinds, AllOps, At
<1>4. ASSUME NEW kind \in AllKinds \ {"tag", "retag"}, StartRun(j, kind, p)
      PROVE  Begins(j) /\ skipped' \subseteq skipped
  <2> DEFINE at == CASE kind \in {"event", "scan"} -> "sync"
                     [] kind = "delete" -> "delete"
                     [] kind = "async" -> "prepare"
                     [] kind = "sweep" -> "read"
  <2>1. /\ at \in {"sync", "delete", "prepare", "read"}
        /\ at = "sync" => kind \in {"event", "scan"}
        /\ at = "delete" => kind = "delete"
        /\ at = "read" => kind = "sweep"
        /\ at = "prepare" => kind = "async"
        /\ kind = "async" => at = "prepare"
    BY DEF AllKinds
  <2>2. Start(j, kind, job[j].op, job[j].tag, job[j].dest, p, at)
    BY <1>4 DEF StartRun
  <2> HIDE DEF at
  <2>3. job[j].op \in AllOps /\ job[j].tag \in Tags \cup {AnyTag} /\ job[j].dest \in Tags \cup {AnyTag}
    BY <1>0 DEF JobStates
  <2>4. at \in At /\ KindOK([kind |-> kind, op |-> job[j].op, tag |-> job[j].tag,
                              dest |-> job[j].dest, at |-> at])
    BY <2>1 DEF At, KindOK
  <2> QED BY <1>1, <2>1, <2>2, <2>3, <2>4
<1> QED BY <1>2, <1>3, <1>4 DEF Starting

-----------------------------------------------------------------------------
(***************************************************************************)
(* Row ids                                                                 *)
(***************************************************************************)

\* A nonempty set of naturals has a least element.
LEMMA Least ==
  ASSUME NEW S, S \subseteq Nat, S # {}
  PROVE  \E m \in S : \A k \in S : m <= k
<1> DEFINE Below == {ss \in Nat \X Nat : ss[1] < ss[2]}
<1>1. IsWellFoundedOn(Below, Nat)
  BY NatLessThanWellFounded DEF OpToRel
<1> HIDE DEF Below
<1>2. PICK m \in S : \A k \in S : <<k, m>> \notin Below
  BY <1>1, WFMin
<1>3. \A k \in S : ~(k < m)
  BY <1>2 DEF Below
<1> QED BY <1>3

\* Max of a bounded set of naturals is one of them, and none is larger.
LEMMA Largest ==
  ASSUME NEW n \in Nat, NEW S, S \subseteq 0 .. n, S # {}
  PROVE  Max(S) \in S /\ \A k \in S : k <= Max(S)
<1> DEFINE T == {n - k : k \in S}
<1>1. T \subseteq Nat /\ T # {}
  <2>1. \A k \in S : n - k \in Nat
    OBVIOUS
  <2>2. PICK x \in S : TRUE
    OBVIOUS
  <2>3. n - x \in T
    BY <2>2
  <2> QED BY <2>1, <2>3
<1>2. PICK m \in T : \A k \in T : m <= k
  BY <1>1, Least
<1>3. PICK x \in S : m = n - x
  OBVIOUS
<1>4. ASSUME NEW k \in S PROVE k <= x
  <2>1. n - k \in T
    OBVIOUS
  <2>2. n - x <= n - k
    BY <2>1, <1>2, <1>3
  <2> QED BY <2>2
<1>5. x \in S /\ \A y \in S : x >= y
  BY <1>4
<1>6. Max(S) \in S /\ \A y \in S : Max(S) >= y
  BY <1>5 DEF Max
<1> QED BY <1>6

\* There is an id for the row an operation is about to make, above all in use.
LEMMA NewId ==
  ASSUME RowInv
  PROVE  /\ \A q \in Paths : row[q] < NextId
         /\ NextId \in Nat \ {0} /\ NextId <= Cardinality(Paths) + Cardinality(Synced) + 1
         /\ Synced # Jobs => NextId \in Ids
<1> DEFINE n == Cardinality(Paths) + Cardinality(Synced)
<1>1. /\ Cardinality(Paths) \in Nat /\ Cardinality(Jobs) \in Nat /\ Cardinality(Synced) \in Nat
      /\ Cardinality(Synced) <= Cardinality(Jobs)
      /\ Synced # Jobs => Cardinality(Synced) < Cardinality(Jobs)
  <2>1. Synced \in SUBSET Jobs /\ IsFiniteSet(Jobs) /\ IsFiniteSet(Paths)
    BY FiniteAssumption DEF Synced
  <2>2. /\ IsFiniteSet(Synced) /\ Cardinality(Synced) <= Cardinality(Jobs)
        /\ Cardinality(Jobs) = Cardinality(Synced) => Jobs = Synced
    BY <2>1, FS_Subset
  <2>3. Cardinality(Paths) \in Nat /\ Cardinality(Jobs) \in Nat /\ Cardinality(Synced) \in Nat
    BY <2>1, <2>2, FS_CardinalityType
  <2> QED BY <2>2, <2>3
<1>2. \A q \in Paths : row[q] \in 0 .. n
  BY <1>1 DEF RowInv, TypeOK, Numbered, Ids
<1>3. NextId \in Nat \ {0} /\ NextId <= n + 1 /\ \A q \in Paths : row[q] < NextId
  <2>1. CASE \E p \in Paths : row[p] # 0
    <3> DEFINE S == {row[p] : p \in Paths}
    <3>1. S \subseteq 0 .. n /\ S # {} /\ n \in Nat
      BY <1>1, <1>2, <2>1
    <3>2. Max(S) \in S /\ \A k \in S : k <= Max(S)
      BY <3>1, Largest
    <3>3. NextId = Max(S) + 1
      BY <2>1 DEF NextId
    <3>4. \A q \in Paths : row[q] \in S
      OBVIOUS
    <3> HIDE DEF S, n
    <3>5. Max(S) \in 0 .. n /\ \A q \in Paths : row[q] <= Max(S) /\ row[q] \in 0 .. n
      BY <1>2, <3>1, <3>2, <3>4
    <3> QED BY <3>1, <3>3, <3>5
  <2>2. CASE ~ \E p \in Paths : row[p] # 0
    <3>1. NextId = 1 /\ \A p \in Paths : row[p] = 0
      BY <2>2 DEF NextId
    <3> QED BY <1>1, <3>1
  <2> QED BY <2>1, <2>2
<1>4. Synced # Jobs => NextId \in Ids
  BY <1>1, <1>3 DEF Ids
<1> QED BY <1>3, <1>4

\* What a step of an operation changes, beside its own record: only the stores
\* of its path, and the tags of at most one row.
Effect(j) ==
  LET q == job[j].path IN
  /\ q \in Paths /\ UNCHANGED <<exists, changes>> /\ skipped' \subseteq Paths
  /\ row' \in [Paths -> Ids \cup {0}] /\ fileTags' \in [Ids -> SUBSET Tags]
  /\ xattr' \in [Paths -> SUBSET Tags] /\ graph' \in [Paths -> SUBSET Tags]
  /\ \A p \in Paths \ {q} : row'[p] = row[p] /\ xattr'[p] = xattr[p] /\ graph'[p] = graph[p]
  /\ \A p \in Paths \ {q} : (p \in apart' <=> p \in apart) /\ (p \in behind' <=> p \in behind)
  /\ apart' \subseteq Paths /\ behind' \subseteq Paths
  /\ \/ row'[q] = row[q]
     \/ job[j].at = "delete" /\ row'[q] = 0
     \/ job[j].at = "apply" /\ row[q] = 0 /\ row'[q] = NextId
  /\ \A i \in Ids :
       \/ fileTags'[i] = fileTags[i]
       \/ job[j].at \in {"modify", "setIndex"} /\ i = job[j].id
       \/ job[j].at = "apply" /\ i = row'[q]
       \/ job[j].at = "delete" /\ i = row[q]
  /\ job'[j].id \in {job[j].id, row[q]}
  /\ job[j].at \in {"sync", "apply"} => job'[j].id = job[j].id

LEMMA Effects ==
  ASSUME RowInv, NEW j \in Jobs, TagRequest(j) \/ Run(j)
  PROVE  Effect(j)
<1> DEFINE q == job[j].path
<1>0. /\ job \in [Jobs -> JobStates] /\ job[j] \in JobStates
      /\ xattr \in [Paths -> SUBSET Tags] /\ row \in [Paths -> Ids \cup {0}]
      /\ fileTags \in [Ids -> SUBSET Tags] /\ graph \in [Paths -> SUBSET Tags]
      /\ skipped \subseteq Paths /\ apart \subseteq Paths /\ behind \subseteq Paths
      /\ q \in Paths
      /\ job[j].kind \in {"tag", "retag"} => job[j].tag \in Tags /\ job[j].dest \in Tags
  BY TagSteps, RunSteps DEF RowInv, TypeOK, Same, Active
<1> HIDE DEF q
\* The id in the record.
<1>1. /\ job'[j].id \in {job[j].id, row[q]}
      /\ job[j].at \in {"sync", "apply"} => job'[j].id = job[j].id
  <2>1. CASE \E at \in At : Goto(j, at)
    BY <1>0, <2>1 DEF Goto, JobStates
  <2>2. CASE TagReadsXattr(j) \/ TagRereads(j) \/ SyncReads(j) \/ RunReads(j)
    BY <1>0, <2>2 DEF TagReadsXattr, TagRereads, SyncReads, RunReads, Goto, JobStates
  <2>3. CASE TagLooksUp(j) \/ TagModifies(j)
    <3>1. PICK ok \in BOOLEAN :
            \/ job' = [job EXCEPT ![j] = AfterModify(job[j], ok)]
            \/ job' = [job EXCEPT ![j] = [job[j] EXCEPT !.id = row[q], !.at = "modify"]]
      BY <1>0, <2>3 DEF TagLooksUp, TagModifies, q, Live
    <3>2. AfterModify(job[j], ok).id = job[j].id
      <4>1. AfterModify(job[j], ok) \in
              {[job[j] EXCEPT !.at = "reread"], [job[j] EXCEPT !.at = "failed"],
               [job[j] EXCEPT !.at = "done"],
               [job[j] EXCEPT !.op = "add", !.tag = job[j].dest, !.at = "lookup"]}
        BY <1>0 DEF AfterModify
      <4> QED BY <1>0, <4>1 DEF JobStates
    <3>3. job[j].at \in {"lookup", "modify"}
      BY <2>3 DEF TagLooksUp, TagModifies
    <3> QED BY <1>0, <3>1, <3>2, <3>3 DEF JobStates
  <2>4. CASE AsyncLooksUp(j)
    BY <1>0, <2>4 DEF AsyncLooksUp, JobStates, q
  <2>5. CASE RunEvaluates(j)
    <3> DEFINE id == IF job[j].kind = "async" THEN job[j].id ELSE row[q]
               added == RuleTags[q] \ job[j].tags
               at == IF id = 0 \/ added = {} THEN "done" ELSE "write"
               all == job[j].tags \cup added
    <3>1. \/ job' = [job EXCEPT ![j] = [job[j] EXCEPT !.at = at, !.id = id, !.tags = all]]
          \/ Goto(j, "done")
      BY <1>0, <2>5 DEF RunEvaluates, q
    <3>2. job[j].at = "eval" /\ id \in {job[j].id, row[q]} /\ "done" \in At
      BY <2>5 DEF RunEvaluates, At
    <3> HIDE DEF id, at, all
    <3> QED BY <1>0, <2>1, <3>1, <3>2 DEF JobStates
  <2>6. \/ \E at \in At : Goto(j, at)
        \/ TagReadsXattr(j) \/ TagRereads(j) \/ SyncReads(j) \/ RunReads(j)
        \/ TagLooksUp(j) \/ TagModifies(j) \/ AsyncLooksUp(j) \/ RunEvaluates(j)
    BY DEF TagRequest, Run, TagWritesXattr, TagSetsGraph, SyncApplies, RunPrepares, RunWrites,
           RunSetsIndex, RunSetsGraph, Deletes, At
  <2> QED BY <2>1, <2>2, <2>3, <2>4, <2>5, <2>6
\* Steps that leave the stores alone.
<1>2. ASSUME UNCHANGED <<exists, stores, changes, behind>>, skipped' \subseteq Paths,
             apart' \subseteq Paths,
             \A p \in Paths \ {q} : (p \in apart' <=> p \in apart)
      PROVE  Effect(j)
  BY <1>0, <1>1, <1>2 DEF Effect, stores, q
<1>3. CASE \/ TagReadsXattr(j) \/ TagLooksUp(j) \/ TagRereads(j) \/ SyncReads(j)
           \/ RunPrepares(j) \/ AsyncLooksUp(j) \/ RunReads(j) \/ RunEvaluates(j)
  <2>1. UNCHANGED <<exists, stores, changes, behind>>
    BY <1>3 DEF TagReadsXattr, TagLooksUp, TagRereads, SyncReads, RunPrepares, AsyncLooksUp,
                RunReads, RunEvaluates, others, history
  <2>2. skipped' \subseteq Paths
    BY <1>0, <1>3 DEF TagReadsXattr, TagLooksUp, TagRereads, SyncReads, RunPrepares, AsyncLooksUp,
                      RunReads, RunEvaluates, others, q
  <2>3. apart' = apart \/ apart' = apart \ {q}
    BY <1>3 DEF TagReadsXattr, TagLooksUp, TagRereads, SyncReads, RunPrepares, AsyncLooksUp,
                RunReads, RunEvaluates, others, history, q
  <2> QED BY <1>0, <1>2, <2>1, <2>2, <2>3
\* Steps that write one store.
<1>4. CASE TagWritesXattr(j)
  <2>1. Modified(job[j].tags, job[j].op, job[j].tag) \in SUBSET Tags
    <3>1. job[j].at = "writeXattr"
      BY <1>4 DEF TagWritesXattr
    <3>2. job[j].kind = "tag"
      BY <3>1 DEF RowInv, KindOK
    <3>3. job[j].tag \in Tags /\ job[j].tags \in SUBSET Tags /\ job[j].op \in AllOps
      BY <1>0, <3>2 DEF JobStates
    <3> QED BY <3>3 DEF Modified, AllOps
  <2>2. xattr' \in [Paths -> SUBSET Tags] /\ \A p \in Paths \ {q} : xattr'[p] = xattr[p]
    BY <1>0, <1>4, <2>1 DEF TagWritesXattr, q
  <2>3. apart' = apart \/ apart' = apart \cup {q}
    BY <1>4 DEF TagWritesXattr, q
  <2>4. UNCHANGED <<exists, row, fileTags, graph, skipped, changes, behind>>
    BY <1>4 DEF TagWritesXattr
  <2> QED BY <1>0, <1>1, <2>2, <2>3, <2>4 DEF Effect, q
<1>5. CASE TagSetsGraph(j) \/ RunSetsGraph(j)
  BY <1>0, <1>1, <1>5 DEF TagSetsGraph, RunSetsGraph, Effect, q, JobStates
<1>6. CASE RunWrites(j)
  BY <1>0, <1>1, <1>6 DEF RunWrites, Effect, q, JobStates, history
\* Steps that write the index.
<1>7. CASE TagModifies(j)
  <2> DEFINE id == job[j].id
             tags == Modified(fileTags[id], job[j].op, job[j].tag)
  <2>1. job[j].at = "modify"
    BY <1>7 DEF TagModifies
  <2>2. job[j].kind \in {"tag", "retag"}
    BY <2>1 DEF RowInv, KindOK
  <2>3. id \in Ids => tags \in SUBSET Tags
    <3>1. job[j].tag \in Tags /\ job[j].op \in AllOps
      BY <1>0, <2>2 DEF JobStates
    <3> QED BY <1>0, <3>1 DEF Modified, AllOps
  <2>4. fileTags' = [fileTags EXCEPT ![id] = tags] \/ fileTags' = fileTags
    BY <1>7 DEF TagModifies
  <2> HIDE DEF tags
  <2>5. fileTags' \in [Ids -> SUBSET Tags] /\ \A i \in Ids : fileTags'[i] = fileTags[i] \/ i = id
    BY <1>0, <2>3, <2>4
  <2>6. \A S : (S = {q} \/ S = {}) =>
          /\ apart \cup S \subseteq Paths /\ behind \cup S \subseteq Paths
          /\ \A p \in Paths \ {q} : p \notin S
    BY <1>0
  <2>7. \E S : (S = {q} \/ S = {}) /\ apart' = apart \cup S /\ behind' = behind \cup S
    <3>1. {p \in {q} : job[j].kind = "retag"} = {q} \/ {p \in {q} : job[j].kind = "retag"} = {}
      OBVIOUS
    <3> QED BY <1>7, <3>1 DEF TagModifies, q
  <2>8. UNCHANGED <<exists, xattr, row, graph, skipped, changes>>
    BY <1>7 DEF TagModifies
  <2> QED BY <1>0, <1>1, <2>1, <2>5, <2>6, <2>7, <2>8 DEF Effect, q
<1>8. CASE RunSetsIndex(j)
  <2> DEFINE id == job[j].id
  <2>1. /\ job[j].at = "setIndex" /\ UNCHANGED <<exists, xattr, row, graph, skipped, changes, apart>>
        /\ fileTags' = [fileTags EXCEPT ![id] = job[j].tags] \/ fileTags' = fileTags
    BY <1>8 DEF RunSetsIndex
  <2>2. job[j].tags \in SUBSET Tags
    BY <1>0 DEF JobStates
  <2>3. fileTags' \in [Ids -> SUBSET Tags] /\ \A i \in Ids : fileTags'[i] = fileTags[i] \/ i = id
    BY <1>0, <2>1, <2>2
  <2>4. behind' = behind \/ behind' = behind \cup {q}
    <3>1. {p \in {q} : job[j].kind = "sweep"} = {q} \/ {p \in {q} : job[j].kind = "sweep"} = {}
      OBVIOUS
    <3> QED BY <1>8, <3>1 DEF RunSetsIndex, q
  <2> QED BY <1>0, <1>1, <2>1, <2>3, <2>4 DEF Effect, q
<1>9. CASE SyncApplies(j)
  <2> DEFINE id == IF row[q] # 0 THEN row[q] ELSE NextId
  <2>1. /\ job[j].at = "apply" /\ row' = [row EXCEPT ![q] = id]
        /\ fileTags' = [fileTags EXCEPT ![id] = job[j].tags]
        /\ behind' = behind \cup {q}
        /\ UNCHANGED <<exists, xattr, graph, skipped, changes, apart>>
    BY <1>9 DEF SyncApplies, q
  <2>2. id \in Ids /\ (id = row[q] \/ (row[q] = 0 /\ id = NextId))
    <3>1. j \notin Synced
      BY <2>1 DEF Synced
    <3>2. NextId \in Ids
      BY <3>1, NewId
    <3> QED BY <1>0, <3>2
  <2> HIDE DEF id
  <2>3. /\ row' \in [Paths -> Ids \cup {0}] /\ row'[q] = id
        /\ \A p \in Paths \ {q} : row'[p] = row[p]
    BY <1>0, <2>1, <2>2
  <2>4. /\ fileTags' \in [Ids -> SUBSET Tags]
        /\ \A i \in Ids : fileTags'[i] = fileTags[i] \/ i = row'[q]
    BY <1>0, <2>1, <2>2, <2>3 DEF JobStates
  <2> QED BY <1>0, <1>1, <2>1, <2>2, <2>3, <2>4 DEF Effect, q
<1>10. CASE Deletes(j)
  <2>1. /\ job[j].at = "delete" /\ row' = [row EXCEPT ![q] = 0]
        /\ fileTags' = [i \in Ids |-> IF i = row[q] THEN {} ELSE fileTags[i]]
        /\ behind' = behind \cup {q}
        /\ UNCHANGED <<exists, xattr, graph, skipped, changes, apart>>
    BY <1>10 DEF Deletes, q
  <2>2. /\ row' \in [Paths -> Ids \cup {0}] /\ row'[q] = 0
        /\ \A p \in Paths \ {q} : row'[p] = row[p]
    BY <1>0, <2>1
  <2>3. /\ fileTags' \in [Ids -> SUBSET Tags]
        /\ \A i \in Ids : fileTags'[i] = fileTags[i] \/ i = row[q]
    BY <1>0, <2>1
  <2> QED BY <1>0, <1>1, <2>1, <2>2, <2>3 DEF Effect, q
<1> QED BY <1>3, <1>4, <1>5, <1>6, <1>7, <1>8, <1>9, <1>10 DEF TagRequest, Run

\* The steps there are.
LEMMA StepIs ==
  ASSUME RowInv, [Next]_vars
  PROVE  /\ world' = world /\ world \in Worlds /\ world.changes \in Nat
         /\ \/ \E j \in Jobs, p \in Paths : Starting(j, p)
            \/ \E j \in Jobs : TagRequest(j) \/ Run(j)
            \/ Reload
            \/ \E p \in Paths : FileChanges(p)
            \/ UNCHANGED vars
<1>1. world \in Worlds /\ world.paths \subseteq Paths /\ world.changes \in Nat
  BY WorldsAssumption DEF RowInv, TypeOK
<1>2. CASE Next
  BY <1>1, <1>2 DEF Next, Step, Starting
<1>3. CASE UNCHANGED vars
  BY <1>1, <1>3 DEF vars
<1> QED BY <1>1, <1>2, <1>3

LEMMA SyncedGrows ==
  ASSUME Synced \subseteq Synced'
  PROVE  /\ Cardinality(Paths) \in Nat
         /\ Cardinality(Synced) \in Nat /\ Cardinality(Synced)' \in Nat
         /\ Cardinality(Synced) <= Cardinality(Synced)'
         /\ Synced # Synced' => Cardinality(Synced) < Cardinality(Synced)'
<1>1. IsFiniteSet(Jobs) /\ IsFiniteSet(Paths) /\ Synced \in SUBSET Jobs /\ Synced' \in SUBSET Jobs
  BY FiniteAssumption DEF Synced
<1>2. IsFiniteSet(Synced) /\ IsFiniteSet(Synced')
  BY <1>1, FS_Subset
<1>3. /\ Cardinality(Synced) <= Cardinality(Synced')
      /\ Cardinality(Synced') = Cardinality(Synced) => Synced' = Synced
  <2> DEFINE S == Synced
             T == Synced'
  <2>1. IsFiniteSet(T) /\ S \in SUBSET T
    BY <1>2
  <2> HIDE DEF S, T
  <2>2. Cardinality(S) <= Cardinality(T) /\ (Cardinality(T) = Cardinality(S) => T = S)
    BY <2>1, FS_Subset
  <2> QED BY <2>2 DEF S, T
<1>4. Cardinality(Paths) \in Nat /\ Cardinality(Synced) \in Nat /\ Cardinality(Synced') \in Nat
  BY <1>1, <1>2, FS_CardinalityType
<1> QED BY <1>3, <1>4

LEMMA RowStep ==
  ASSUME RowInv, [Next]_vars
  PROVE  RowInv'
<1>0. /\ TypeOK /\ OneOwner /\ Numbered /\ \A j \in Jobs : KindOK(job[j])
      /\ \A j \in Jobs : ~Started(j) => job[j] = Blank
      /\ world' = world /\ world \in Worlds
  BY StepIs DEF RowInv
<1>1. ASSUME UNCHANGED <<row, job>>
      PROVE  (OneOwner /\ Numbered)' /\ \A j \in Jobs : (KindOK(job[j]) /\ (~Started(j) => job[j] = Blank))'
  BY <1>0, <1>1 DEF OneOwner, Numbered, Synced, Started, Blank, KindOK
<1>2. CASE UNCHANGED vars
  <2>1. TypeOK'
    BY <1>0, <1>2 DEF vars, TypeOK, Started
  <2> QED BY <1>1, <1>2, <2>1 DEF vars, RowInv
<1>3. CASE Reload
  <2>1. TypeOK'
    BY <1>0, <1>3 DEF Reload, stores, history, TypeOK, Started
  <2> QED BY <1>1, <1>3, <2>1 DEF Reload, stores, RowInv
<1>4. ASSUME NEW p \in Paths, FileChanges(p) PROVE RowInv'
  <2>1. changes' \in 0 .. world.changes
    BY <1>0, <1>4, StepIs DEF FileChanges, TypeOK
  <2>2. /\ exists' \in [Paths -> BOOLEAN] /\ xattr' \in [Paths -> SUBSET Tags] /\ apart' \subseteq Paths
        /\ UNCHANGED <<row, fileTags, graph, job, skipped, behind>>
    BY <1>0, <1>4 DEF FileChanges, TypeOK
  <2>3. TypeOK'
    BY <1>0, <2>1, <2>2 DEF TypeOK, Started
  <2> QED BY <1>1, <2>2, <2>3 DEF RowInv
<1>5. ASSUME NEW j \in Jobs, NEW p \in Paths, Starting(j, p) PROVE RowInv'
  <2>1. Begins(j) /\ skipped' \subseteq skipped
    BY <1>5, StartSteps
  <2>2. /\ job' \in [Jobs -> JobStates] /\ KindOK(job'[j]) /\ job'[j].at # "new" /\ job'[j].path \in Paths
        /\ job'[j].kind \in {"tag", "retag"} => job'[j].tag \in Tags /\ job'[j].dest \in Tags
    BY <2>1 DEF Begins
  <2>3. \A k \in Jobs \ {j} : job'[k] = job[k]
    BY <2>1 DEF Begins
  <2>4. UNCHANGED <<exists, xattr, row, fileTags, graph, changes, apart, behind>>
    BY <2>1 DEF Begins, stores, history
  <2>5. TypeOK'
    BY <1>0, <2>1, <2>2, <2>3, <2>4 DEF TypeOK, Started
  <2>6. Numbered'
    <3>1. job[j].at = "new"
      BY <2>1 DEF Begins, Started
    <3>2. Synced \subseteq Synced'
      BY <2>3, <3>1 DEF Synced
    <3> QED BY <1>0, <2>4, <3>2, SyncedGrows DEF Numbered, TypeOK, Ids
  <2>7. OneOwner'
    BY <1>0, <2>4 DEF OneOwner
  <2>8. \A k \in Jobs : (KindOK(job[k]) /\ (~Started(k) => job[k] = Blank))'
    BY <1>0, <2>2, <2>3 DEF Started, Blank, KindOK
  <2> QED BY <2>5, <2>6, <2>7, <2>8 DEF RowInv
<1>6. ASSUME NEW j \in Jobs, TagRequest(j) \/ Run(j) PROVE RowInv'
  <2>1. Effect(j) /\ Same(j) /\ KindOK(job'[j])
    BY <1>6, Effects, TagSteps, RunSteps
  <2>2. /\ job' \in [Jobs -> JobStates] /\ job'[j].at # "new" /\ Started(j)
        /\ job'[j].path = job[j].path /\ job'[j].kind = job[j].kind /\ job'[j].dest = job[j].dest
        /\ \/ job'[j].tag = job[j].tag
           \/ job[j].kind = "retag" /\ job'[j].tag = job[j].dest
    BY <2>1 DEF Same, Active
  <2>3. \A k \in Jobs \ {j} : job'[k] = job[k]
    BY <2>1 DEF Same
  <2>4. /\ row' \in [Paths -> Ids \cup {0}] /\ fileTags' \in [Ids -> SUBSET Tags]
        /\ xattr' \in [Paths -> SUBSET Tags] /\ graph' \in [Paths -> SUBSET Tags]
        /\ apart' \subseteq Paths /\ behind' \subseteq Paths /\ skipped' \subseteq Paths
        /\ UNCHANGED <<exists, changes>>
    BY <2>1 DEF Effect
  <2>5. TypeOK'
    BY <1>0, <2>2, <2>3, <2>4 DEF TypeOK, Started
  <2>6. Synced \subseteq Synced' /\ (job[j].at = "apply" => j \in Synced' \ Synced)
    <3>1. job[j].at \notin {"new", "sync", "apply"} => job'[j].at \notin {"new", "sync", "apply"}
      BY <1>6, <2>2, TagSteps, RunSteps
    <3>2. job[j].at = "apply" => job'[j].at \notin {"new", "sync", "apply"}
      BY <1>6, <2>2, TagSteps, RunSteps
    <3> QED BY <2>3, <3>1, <3>2 DEF Synced
  <2>7. /\ \A p \in Paths \ {job[j].path} : row'[p] = row[p]
        /\ \/ row'[job[j].path] \in {0, row[job[j].path]}
           \/ job[j].at = "apply" /\ row'[job[j].path] = NextId
        /\ job[j].path \in Paths
    BY <2>1 DEF Effect
  <2>8. OneOwner'
    BY <1>0, <2>7, NewId DEF OneOwner, TypeOK, Ids
  <2>9. Numbered'
    <3>1. \A p \in Paths : row[p] \in Nat
      BY <1>0 DEF TypeOK, Ids
    <3>2. CASE row'[job[j].path] \in {0, row[job[j].path]}
      BY <1>0, <2>6, <2>7, <3>1, <3>2, SyncedGrows DEF Numbered
    <3>3. CASE job[j].at = "apply" /\ row'[job[j].path] = NextId
      <4>1. Synced \subseteq Synced' /\ Synced # Synced'
        BY <2>6, <3>3
      <4>2. Cardinality(Synced) + 1 <= Cardinality(Synced)'
        BY <4>1, SyncedGrows
      <4>3. /\ NextId \in Nat /\ NextId <= Cardinality(Paths) + Cardinality(Synced) + 1
        BY NewId
      <4> QED BY <1>0, <2>7, <3>1, <3>3, <4>1, <4>2, <4>3, SyncedGrows DEF Numbered
    <3> QED BY <2>7, <3>2, <3>3
  <2>10. \A k \in Jobs : (KindOK(job[k]) /\ (~Started(k) => job[k] = Blank))'
    BY <1>0, <2>1, <2>2, <2>3 DEF Started, Blank, KindOK
  <2> QED BY <2>5, <2>8, <2>9, <2>10 DEF RowInv
<1> QED BY <1>2, <1>3, <1>4, <1>5, <1>6, StepIs

\* Another path keeps its row and its tags, unless the operation holds its id.
LEMMA Aside ==
  ASSUME RowInv, NEW j \in Jobs, Effect(j), NEW p \in Paths \ {job[j].path},
         job[j].id # row[p] \/ row[p] = 0
  PROVE  /\ row'[p] = row[p] /\ IndexTags(p)' = IndexTags(p)
         /\ row[p] # 0 => row[p] \in Ids /\ fileTags'[row[p]] = fileTags[row[p]]
<1> DEFINE q == job[j].path
<1>1. row'[p] = row[p] /\ q \in Paths /\ row \in [Paths -> Ids \cup {0}]
  BY DEF Effect, RowInv, TypeOK
<1>2. ASSUME row[p] # 0 PROVE row[p] \in Ids /\ fileTags'[row[p]] = fileTags[row[p]]
  <2>1. row[p] \in Ids /\ row[p] # row[q] /\ row[p] < NextId /\ NextId \in Nat
    BY <1>1, <1>2, NewId DEF RowInv, OneOwner
  <2>2. job[j].at = "apply" => row'[q] # row[p]
    <3>1. \/ row'[q] = row[q]
          \/ job[j].at = "delete"
          \/ row'[q] = NextId
      BY DEF Effect
    <3> QED BY <2>1, <3>1 DEF Ids
  <2> QED BY <1>2, <2>1, <2>2 DEF Effect
<1> QED BY <1>1, <1>2 DEF IndexTags

-----------------------------------------------------------------------------
(***************************************************************************)
(* Requests that only add tags                                             *)
(***************************************************************************)

\* What a request to add a tag does to the row of its path.
LEMMA Adding ==
  ASSUME RowInv, NEW j \in Jobs, TagRequest(j), job[j].kind = "tag", job[j].op = "add",
         AddPhase(job[j])
  PROVE  /\ AddPhase(job[j])'
         /\ LET r == row[job[j].path] IN
            /\ row' = row /\ job'[j].id \in {job[j].id, r}
            /\ r # 0 => fileTags[r] \subseteq fileTags'[r]
<1> DEFINE p == job[j].path
<1>0. /\ job \in [Jobs -> JobStates] /\ job[j] \in JobStates /\ p \in Paths
      /\ row \in [Paths -> Ids \cup {0}] /\ fileTags \in [Ids -> SUBSET Tags]
      /\ job'[j].path = p /\ job'[j].tag = job[j].tag /\ job'[j].id \in {job[j].id, row[p]}
  BY TagSteps, Effects DEF RowInv, TypeOK, Same, Effect
<1> HIDE DEF p
<1>1. CASE TagReadsXattr(j) \/ TagWritesXattr(j)
  <2>1. job'[j].at \in {"writeXattr", "lookup"}
    BY <1>0, <1>1 DEF TagReadsXattr, TagWritesXattr, Goto, JobStates
  <2>2. row' = row /\ fileTags' = fileTags
    BY <1>1 DEF TagReadsXattr, TagWritesXattr, stores
  <2> QED BY <1>0, <2>1, <2>2 DEF AddPhase, p
<1>2. CASE TagLooksUp(j)
  <2>1. row' = row /\ fileTags' = fileTags
    BY <1>2 DEF TagLooksUp, stores
  <2>2. \/ job'[j].at = "failed"
        \/ job'[j].at = "modify" /\ row[p] # 0 /\ job'[j].id = row[p]
    <3>1. job'[j] = IF row[p] = 0 THEN AfterModify(job[j], FALSE)
                    ELSE [job[j] EXCEPT !.id = row[p], !.at = "modify"]
      BY <1>0, <1>2 DEF TagLooksUp, p
    <3>2. AfterModify(job[j], FALSE) = [job[j] EXCEPT !.at = "failed"]
      BY DEF AfterModify
    <3> QED BY <1>0, <3>1, <3>2 DEF JobStates
  <2> QED BY <1>0, <2>1, <2>2 DEF AddPhase, p
<1>3. CASE TagModifies(j)
  <2>1. job[j].id = row[p] /\ row[p] \in Ids /\ row' = row
    BY <1>0, <1>3 DEF AddPhase, TagModifies, p
  <2>2. Live(job[j].id)
    BY <1>0, <2>1 DEF Live
  <2>3. fileTags' = [fileTags EXCEPT ![row[p]] = Modified(fileTags[row[p]], job[j].op, job[j].tag)]
    BY <1>3, <2>1, <2>2 DEF TagModifies
  <2>4. Modified(fileTags[row[p]], job[j].op, job[j].tag) = fileTags[row[p]] \cup {job[j].tag}
    BY DEF Modified
  <2>5. fileTags'[row[p]] = fileTags[row[p]] \cup {job[j].tag}
    BY <1>0, <2>1, <2>3, <2>4
  <2>6. job'[j].at = "reread"
    <3>1. job'[j] = AfterModify(job[j], TRUE)
      BY <1>0, <1>3, <2>2 DEF TagModifies
    <3>2. AfterModify(job[j], TRUE) = [job[j] EXCEPT !.at = "reread"]
      BY DEF AfterModify
    <3> QED BY <1>0, <3>1, <3>2 DEF JobStates
  <2>7. row[p] # 0
    BY <2>1 DEF Ids
  <2> QED BY <1>0, <2>1, <2>5, <2>6, <2>7 DEF AddPhase, p
<1>4. CASE TagRereads(j) \/ TagSetsGraph(j)
  <2>1. job[j].at \in {"reread", "setGraph"} /\ job'[j].at \in {"setGraph", "done"}
    BY <1>0, <1>4 DEF TagRereads, TagSetsGraph, Goto, JobStates
  <2>2. row' = row /\ fileTags' = fileTags
    BY <1>4 DEF TagRereads, TagSetsGraph, stores
  <2> QED BY <1>0, <2>1, <2>2 DEF AddPhase, p
<1> QED BY <1>1, <1>2, <1>3, <1>4 DEF TagRequest

LEMMA PureStep ==
  ASSUME RowInv, PureInv, [Next]_vars
  PROVE  PureInv'
<1>0. job \in [Jobs -> JobStates] /\ row \in [Paths -> Ids \cup {0}]
  BY DEF RowInv, TypeOK
<1>1. ASSUME UNCHANGED <<row, fileTags, job>> PROVE PureInv'
  BY <1>1 DEF PureInv, Pure, AddPhase, Started
<1>2. ASSUME NEW j \in Jobs, NEW q \in Paths, Starting(j, q) PROVE PureInv'
  <2>1. Begins(j)
    BY <1>2, StartSteps
  <2>2. /\ ~Started(j) /\ job'[j].id = 0 /\ row' = row /\ fileTags' = fileTags
        /\ \A k \in Jobs \ {j} : job'[k] = job[k]
        /\ job'[j].kind = "tag" => job'[j].at = "readXattr"
        /\ job'[j].at # "new"
    BY <2>1 DEF Begins, stores
  <2> SUFFICES ASSUME NEW p \in Paths, Pure(p)', NEW k \in Jobs, Started(k)'
               PROVE  (IF job[k].path = p THEN AddPhase(job[k])
                       ELSE job[k].id # 0 => job[k].id # row[p])'
    BY DEF PureInv
  <2>3. Pure(p)
    BY <2>2 DEF Pure, Started
  <2>4. CASE k = j
    BY <2>2, <2>4 DEF Pure, Started, AddPhase
  <2>5. CASE k # j
    <3>1. job'[k] = job[k]
      BY <2>2, <2>5
    <3>2. IF job[k].path = p THEN AddPhase(job[k]) ELSE job[k].id # 0 => job[k].id # row[p]
      BY <2>3, <3>1 DEF PureInv, Started
    <3> QED BY <2>2, <3>1, <3>2 DEF AddPhase
  <2> QED BY <2>4, <2>5
<1>3. ASSUME NEW j \in Jobs, TagRequest(j) \/ Run(j) PROVE PureInv'
  <2> DEFINE q == job[j].path
  <2>1. Effect(j) /\ Same(j)
    BY <1>3, Effects, TagSteps, RunSteps
  <2>2. /\ Started(j) /\ q \in Paths /\ job'[j].path = q /\ job'[j].kind = job[j].kind
        /\ job[j].kind = "tag" => job'[j].op = job[j].op
        /\ job'[j].at # "new"
        /\ \A k \in Jobs \ {j} : job'[k] = job[k]
        /\ job'[j].id \in {job[j].id, row[q]}
    BY <2>1 DEF Effect, Same, Active
  <2> SUFFICES ASSUME NEW p \in Paths, Pure(p)', NEW k \in Jobs, Started(k)'
               PROVE  (IF job[k].path = p THEN AddPhase(job[k])
                       ELSE job[k].id # 0 => job[k].id # row[p])'
    BY DEF PureInv
  <2>3. Pure(p)
    BY <2>2 DEF Pure, Started
  <2>4. \A i \in Jobs : Started(i) =>
          IF job[i].path = p THEN AddPhase(job[i]) ELSE job[i].id # 0 => job[i].id # row[p]
    BY <2>3 DEF PureInv
  <2>5. Started(k)
    BY <2>2 DEF Started
  <2>6. CASE q # p
    <3>1. /\ row'[p] = row[p]
          /\ row[p] # 0 => fileTags'[row[p]] = fileTags[row[p]]
      <4>1. job[j].id # row[p] \/ row[p] = 0
        BY <2>2, <2>4, <2>6
      <4> QED BY <2>1, <2>6, <4>1, Aside
    <3>2. row[q] # 0 => row[q] # row[p]
      BY <2>2, <2>6 DEF RowInv, OneOwner
    <3>3. CASE k = j
      BY <2>2, <2>4, <2>6, <3>1, <3>2, <3>3
    <3>4. CASE k # j
      <4>1. job'[k] = job[k]
        BY <2>2, <3>4
      <4>2. IF job[k].path = p THEN AddPhase(job[k]) ELSE job[k].id # 0 => job[k].id # row[p]
        BY <2>4, <2>5
      <4> QED BY <3>1, <4>1, <4>2 DEF AddPhase
    <3> QED BY <3>3, <3>4
  <2>7. CASE q = p
    <3>1. job[j].kind = "tag" /\ job[j].op = "add" /\ AddPhase(job[j])
      BY <2>2, <2>3, <2>4, <2>7 DEF Pure
    <3>2. TagRequest(j)
      BY <1>3, <3>1 DEF Run, RowInv, KindOK, SyncReads, SyncApplies, RunPrepares, AsyncLooksUp,
                        RunReads, RunEvaluates, RunWrites, RunSetsIndex, RunSetsGraph, Deletes
    <3>3. /\ AddPhase(job[j])' /\ row' = row
          /\ row[p] # 0 => fileTags[row[p]] \subseteq fileTags'[row[p]]
      BY <2>7, <3>1, <3>2, Adding
    <3>4. CASE k = j
      BY <2>2, <2>7, <3>3, <3>4
    <3>5. CASE k # j
      <4>1. job'[k] = job[k]
        BY <2>2, <3>5
      <4>2. IF job[k].path = p THEN AddPhase(job[k]) ELSE job[k].id # 0 => job[k].id # row[p]
        BY <2>4, <2>5
      <4> QED BY <3>3, <4>1, <4>2 DEF AddPhase
    <3> QED BY <3>4, <3>5
  <2> QED BY <2>6, <2>7
<1>4. CASE Reload \/ UNCHANGED vars \/ \E p \in Paths : FileChanges(p)
  BY <1>1, <1>4 DEF Reload, vars, FileChanges, stores
<1> QED BY <1>2, <1>3, <1>4, StepIs

LEMMA RowsAtFirst ==
  Init => RowInv /\ \A j \in Jobs : ~Started(j)
<1> SUFFICES ASSUME Init PROVE RowInv /\ \A j \in Jobs : ~Started(j)
  OBVIOUS
<1>1. Cardinality(Paths) \in Nat /\ Cardinality(Jobs) \in Nat
  BY FiniteAssumption, FS_CardinalityType
<1>2. \A j \in Jobs : job[j] = Blank /\ ~Started(j)
  BY DEF Init, Started, Blank
<1>3. Blank \in JobStates
  BY DEF Blank, JobStates, AllKinds, AllOps, At
<1>4. row \in [Paths -> Ids \cup {0}]
  <2>1. 0 .. Cardinality(Paths) \subseteq Ids \cup {0}
    BY <1>1 DEF Ids
  <2> QED BY <2>1 DEF Init
<1>5. job \in [Jobs -> JobStates] /\ fileTags \in [Ids -> SUBSET Tags]
  BY <1>3 DEF Init
<1>6. world \in Worlds /\ world.changes \in Nat
  BY WorldsAssumption DEF Init
<1>7. /\ exists \in [Paths -> BOOLEAN] /\ xattr \in [Paths -> SUBSET Tags]
      /\ graph \in [Paths -> SUBSET Tags] /\ changes \in 0 .. world.changes
      /\ skipped \subseteq Paths /\ apart \subseteq Paths /\ behind \subseteq Paths
  BY <1>6 DEF Init
<1>8. TypeOK
  BY <1>2, <1>4, <1>5, <1>6, <1>7 DEF TypeOK
<1>9. Numbered
  <2>1. Synced = {}
    BY <1>2 DEF Synced, Blank
  <2> QED BY <1>1, <2>1, FS_EmptySet DEF Numbered, Init
<1>10. OneOwner
  BY DEF Init, OneOwner
<1>11. \A j \in Jobs : KindOK(job[j])
  BY <1>2 DEF KindOK, Blank
<1> QED BY <1>2, <1>8, <1>9, <1>10, <1>11 DEF RowInv

LEMMA Rows == Spec => []RowInv
<1>1. RowInv /\ [Next]_vars => RowInv'
  BY RowStep
<1> QED BY <1>1, RowsAtFirst, PTL DEF Spec

\* A tag that a request has added is in the index when the request has
\* succeeded, if only requests to add tags ran on the file, however their
\* steps interleave (handlers.go: handleTag; index.go: ModifyFileTags).
THEOREM AddsKept == Spec => []IndexKeepsAdds
<1>1. Init => RowInv /\ PureInv
  BY RowsAtFirst DEF PureInv
<1>2. RowInv /\ PureInv /\ [Next]_vars => PureInv'
  BY PureStep
<1>3. RowInv /\ PureInv => IndexKeepsAdds
  <2> SUFFICES ASSUME RowInv, PureInv, NEW j \in Jobs, job[j].at = "done",
                      \A k \in Jobs : Started(k) /\ job[k].path = job[j].path =>
                                        job[k].kind = "tag" /\ job[k].op = "add"
               PROVE  job[j].tag \in IndexTags(job[j].path)
    BY DEF IndexKeepsAdds
  <2>1. Started(j) /\ job[j].path \in Paths
    BY DEF Started, RowInv, TypeOK
  <2>2. Pure(job[j].path)
    BY DEF Pure
  <2>3. AddPhase(job[j])
    BY <2>1, <2>2 DEF PureInv
  <2> QED BY <2>3 DEF AddPhase, IndexTags
<1> QED BY <1>1, <1>2, <1>3, Rows, PTL DEF Spec

-----------------------------------------------------------------------------
(***************************************************************************)
(* Ids and tags of the path                                                *)
(***************************************************************************)

LEMMA AloneStep ==
  ASSUME RowInv, Alone, [Next]_vars
  PROVE  Alone'
<1>1. ASSUME UNCHANGED <<job, world>> PROVE Alone'
  BY <1>1 DEF Alone, Active, Started, Finished
<1>2. ASSUME NEW j \in Jobs, NEW q \in Paths, Starting(j, q) PROVE Alone'
  <2>1. Begins(j) /\ world' = world
    BY <1>2, StartSteps, StepIs
  <2>2. (world.overlap \/ Idle) /\ \A k \in Jobs \ {j} : job'[k] = job[k]
    BY <2>1 DEF Begins, MayStart
  <2> QED BY <2>1, <2>2 DEF Alone, Active, Idle, Started, Finished
<1>3. ASSUME NEW j \in Jobs, TagRequest(j) \/ Run(j) PROVE Alone'
  <2>1. Same(j) /\ world' = world
    BY <1>3, TagSteps, RunSteps, StepIs
  <2>2. Active(j) /\ \A k \in Jobs \ {j} : job'[k] = job[k]
    BY <2>1 DEF Same
  <2> QED BY <2>1, <2>2 DEF Alone, Active, Started, Finished
<1>4. CASE Reload \/ UNCHANGED vars \/ \E p \in Paths : FileChanges(p)
  BY <1>1, <1>4, StepIs DEF Reload, vars, FileChanges
<1> QED BY <1>2, <1>3, <1>4, StepIs

\* Operations keep their kind, and so rows that may be deleted under an
\* operation stay so.
LEMMA UndeletedBefore ==
  ASSUME RowInv, [Next]_vars, Undeleted'
  PROVE  Undeleted
<1>1. ASSUME UNCHANGED <<job, world>> PROVE Undeleted
  BY <1>1 DEF Undeleted
<1>2. ASSUME NEW j \in Jobs, NEW q \in Paths, Starting(j, q) PROVE Undeleted
  <2>1. Begins(j) /\ world' = world
    BY <1>2, StartSteps, StepIs
  <2>2. job[j].kind = "tag"
    BY <2>1 DEF Begins, RowInv, Blank
  <2> QED BY <2>1, <2>2 DEF Undeleted, Begins
<1>3. ASSUME NEW j \in Jobs, TagRequest(j) \/ Run(j) PROVE Undeleted
  <2>1. Same(j) /\ world' = world
    BY <1>3, TagSteps, RunSteps, StepIs
  <2> QED BY <2>1 DEF Undeleted, Same
<1>4. CASE Reload \/ UNCHANGED vars \/ \E p \in Paths : FileChanges(p)
  BY <1>1, <1>4, StepIs DEF Reload, vars, FileChanges
<1> QED BY <1>2, <1>3, <1>4, StepIs

LEMMA OwnIdsStep ==
  ASSUME RowInv, Alone, OwnIds, [Next]_vars
  PROVE  OwnIds'
<1> SUFFICES ASSUME Undeleted' PROVE \A k \in Jobs : Active(k)' => job'[k].id \in {0, row'[job'[k].path]}
  BY DEF OwnIds
<1>1. Undeleted /\ \A k \in Jobs : Active(k) => job[k].id \in {0, row[job[k].path]}
  BY UndeletedBefore DEF OwnIds
<1>2. CASE UNCHANGED <<job, row>>
  BY <1>1, <1>2 DEF Active, Started, Finished
<1>3. ASSUME NEW j \in Jobs, NEW q \in Paths, Starting(j, q)
      PROVE  \A k \in Jobs : Active(k)' => job'[k].id \in {0, row'[job'[k].path]}
  <2>1. Begins(j)
    BY <1>3, StartSteps
  <2>2. job'[j].id = 0 /\ row' = row /\ \A k \in Jobs \ {j} : job'[k] = job[k]
    BY <2>1 DEF Begins, stores
  <2> QED BY <1>1, <2>2 DEF Active, Started, Finished
<1>4. ASSUME NEW j \in Jobs, TagRequest(j) \/ Run(j), NEW k \in Jobs, Active(k)'
      PROVE  job'[k].id \in {0, row'[job'[k].path]}
  <2> DEFINE q == job[j].path
  <2>1. Effect(j) /\ Same(j)
    BY <1>4, Effects, TagSteps, RunSteps
  <2>2. /\ Active(j) /\ q \in Paths /\ job'[j].path = q /\ row \in [Paths -> Ids \cup {0}]
        /\ \A i \in Jobs \ {j} : job'[i] = job[i]
        /\ job'[j].id \in {job[j].id, row[q]}
    BY <2>1 DEF Effect, Same, RowInv, TypeOK
  <2>3. \/ row'[q] = row[q]
        \/ row[q] = 0
        \/ job[j].at = "delete"
    BY <2>1 DEF Effect
  <2>4. CASE job[j].at = "delete"
    <3>1. job[j].kind = "delete"
      BY <2>4 DEF RowInv, KindOK
    <3>2. ~world.overlap
      BY <1>1, <3>1 DEF Undeleted
    <3>3. k = j
      BY <2>2, <1>4, <3>2 DEF Alone, Active, Started, Finished
    <3>4. job'[j].at = "done"
      <4>1. Deletes(j)
        BY <1>4, <2>4 DEF TagRequest, Run, TagReadsXattr, TagWritesXattr, TagLooksUp, TagModifies,
                        TagRereads, TagSetsGraph, SyncReads, SyncApplies, RunPrepares, AsyncLooksUp,
                        RunReads, RunEvaluates, RunWrites, RunSetsIndex, RunSetsGraph
      <4> QED BY <4>1 DEF Deletes, Goto, RowInv, TypeOK, JobStates
    <3> QED BY <1>4, <3>3, <3>4 DEF Active, Finished
  <2>5. CASE job[j].at # "delete"
    <3>1. \A p \in Paths : row'[p] = row[p] \/ row[p] = 0
      BY <2>1, <2>3, <2>5 DEF Effect
    <3>2. CASE k = j
      BY <1>1, <2>2, <3>1, <3>2
    <3>3. CASE k # j
      <4>1. job'[k] = job[k] /\ Active(k) /\ job[k].path \in Paths
        BY <1>4, <2>2, <3>3 DEF Active, Started, Finished, RowInv, TypeOK
      <4> QED BY <1>1, <3>1, <4>1
    <3> QED BY <3>2, <3>3
  <2> QED BY <2>4, <2>5
<1>5. CASE Reload \/ UNCHANGED vars \/ \E p \in Paths : FileChanges(p)
  BY <1>2, <1>5 DEF Reload, vars, FileChanges, stores
<1> QED BY <1>3, <1>4, <1>5, StepIs

\* What is given to a path, now and after a step.
Gives(b, p, t) ==
  /\ b.at # "new" /\ b.path = p
  /\ \/ b.kind = "tag" /\ b.op # "remove" /\ t = b.tag
     \/ b.kind = "retag" /\ t = b.dest

LEMMA GivenIs ==
  ASSUME NEW p \in Paths, NEW t
  PROVE  /\ t \in GivenTo(p) <=> t \in RuleTags[p] \/ \E j \in Jobs : Gives(job[j], p, t)
         /\ t \in GivenTo(p)' <=> t \in RuleTags[p] \/ \E j \in Jobs : Gives(job'[j], p, t)
<1>1. t \in GivenTo(p) <=> t \in RuleTags[p] \/ \E j \in Jobs : Gives(job[j], p, t)
  BY DEF GivenTo, Gives, Started
<1>2. t \in GivenTo(p)' <=> t \in RuleTags[p] \/ \E j \in Jobs : Gives(job'[j], p, t)
  BY DEF GivenTo, Gives, Started
<1> QED BY <1>1, <1>2

LEMMA GivenGrows ==
  ASSUME RowInv, [Next]_vars, NEW p \in Paths
  PROVE  GivenTo(p) \subseteq GivenTo(p)'
<1>1. ASSUME NEW j \in Jobs, NEW t, Gives(job[j], p, t) PROVE Gives(job'[j], p, t)
  <2>1. CASE job' = job
    BY <1>1, <2>1
  <2>2. ASSUME NEW k \in Jobs, NEW q \in Paths, Starting(k, q) PROVE Gives(job'[j], p, t)
    BY <1>1, <2>2, StartSteps DEF Begins, Gives, Started
  <2>3. ASSUME NEW k \in Jobs, TagRequest(k) \/ Run(k) PROVE Gives(job'[j], p, t)
    <3>1. Same(k)
      BY <2>3, TagSteps, RunSteps
    <3> QED BY <1>1, <3>1 DEF Same, Gives
  <2>4. CASE Reload \/ UNCHANGED vars \/ \E q \in Paths : FileChanges(q)
    BY <2>1, <2>4 DEF Reload, vars, FileChanges
  <2> QED BY <2>2, <2>3, <2>4, StepIs
<1> QED BY <1>1, GivenIs

\* A request modifies tags with what it gives.
LEMMA ModifiedOwn ==
  ASSUME RowInv, NEW j \in Jobs, Started(j), job[j].kind \in {"tag", "retag"},
         NEW S, S \subseteq GivenTo(job[j].path)
  PROVE  Modified(S, job[j].op, job[j].tag) \subseteq GivenTo(job[j].path)
<1>1. job[j].path \in Paths /\ job[j].op \in AllOps
  BY DEF RowInv, TypeOK, JobStates
<1>2. job[j].op # "remove" => job[j].tag \in GivenTo(job[j].path)
  <2>1. job[j].kind = "retag" /\ job[j].op # "remove" => job[j].tag = job[j].dest
    BY DEF RowInv, KindOK
  <2>2. job[j].op # "remove" => Gives(job[j], job[j].path, job[j].tag)
    BY <2>1 DEF Gives, Started
  <2> QED BY <1>1, <2>2, GivenIs
<1> QED BY <1>1, <1>2 DEF Modified, AllOps

\* An operation writes to its path what was given to it.
LEMMA OwnWrites ==
  ASSUME RowInv, OwnIds, OwnTags, Undeleted, NEW j \in Jobs, TagRequest(j) \/ Run(j),
         NEW q \in Paths, job[j].path = q
  PROVE  /\ xattr'[q] \subseteq GivenTo(q) /\ graph'[q] \subseteq GivenTo(q)
         /\ IndexTags(q)' \subseteq GivenTo(q) /\ job'[j].tags \subseteq GivenTo(q)
<1> DEFINE G == GivenTo(q)
<1>0. /\ job \in [Jobs -> JobStates] /\ job[j] \in JobStates /\ Active(j) /\ Started(j)
      /\ xattr \in [Paths -> SUBSET Tags] /\ row \in [Paths -> Ids \cup {0}]
      /\ fileTags \in [Ids -> SUBSET Tags] /\ graph \in [Paths -> SUBSET Tags]
      /\ q \in Paths /\ 0 \notin Ids
      /\ KindOK(job[j]) /\ job[j].id \in {0, row[q]}
      /\ xattr[q] \subseteq G /\ graph[q] \subseteq G /\ IndexTags(q) \subseteq G
      /\ job[j].tags \subseteq G
      /\ RuleTags[q] \subseteq G
  <2>1. Same(j)
    BY TagSteps, RunSteps
  <2>2. Active(j) /\ Started(j) /\ q \in Paths /\ 0 \notin Ids
    BY <2>1 DEF Same, Active, RowInv, TypeOK, Ids
  <2>3. RuleTags[q] \subseteq G
    BY <2>2, GivenIs
  <2> QED BY <2>2, <2>3 DEF RowInv, TypeOK, OwnIds, OwnTags
<1> HIDE DEF G
\* The tags in the record.
<1>1. job'[j].tags \subseteq G
  <2>1. CASE \E at \in At : Goto(j, at)
    BY <1>0, <2>1 DEF Goto, JobStates
  <2>2. CASE TagReadsXattr(j) \/ SyncReads(j) \/ RunReads(j)
    BY <1>0, <2>2 DEF TagReadsXattr, SyncReads, RunReads, Goto, JobStates
  <2>3. CASE TagLooksUp(j) \/ TagModifies(j)
    <3>1. PICK ok \in BOOLEAN :
            \/ job' = [job EXCEPT ![j] = AfterModify(job[j], ok)]
            \/ job' = [job EXCEPT ![j] = [job[j] EXCEPT !.id = row[q], !.at = "modify"]]
      BY <1>0, <2>3 DEF TagLooksUp, TagModifies, Live
    <3>2. AfterModify(job[j], ok).tags = job[j].tags
      <4>1. AfterModify(job[j], ok) \in
              {[job[j] EXCEPT !.at = "reread"], [job[j] EXCEPT !.at = "failed"],
               [job[j] EXCEPT !.at = "done"],
               [job[j] EXCEPT !.op = "add", !.tag = job[j].dest, !.at = "lookup"]}
        BY <1>0 DEF AfterModify
      <4> QED BY <1>0, <4>1 DEF JobStates
    <3>3. [job[j] EXCEPT !.id = row[q], !.at = "modify"].tags = job[j].tags
      BY <1>0 DEF JobStates
    <3>4. job'[j].tags = job[j].tags
      BY <1>0, <3>1, <3>2, <3>3
    <3> QED BY <1>0, <3>4
  <2>4. CASE AsyncLooksUp(j) \/ TagRereads(j)
    BY <1>0, <2>4 DEF AsyncLooksUp, TagRereads, JobStates
  <2>5. CASE RunEvaluates(j)
    <3> DEFINE id == IF job[j].kind = "async" THEN job[j].id ELSE row[q]
               added == RuleTags[q] \ job[j].tags
               at == IF id = 0 \/ added = {} THEN "done" ELSE "write"
               all == job[j].tags \cup added
    <3>1. \/ job' = [job EXCEPT ![j] = [job[j] EXCEPT !.at = at, !.id = id, !.tags = all]]
          \/ Goto(j, "done")
      BY <1>0, <2>5 DEF RunEvaluates
    <3>2. all \subseteq G /\ "done" \in At
      BY <1>0 DEF At
    <3> HIDE DEF id, at, all
    <3>3. CASE job' = [job EXCEPT ![j] = [job[j] EXCEPT !.at = at, !.id = id, !.tags = all]]
      <4>1. job'[j].tags = all
        BY <1>0, <3>3 DEF JobStates
      <4> QED BY <3>2, <4>1
    <3> QED BY <2>1, <3>1, <3>2, <3>3
  <2>6. \/ \E at \in At : Goto(j, at)
        \/ TagReadsXattr(j) \/ TagRereads(j) \/ SyncReads(j) \/ RunReads(j)
        \/ TagLooksUp(j) \/ TagModifies(j) \/ AsyncLooksUp(j) \/ RunEvaluates(j)
    BY DEF TagRequest, Run, TagWritesXattr, TagSetsGraph, SyncApplies, RunPrepares, RunWrites,
           RunSetsIndex, RunSetsGraph, Deletes, At
  <2> QED BY <2>1, <2>2, <2>3, <2>4, <2>5, <2>6
\* The stores.
<1>2. ASSUME UNCHANGED <<row, fileTags>> PROVE IndexTags(q)' \subseteq G
  <2>1. IndexTags(q)' = IndexTags(q)
    BY <1>2 DEF IndexTags
  <2> QED BY <1>0, <2>1
<1>3. CASE \/ TagReadsXattr(j) \/ TagLooksUp(j) \/ TagRereads(j) \/ SyncReads(j)
           \/ RunPrepares(j) \/ AsyncLooksUp(j) \/ RunReads(j) \/ RunEvaluates(j)
  <2>1. UNCHANGED stores
    BY <1>3 DEF TagReadsXattr, TagLooksUp, TagRereads, SyncReads, RunPrepares, AsyncLooksUp,
                RunReads, RunEvaluates
  <2> QED BY <1>0, <1>1, <1>2, <2>1 DEF stores, G
<1>4. CASE TagWritesXattr(j)
  <2>1. job[j].at = "writeXattr" /\ UNCHANGED <<row, fileTags, graph>>
    BY <1>4 DEF TagWritesXattr
  <2>2. xattr' = xattr \/ xattr' = [xattr EXCEPT ![q] = Modified(job[j].tags, job[j].op, job[j].tag)]
    BY <1>4 DEF TagWritesXattr
  <2>3. Modified(job[j].tags, job[j].op, job[j].tag) \subseteq G
    BY <1>0, <2>1, ModifiedOwn DEF KindOK, G
  <2> QED BY <1>0, <1>1, <1>2, <2>1, <2>2, <2>3 DEF G
<1>5. CASE TagSetsGraph(j) \/ RunSetsGraph(j)
  <2>1. UNCHANGED <<xattr, row, fileTags>> /\ graph' = [graph EXCEPT ![q] = job[j].tags]
    BY <1>5 DEF TagSetsGraph, RunSetsGraph
  <2> QED BY <1>0, <1>1, <1>2, <2>1 DEF G
<1>6. CASE RunWrites(j)
  <2>1. /\ UNCHANGED <<row, fileTags, graph>>
        /\ xattr' = xattr \/ xattr' = [xattr EXCEPT ![q] = job[j].tags]
    BY <1>6 DEF RunWrites
  <2> QED BY <1>0, <1>1, <1>2, <2>1 DEF G
<1>7. ASSUME NEW T, T \subseteq G \/ job[j].id = 0, UNCHANGED <<xattr, row, graph>>,
             fileTags' = [fileTags EXCEPT ![job[j].id] = T] \/ fileTags' = fileTags
      PROVE  /\ xattr'[q] \subseteq G /\ graph'[q] \subseteq G
             /\ IndexTags(q)' \subseteq G
  <2>1. row[q] # 0 => fileTags'[row[q]] = fileTags[row[q]] \/ (job[j].id = row[q] /\ fileTags'[row[q]] = T)
    BY <1>0, <1>7
  <2>2. IndexTags(q)' = (IF row[q] = 0 THEN {} ELSE fileTags'[row[q]])
    BY <1>7 DEF IndexTags
  <2>3. row[q] # 0 => fileTags[row[q]] \subseteq G
    BY <1>0 DEF IndexTags
  <2> QED BY <1>0, <1>7, <2>1, <2>2, <2>3
<1>8. CASE TagModifies(j)
  <2> DEFINE T == Modified(fileTags[job[j].id], job[j].op, job[j].tag)
  <2>1. /\ job[j].at = "modify" /\ UNCHANGED <<xattr, row, graph>>
        /\ fileTags' = [fileTags EXCEPT ![job[j].id] = T] \/ fileTags' = fileTags
    BY <1>8 DEF TagModifies
  <2>2. T \subseteq G \/ job[j].id = 0
    <3>1. job[j].id # 0 => fileTags[job[j].id] \subseteq G
      BY <1>0 DEF IndexTags
    <3> QED BY <1>0, <2>1, <3>1, ModifiedOwn DEF KindOK, G
  <2> HIDE DEF T
  <2> QED BY <1>1, <1>7, <2>1, <2>2 DEF G
<1>9. CASE RunSetsIndex(j)
  <2>1. /\ UNCHANGED <<xattr, row, graph>>
        /\ fileTags' = [fileTags EXCEPT ![job[j].id] = job[j].tags] \/ fileTags' = fileTags
    BY <1>9 DEF RunSetsIndex
  <2> QED BY <1>0, <1>1, <1>7, <2>1 DEF G
<1>10. CASE SyncApplies(j)
  <2> DEFINE id == IF row[q] # 0 THEN row[q] ELSE NextId
  <2>1. /\ job[j].at = "apply" /\ row' = [row EXCEPT ![q] = id]
        /\ fileTags' = [fileTags EXCEPT ![id] = job[j].tags]
        /\ UNCHANGED <<xattr, graph>>
    BY <1>10 DEF SyncApplies
  <2>2. id \in Ids
    <3>1. j \notin Synced
      BY <2>1 DEF Synced
    <3>2. NextId \in Ids
      BY <3>1, NewId
    <3> QED BY <1>0, <3>2
  <2> HIDE DEF id
  <2>3. IndexTags(q)' = job[j].tags
    <3>1. row'[q] = id /\ fileTags'[id] = job[j].tags /\ id # 0
      BY <1>0, <2>1, <2>2
    <3> QED BY <3>1 DEF IndexTags
  <2> QED BY <1>0, <1>1, <2>1, <2>3 DEF G
<1>11. CASE Deletes(j)
  <2>1. row' = [row EXCEPT ![q] = 0] /\ UNCHANGED <<xattr, graph>>
    BY <1>11 DEF Deletes
  <2>2. IndexTags(q)' = {}
    BY <1>0, <2>1 DEF IndexTags
  <2> QED BY <1>0, <1>1, <2>1, <2>2 DEF G
<1> QED BY <1>3, <1>4, <1>5, <1>6, <1>8, <1>9, <1>10, <1>11 DEF TagRequest, Run

LEMMA OwnTagsStep ==
  ASSUME RowInv, OwnIds, OwnTags, [Next]_vars
  PROVE  OwnTags'
<1> DEFINE Owned(p) ==
      /\ xattr'[p] \subseteq GivenTo(p) /\ graph'[p] \subseteq GivenTo(p)
      /\ IndexTags(p)' \subseteq GivenTo(p)
      /\ \A k \in Jobs : job'[k].at # "new" /\ job'[k].path = p => job'[k].tags \subseteq GivenTo(p)
<1> SUFFICES ASSUME Undeleted', NEW p \in Paths PROVE Owned(p)
  <2>1. \A p \in Paths : GivenTo(p) \subseteq GivenTo(p)'
    BY GivenGrows
  <2> QED BY <2>1 DEF OwnTags, Started
<1>1. /\ xattr[p] \subseteq GivenTo(p) /\ graph[p] \subseteq GivenTo(p)
      /\ IndexTags(p) \subseteq GivenTo(p)
      /\ \A k \in Jobs : job[k].at # "new" /\ job[k].path = p => job[k].tags \subseteq GivenTo(p)
      /\ Undeleted
  BY UndeletedBefore DEF OwnTags, Started
<1>2. UNCHANGED <<row, fileTags>> => IndexTags(p)' = IndexTags(p)
  BY DEF IndexTags
<1>3. ASSUME NEW j \in Jobs, NEW q \in Paths, Starting(j, q) PROVE Owned(p)
  <2>1. Begins(j)
    BY <1>3, StartSteps
  <2>2. UNCHANGED stores /\ job'[j].tags = {} /\ \A k \in Jobs \ {j} : job'[k] = job[k]
    BY <2>1 DEF Begins
  <2> QED BY <1>1, <1>2, <2>2 DEF stores
<1>4. ASSUME NEW j \in Jobs, TagRequest(j) \/ Run(j) PROVE Owned(p)
  <2>1. Effect(j) /\ Same(j)
    BY <1>4, Effects, TagSteps, RunSteps
  <2>2. /\ Active(j) /\ Started(j) /\ job'[j].path = job[j].path
        /\ \A k \in Jobs \ {j} : job'[k] = job[k]
    BY <2>1 DEF Same, Active
  <2>3. CASE job[j].path = p
    <3>1. /\ xattr'[p] \subseteq GivenTo(p) /\ graph'[p] \subseteq GivenTo(p)
          /\ IndexTags(p)' \subseteq GivenTo(p) /\ job'[j].tags \subseteq GivenTo(p)
      BY <1>1, <1>4, <2>3, OwnWrites
    <3> QED BY <1>1, <2>2, <3>1
  <2>4. CASE job[j].path # p
    <3>1. xattr'[p] = xattr[p] /\ graph'[p] = graph[p]
      BY <2>1, <2>4 DEF Effect
    <3>2. IndexTags(p)' = IndexTags(p)
      <4>1. job[j].id \in {0, row[job[j].path]} /\ job[j].path \in Paths
        BY <1>1, <2>1, <2>2 DEF OwnIds, Effect
      <4>2. job[j].id # row[p] \/ row[p] = 0
        BY <2>4, <4>1 DEF RowInv, OneOwner
      <4> QED BY <2>1, <2>4, <4>2, Aside
    <3> QED BY <1>1, <2>2, <2>4, <3>1, <3>2
  <2> QED BY <2>3, <2>4
<1>5. CASE Reload \/ UNCHANGED vars
  BY <1>1, <1>2, <1>5 DEF Reload, vars, stores
<1>6. ASSUME NEW q \in Paths, FileChanges(q) PROVE Owned(p)
  <2>1. xattr'[p] = xattr[p] \/ xattr'[p] = {}
    BY <1>6 DEF FileChanges, RowInv, TypeOK
  <2> QED BY <1>1, <1>2, <1>6, <2>1 DEF FileChanges
<1> QED BY <1>3, <1>4, <1>5, <1>6, StepIs

\* Neither the index nor the graph has a tag that nobody gave to the file,
\* however operations overlap, unless a row is deleted while something else
\* runs (index.go: SyncFileApply, DeleteFile; processor.go: applyDiff;
\* handlers.go: handleTag).
THEOREM NoForeignTags == Spec => []OwnTagsOnly
<1>1. Init => RowInv /\ Alone /\ OwnIds /\ OwnTags
  <2> SUFFICES ASSUME Init PROVE Alone /\ OwnIds /\ OwnTags
    BY RowsAtFirst
  <2>1. \A j \in Jobs : ~Started(j) /\ ~Active(j)
    BY RowsAtFirst DEF Active
  <2>2. \A p \in Paths : xattr[p] = {} /\ graph[p] = {} /\ IndexTags(p) = {}
    <3>1. \A p \in Paths : row[p] # 0 => row[p] \in Ids
      BY RowsAtFirst DEF RowInv, TypeOK
    <3> QED BY <3>1 DEF Init, IndexTags
  <2> QED BY <2>1, <2>2 DEF Alone, OwnIds, OwnTags
<1>2. RowInv /\ Alone /\ OwnIds /\ OwnTags /\ [Next]_vars => (Alone /\ OwnIds /\ OwnTags)'
  BY AloneStep, OwnIdsStep, OwnTagsStep
<1>3. OwnTags => OwnTagsOnly
  BY DEF OwnTags, OwnTagsOnly
<1> QED BY <1>1, <1>2, <1>3, Rows, PTL DEF Spec

LEMMA Ownership == Spec => [](RowInv /\ Alone /\ OwnIds)
<1>1. Init => RowInv /\ Alone /\ OwnIds
  BY RowsAtFirst DEF Alone, OwnIds, Active
<1>2. RowInv /\ Alone /\ OwnIds /\ [Next]_vars => (Alone /\ OwnIds)'
  BY AloneStep, OwnIdsStep
<1> QED BY <1>1, <1>2, Rows, PTL DEF Spec

-----------------------------------------------------------------------------
(***************************************************************************)
(* One operation at a time                                                 *)
(***************************************************************************)

LEMMA OwingTagStep ==
  ASSUME RowInv, NEW j \in Jobs, TagRequest(j), NEW q \in Paths, job[j].path = q, Owing(job[j])
  PROVE  Owing(job[j])'
<1>0. /\ job \in [Jobs -> JobStates] /\ job[j] \in JobStates
      /\ xattr \in [Paths -> SUBSET Tags] /\ row \in [Paths -> Ids \cup {0}]
      /\ fileTags \in [Ids -> SUBSET Tags] /\ graph \in [Paths -> SUBSET Tags]
      /\ 0 \notin Ids /\ KindOK(job[j])
      /\ job'[j].path = q /\ job'[j].kind = job[j].kind /\ UNCHANGED exists
  BY TagSteps, Effects DEF RowInv, TypeOK, Same, Effect, Ids
<1>1. UNCHANGED <<row, fileTags>> => IndexTags(q)' = IndexTags(q)
  BY DEF IndexTags
<1>2. CASE TagReadsXattr(j)
  <2>1. /\ job[j].at = "readXattr" /\ job'[j].at = "writeXattr"
        /\ job'[j].tags = IF exists[q] THEN xattr[q] ELSE {}
    BY <1>0, <1>2 DEF TagReadsXattr, JobStates
  <2>2. UNCHANGED <<xattr, row, fileTags, graph, apart, behind>>
    BY <1>2 DEF TagReadsXattr, stores, others, history
  <2> QED BY <1>0, <1>1, <2>1, <2>2 DEF Owing, IndexAgrees, GraphHas
<1>3. CASE TagWritesXattr(j)
  <2>1. /\ job[j].at = "writeXattr" /\ job'[j].at = "lookup" /\ job[j].kind = "tag"
        /\ job'[j].op = job[j].op /\ job'[j].tag = job[j].tag
    BY <1>0, <1>3 DEF TagWritesXattr, Goto, JobStates, KindOK
  <2>2. UNCHANGED <<row, fileTags, graph, behind>>
    BY <1>3 DEF TagWritesXattr
  <2>3. \/ q \in apart'
        \/ /\ exists[q] /\ UNCHANGED apart
           /\ xattr'[q] = Modified(job[j].tags, job[j].op, job[j].tag)
    BY <1>0, <1>3 DEF TagWritesXattr
  <2> QED BY <1>0, <1>1, <2>1, <2>2, <2>3 DEF Owing, IndexAgrees, GraphHas
<1>4. CASE TagLooksUp(j)
  <2>1. UNCHANGED <<xattr, row, fileTags, graph, apart, behind>> /\ job[j].at = "lookup"
    BY <1>4 DEF TagLooksUp, stores, others, history
  <2>2. job[j].kind \in {"tag", "retag"}
    BY <1>0, <2>1 DEF KindOK
  <2>3. CASE row[q] = 0
    <3>1. job'[j] = AfterModify(job[j], FALSE)
      BY <1>0, <1>4, <2>3 DEF TagLooksUp
    <3>2. job[j].kind = "tag" => job'[j].at = "failed"
      BY <1>0, <3>1 DEF AfterModify, JobStates
    <3>3. job[j].kind = "retag" => job'[j].at \in {"lookup", "done"}
      <4>1. job[j].kind = "retag" =>
              job'[j] \in {[job[j] EXCEPT !.op = "add", !.tag = job[j].dest, !.at = "lookup"],
                           [job[j] EXCEPT !.at = "done"]}
        BY <3>1 DEF AfterModify
      <4> QED BY <1>0, <4>1 DEF JobStates
    <3> QED BY <1>0, <1>1, <2>1, <2>2, <2>3, <3>2, <3>3 DEF Owing, IndexAgrees, GraphHas
  <2>4. CASE row[q] # 0
    <3>1. /\ job'[j].at = "modify" /\ job'[j].id = row[q]
          /\ job'[j].op = job[j].op /\ job'[j].tag = job[j].tag
      BY <1>0, <1>4, <2>4 DEF TagLooksUp, JobStates
    <3> QED BY <1>0, <1>1, <2>1, <2>2, <2>4, <3>1 DEF Owing, IndexAgrees, GraphHas
  <2> QED BY <2>3, <2>4
<1>5. CASE TagModifies(j)
  <2>1. job[j].at = "modify" /\ UNCHANGED <<xattr, row, graph>>
    BY <1>5 DEF TagModifies
  <2>2. job[j].id = row[q] /\ row[q] \in Ids /\ job[j].kind \in {"tag", "retag"}
    BY <1>0, <2>1 DEF Owing, KindOK
  <2>3. Live(job[j].id)
    BY <1>0, <2>2 DEF Live
  <2>4. IndexTags(q)' = Modified(IndexTags(q), job[j].op, job[j].tag)
    <3>1. fileTags' = [fileTags EXCEPT ![row[q]] = Modified(fileTags[row[q]], job[j].op, job[j].tag)]
      BY <1>5, <2>2, <2>3 DEF TagModifies
    <3>2. fileTags'[row[q]] = Modified(fileTags[row[q]], job[j].op, job[j].tag)
      BY <1>0, <2>2, <3>1
    <3> QED BY <1>0, <2>1, <2>2, <3>2 DEF IndexTags
  <2>5. job'[j] = AfterModify(job[j], TRUE)
    BY <1>0, <1>5, <2>3 DEF TagModifies
  <2>6. CASE job[j].kind = "tag"
    <3>1. job'[j].at = "reread"
      BY <1>0, <2>5, <2>6 DEF AfterModify, JobStates
    <3>2. UNCHANGED apart
      BY <1>5, <2>6 DEF TagModifies
    <3> QED BY <1>0, <2>1, <2>4, <2>6, <3>1, <3>2 DEF Owing, IndexAgrees
  <2>7. CASE job[j].kind = "retag"
    <3>1. job'[j].at \in {"lookup", "done"}
      <4>1. job'[j] \in {[job[j] EXCEPT !.op = "add", !.tag = job[j].dest, !.at = "lookup"],
                         [job[j] EXCEPT !.at = "done"]}
        BY <2>5, <2>7 DEF AfterModify
      <4> QED BY <1>0, <4>1 DEF JobStates
    <3>2. q \in apart' /\ q \in behind'
      BY <1>5, <2>7 DEF TagModifies
    <3> QED BY <1>0, <2>7, <3>1, <3>2 DEF Owing, IndexAgrees, GraphHas
  <2> QED BY <2>2, <2>6, <2>7
<1>6. CASE TagRereads(j)
  <2>1. job[j].at = "reread" /\ job'[j].at = "setGraph" /\ job'[j].tags = IndexTags(q)
    BY <1>0, <1>6 DEF TagRereads, JobStates
  <2>2. UNCHANGED <<xattr, row, fileTags, graph, apart, behind>>
    BY <1>6 DEF TagRereads, stores, others, history
  <2> QED BY <1>0, <1>1, <2>1, <2>2 DEF Owing, IndexAgrees
<1>7. CASE TagSetsGraph(j)
  <2>1. job[j].at = "setGraph" /\ job'[j].at = "done" /\ graph'[q] = job[j].tags
    BY <1>0, <1>7 DEF TagSetsGraph, Goto, JobStates
  <2>2. UNCHANGED <<xattr, row, fileTags, apart>>
    BY <1>7 DEF TagSetsGraph
  <2> QED BY <1>0, <1>1, <2>1, <2>2 DEF Owing, IndexAgrees, GraphHas
<1> QED BY <1>2, <1>3, <1>4, <1>5, <1>6, <1>7 DEF TagRequest

LEMMA OwingRunStep ==
  ASSUME RowInv, NEW j \in Jobs, Run(j), NEW q \in Paths, job[j].path = q, Owing(job[j])
  PROVE  Owing(job[j])'
<1>0. /\ job \in [Jobs -> JobStates] /\ job[j] \in JobStates
      /\ xattr \in [Paths -> SUBSET Tags] /\ row \in [Paths -> Ids \cup {0}]
      /\ fileTags \in [Ids -> SUBSET Tags] /\ graph \in [Paths -> SUBSET Tags]
      /\ 0 \notin Ids /\ KindOK(job[j]) /\ KindOK(job'[j])
      /\ job'[j].path = q /\ job'[j].kind = job[j].kind /\ UNCHANGED exists
  BY RunSteps, Effects DEF RowInv, TypeOK, Same, Effect, Ids
<1>1. UNCHANGED <<row, fileTags>> => IndexTags(q)' = IndexTags(q)
  BY DEF IndexTags
\* A step that writes no store, to a phase that owes nothing more.
<1>2. ASSUME UNCHANGED <<xattr, row, fileTags, graph, apart, behind>>,
             job[j].at \notin {"apply", "setIndex", "reread", "setGraph", "graph"},
             job'[j].at \in {"done", "prepare", "asyncLookup", "read", "eval"},
             job[j].kind # "tag",
             job'[j].at \in {"read", "eval"} /\ job[j].kind = "async" =>
               job'[j].id = row[q] /\ row[q] # 0
      PROVE  Owing(job[j])'
  BY <1>0, <1>1, <1>2 DEF Owing, IndexAgrees, GraphHas
<1>3. CASE SyncReads(j)
  <2>1. /\ job[j].at = "sync" /\ UNCHANGED <<xattr, row, fileTags, graph, behind>>
        /\ job[j].kind # "tag"
    BY <1>0, <1>3 DEF SyncReads, stores, KindOK
  <2>2. CASE Goto(j, "done") /\ UNCHANGED apart
    <3>1. job'[j].at = "done"
      BY <1>0, <2>2 DEF Goto, JobStates
    <3> QED BY <1>2, <2>1, <2>2, <3>1
  <2>3. CASE Goto(j, "prepare") /\ UNCHANGED apart
    <3>1. job'[j].at = "prepare"
      BY <1>0, <2>3 DEF Goto, JobStates
    <3> QED BY <1>2, <2>1, <2>3, <3>1
  <2>4. CASE exists[q] /\ job' = [job EXCEPT ![j].at = "apply", ![j].tags = xattr[q]]
    <3>1. job'[j].at = "apply" /\ job'[j].tags = xattr[q]
      BY <1>0, <2>4 DEF JobStates
    <3> QED BY <1>0, <1>1, <2>1, <2>4, <3>1 DEF Owing, GraphHas
  <2> QED BY <1>3, <2>2, <2>3, <2>4 DEF SyncReads
<1>4. CASE SyncApplies(j)
  <2> DEFINE id == IF row[q] # 0 THEN row[q] ELSE NextId
  <2>1. /\ job[j].at = "apply" /\ row' = [row EXCEPT ![q] = id]
        /\ fileTags' = [fileTags EXCEPT ![id] = job[j].tags]
        /\ UNCHANGED <<xattr, graph>> /\ q \in behind'
    BY <1>4 DEF SyncApplies
  <2>2. id \in Ids
    <3>1. j \notin Synced
      BY <2>1 DEF Synced
    <3>2. NextId \in Ids
      BY <3>1, NewId
    <3> QED BY <1>0, <3>2
  <2> HIDE DEF id
  <2>3. IndexTags(q)' = job[j].tags
    <3>1. row'[q] = id /\ fileTags'[id] = job[j].tags /\ id # 0
      BY <1>0, <2>1, <2>2
    <3> QED BY <3>1 DEF IndexTags
  <2>4. job[j].tags = xattr[q]
    BY <2>1 DEF Owing
  <2>5. job'[j].at \in {"done", "prepare"} /\ job[j].kind # "tag"
    BY <1>0, <1>4, <2>1 DEF SyncApplies, Goto, JobStates, KindOK
  <2> QED BY <1>0, <2>1, <2>3, <2>4, <2>5 DEF Owing, IndexAgrees, GraphHas
<1>5. CASE RunPrepares(j)
  <2>1. /\ job[j].at = "prepare" /\ UNCHANGED <<xattr, row, fileTags, graph, apart, behind>>
        /\ job[j].kind # "tag"
    BY <1>0, <1>5 DEF RunPrepares, stores, history, KindOK
  <2>2. /\ job'[j].at \in {"done", "asyncLookup", "read"}
        /\ job[j].kind = "async" => job'[j].at # "read"
    BY <1>0, <1>5 DEF RunPrepares, Goto, JobStates
  <2> QED BY <1>2, <2>1, <2>2
<1>6. CASE AsyncLooksUp(j)
  <2>1. /\ job[j].at = "asyncLookup" /\ UNCHANGED <<xattr, row, fileTags, graph, apart, behind>>
        /\ job[j].kind # "tag"
    BY <1>0, <1>6 DEF AsyncLooksUp, stores, others, history, KindOK
  <2>2. job'[j].at = (IF row[q] = 0 THEN "done" ELSE "read") /\ job'[j].id = row[q]
    BY <1>0, <1>6 DEF AsyncLooksUp, JobStates
  <2> QED BY <1>2, <2>1, <2>2
<1>7. CASE RunReads(j)
  <2>1. /\ job[j].at = "read" /\ UNCHANGED <<xattr, row, fileTags, graph, apart, behind>>
        /\ job[j].kind # "tag"
    BY <1>0, <1>7 DEF RunReads, stores, others, history, KindOK
  <2>2. job'[j].at \in {"done", "eval"} /\ job'[j].id = job[j].id
    BY <1>0, <1>7 DEF RunReads, JobStates
  <2>3. job[j].kind = "async" => job[j].id = row[q] /\ row[q] # 0
    BY <2>1 DEF Owing
  <2> QED BY <1>2, <2>1, <2>2, <2>3
<1>8. CASE RunEvaluates(j)
  <2> DEFINE id == IF job[j].kind = "async" THEN job[j].id ELSE row[q]
             added == RuleTags[q] \ job[j].tags
             at == IF id = 0 \/ added = {} THEN "done" ELSE "write"
             all == job[j].tags \cup added
  <2>1. /\ job[j].at = "eval" /\ UNCHANGED <<xattr, row, fileTags, graph, apart, behind>>
        /\ job[j].kind # "tag"
    BY <1>0, <1>8 DEF RunEvaluates, stores, history, KindOK
  <2>2. \/ job' = [job EXCEPT ![j] = [job[j] EXCEPT !.at = at, !.id = id, !.tags = all]]
        \/ Goto(j, "done")
    BY <1>0, <1>8 DEF RunEvaluates
  <2>3. id = row[q]
    BY <2>1 DEF Owing
  <2>4. at = "done" \/ (at = "write" /\ id # 0)
    OBVIOUS
  <2> HIDE DEF id, at, all
  <2>5. job'[j].at = "done" \/ (job'[j].at = "write" /\ job'[j].id = row[q] /\ row[q] # 0)
    <3>1. CASE Goto(j, "done")
      BY <1>0, <3>1 DEF Goto, JobStates
    <3>2. CASE job' = [job EXCEPT ![j] = [job[j] EXCEPT !.at = at, !.id = id, !.tags = all]]
      <4>1. job'[j].at = at /\ job'[j].id = id
        BY <1>0, <3>2 DEF JobStates
      <4> QED BY <2>3, <2>4, <4>1
    <3> QED BY <2>2, <3>1, <3>2
  <2> QED BY <1>0, <1>1, <2>1, <2>5 DEF Owing, IndexAgrees, GraphHas
<1>9. CASE RunWrites(j)
  <2>1. /\ job[j].at = "write" /\ UNCHANGED <<row, fileTags, graph, apart, behind>>
        /\ job[j].kind # "tag" /\ job[j].id = row[q] /\ row[q] # 0
    BY <1>0, <1>9 DEF RunWrites, history, KindOK, Owing
  <2>2. CASE Goto(j, "done") /\ UNCHANGED xattr
    <3>1. job'[j].at = "done"
      BY <1>0, <2>2 DEF Goto, JobStates
    <3> QED BY <1>2, <2>1, <2>2, <3>1
  <2>3. CASE Goto(j, "setIndex") /\ xattr' = [xattr EXCEPT ![q] = job[j].tags]
    <3>1. /\ job'[j].at = "setIndex" /\ job'[j].tags = job[j].tags /\ job'[j].id = job[j].id
          /\ xattr'[q] = job[j].tags
      BY <1>0, <2>3 DEF Goto, JobStates
    <3> QED BY <1>0, <1>1, <2>1, <3>1 DEF Owing, GraphHas
  <2> QED BY <1>9, <2>2, <2>3 DEF RunWrites
<1>10. CASE RunSetsIndex(j)
  <2>1. /\ job[j].at = "setIndex" /\ UNCHANGED <<xattr, row, graph, apart>>
        /\ job[j].kind # "tag" /\ job[j].id = row[q] /\ row[q] \in Ids /\ job[j].tags = xattr[q]
    BY <1>0, <1>10 DEF RunSetsIndex, KindOK, Owing
  <2>2. Live(job[j].id)
    BY <1>0, <2>1 DEF Live
  <2>3. IndexTags(q)' = job[j].tags
    <3>1. fileTags' = [fileTags EXCEPT ![row[q]] = job[j].tags]
      BY <1>10, <2>1, <2>2 DEF RunSetsIndex
    <3>2. fileTags'[row[q]] = job[j].tags
      BY <1>0, <2>1, <3>1
    <3> QED BY <1>0, <2>1, <3>2 DEF IndexTags
  <2>4. /\ job'[j].tags = job[j].tags
        /\ job'[j].at = "graph" \/ (job'[j].at = "done" /\ q \in behind')
    BY <1>0, <1>10, <2>2 DEF RunSetsIndex, Goto, JobStates
  <2> QED BY <1>0, <2>1, <2>3, <2>4 DEF Owing, IndexAgrees, GraphHas
<1>11. CASE RunSetsGraph(j)
  <2>1. job[j].at = "graph" /\ job'[j].at = "done" /\ graph'[q] = job[j].tags
    BY <1>0, <1>11 DEF RunSetsGraph, Goto, JobStates
  <2>2. UNCHANGED <<xattr, row, fileTags, apart>> /\ job[j].kind # "tag"
    BY <1>0, <1>11, <2>1 DEF RunSetsGraph, KindOK
  <2> QED BY <1>0, <1>1, <2>1, <2>2 DEF Owing, IndexAgrees, GraphHas
<1>12. CASE Deletes(j)
  <2>1. job'[j].at = "done" /\ row'[q] = 0 /\ q \in behind'
    BY <1>0, <1>12 DEF Deletes, Goto, JobStates
  <2> QED BY <1>0, <2>1 DEF Owing, IndexAgrees, GraphHas
<1> QED BY <1>3, <1>4, <1>5, <1>6, <1>7, <1>8, <1>9, <1>10, <1>11, <1>12 DEF Run

LEMMA OneAtATimeStep ==
  ASSUME RowInv, Alone, OwnIds, OneAtATime, [Next]_vars
  PROVE  OneAtATime'
<1> SUFFICES ASSUME ~world.overlap
             PROVE  /\ \A p \in Paths : (\A j \in Jobs : Active(j)' => job'[j].path # p) =>
                                          IndexAgrees(p)' /\ GraphHas(p)'
                    /\ \A j \in Jobs : Active(j)' => Owing(job[j])'
  BY StepIs DEF OneAtATime
<1>0. /\ \A j, k \in Jobs : Active(j) /\ Active(k) => j = k
      /\ \A p \in Paths : (\A j \in Jobs : Active(j) => job[j].path # p) =>
                            IndexAgrees(p) /\ GraphHas(p)
      /\ \A j \in Jobs : Active(j) => Owing(job[j])
  BY DEF OneAtATime, Alone
<1>1. ASSUME NEW j \in Jobs, NEW q \in Paths, Starting(j, q)
      PROVE  /\ \A p \in Paths : (\A k \in Jobs : Active(k)' => job'[k].path # p) =>
                                   IndexAgrees(p)' /\ GraphHas(p)'
             /\ \A k \in Jobs : Active(k)' => Owing(job[k])'
  <2>1. Begins(j)
    BY <1>1, StartSteps
  <2>2. /\ Idle /\ UNCHANGED <<exists, xattr, row, fileTags, graph, apart, behind>>
        /\ \A k \in Jobs \ {j} : job'[k] = job[k]
    BY <2>1 DEF Begins, MayStart, stores, history
  <2>3. \A k \in Jobs : ~Active(k)
    BY <2>2 DEF Idle, Active, Started
  <2>4. \A p \in Paths : IndexAgrees(p)' /\ GraphHas(p)'
    BY <1>0, <2>2, <2>3 DEF IndexAgrees, GraphHas, IndexTags
  <2>5. Owing(job[j])'
    <3>1. job'[j].path \in Paths
      BY <2>1 DEF Begins
    <3> QED BY <2>1, <2>4, <3>1 DEF Begins, Owing
  <2>6. \A k \in Jobs \ {j} : ~Active(k)'
    BY <2>2, <2>3 DEF Active, Started, Finished
  <2> QED BY <2>4, <2>5, <2>6
<1>2. ASSUME NEW j \in Jobs, TagRequest(j) \/ Run(j)
      PROVE  /\ \A p \in Paths : (\A k \in Jobs : Active(k)' => job'[k].path # p) =>
                                   IndexAgrees(p)' /\ GraphHas(p)'
             /\ \A k \in Jobs : Active(k)' => Owing(job[k])'
  <2>1. Effect(j) /\ Same(j)
    BY <1>2, Effects, TagSteps, RunSteps
  <2>2. PICK q \in Paths : q = job[j].path
    BY <2>1 DEF Effect
  <2>3. /\ Active(j) /\ job'[j].path = q
        /\ \A k \in Jobs \ {j} : job'[k] = job[k]
    BY <2>1, <2>2 DEF Same
  <2>4. Owing(job[j])'
    BY <1>0, <1>2, <2>2, <2>3, OwingTagStep, OwingRunStep
  <2>5. \A k \in Jobs \ {j} : ~Active(k)'
    BY <1>0, <2>3 DEF Active, Started, Finished
  <2>6. ~Active(j)' => IndexAgrees(q)' /\ GraphHas(q)'
    <3>1. ~Active(j)' => job'[j].at \in {"done", "failed"}
      BY <2>1 DEF Active, Started, Finished, Same
    <3> QED BY <2>3, <2>4, <3>1 DEF Owing
  <2>7. ASSUME NEW p \in Paths, p # q PROVE IndexAgrees(p)' /\ GraphHas(p)'
    <3>1. IndexAgrees(p) /\ GraphHas(p)
      BY <1>0, <2>2, <2>3, <2>7
    <3>2. row'[p] = row[p] /\ IndexTags(p)' = IndexTags(p)
      <4>1. job[j].id \in {0, row[q]}
        BY <2>2, <2>3 DEF OwnIds, Undeleted
      <4>2. job[j].id # row[p] \/ row[p] = 0
        BY <2>7, <4>1 DEF RowInv, OneOwner
      <4> QED BY <2>1, <2>2, <2>7, <4>2, Aside
    <3>3. /\ xattr'[p] = xattr[p] /\ graph'[p] = graph[p] /\ exists' = exists
          /\ (p \in apart' <=> p \in apart) /\ (p \in behind' <=> p \in behind)
      BY <2>1, <2>2, <2>7 DEF Effect
    <3> QED BY <3>1, <3>2, <3>3 DEF IndexAgrees, GraphHas
  <2> QED BY <2>3, <2>4, <2>5, <2>6, <2>7
<1>3. CASE Reload \/ UNCHANGED vars
  <2>1. UNCHANGED <<exists, xattr, row, fileTags, graph, apart, behind, job>>
    BY <1>3 DEF Reload, vars, stores, history
  <2> QED BY <1>0, <2>1 DEF IndexAgrees, GraphHas, IndexTags, Owing, Active, Started, Finished
<1>4. ASSUME NEW q \in Paths, FileChanges(q)
      PROVE  /\ \A p \in Paths : (\A k \in Jobs : Active(k)' => job'[k].path # p) =>
                                   IndexAgrees(p)' /\ GraphHas(p)'
             /\ \A k \in Jobs : Active(k)' => Owing(job[k])'
  <2>1. Idle /\ UNCHANGED <<row, fileTags, graph, job, behind>> /\ apart' = apart \cup {q}
    BY <1>4 DEF FileChanges, MayStart
  <2>2. \A k \in Jobs : ~Active(k) /\ ~Active(k)'
    BY <2>1 DEF Idle, Active, Started, Finished
  <2>3. \A p \in Paths \ {q} : exists'[p] = exists[p] /\ xattr'[p] = xattr[p]
    BY <1>4 DEF FileChanges, RowInv, TypeOK
  <2>4. \A p \in Paths : GraphHas(p)' /\ IndexAgrees(p)'
    BY <1>0, <2>1, <2>2, <2>3 DEF IndexAgrees, GraphHas, IndexTags
  <2> QED BY <2>2, <2>4
<1> QED BY <1>1, <1>2, <1>3, <1>4, StepIs

LEMMA Serially == Spec => []OneAtATime
<1>1. Init => OneAtATime
  <2> SUFFICES ASSUME Init PROVE OneAtATime
    OBVIOUS
  <2>1. \A j \in Jobs : ~Active(j)
    BY RowsAtFirst DEF Active
  <2>2. \A p \in Paths : xattr[p] = {} /\ graph[p] = {} /\ IndexTags(p) = {}
    <3>1. \A p \in Paths : row[p] # 0 => row[p] \in Ids
      BY RowsAtFirst DEF RowInv, TypeOK
    <3> QED BY <3>1 DEF Init, IndexTags
  <2> QED BY <2>1, <2>2 DEF OneAtATime, IndexAgrees, GraphHas
<1>2. RowInv /\ Alone /\ OwnIds /\ OneAtATime /\ [Next]_vars => OneAtATime'
  BY OneAtATimeStep
<1> QED BY <1>1, <1>2, Ownership, PTL DEF Spec

\* Between operations that run one at a time, the index has the tags that
\* are in the xattrs of every file that is indexed, has not changed since
\* SyncFile read it, was not retagged in the mount and whose xattrs could be
\* written (index.go: SyncFileApply; handlers.go: handleTag; processor.go:
\* applyDiff).
THEOREM IndexAsXattrs == Spec => []StoresAgree
<1>1. OneAtATime => StoresAgree
  BY DEF OneAtATime, StoresAgree, Quiet, Idle, Active, Started, IndexAgrees
<1> QED BY <1>1, Serially, PTL

\* Between operations that run one at a time, the graph has the tags of the
\* index, unless the last writer leaves the graph alone (processor.go:
\* applyDiff; handlers.go: handleTag).
THEOREM GraphAsIndex == Spec => []GraphAgrees
<1>1. OneAtATime => GraphAgrees
  BY DEF OneAtATime, GraphAgrees, Quiet, Idle, Active, Started, GraphHas
<1> QED BY <1>1, Serially, PTL
=============================================================================
