------------------------------- MODULE Rules -------------------------------
(***************************************************************************)
(* The rules that tag files: the rule files and the inline rules of        *)
(* config.toml on disk, the engine that holds them (engine.go), how it is  *)
(* loaded again (registry.go; SIGHUP in the event loop, ReloadRules on a   *)
(* goroutine of its own), the sweep that follows (sweep.go), files that    *)
(* are processed meanwhile (processor.go), and the pins of the browser,    *)
(* which write config.toml from the copy the daemon read when it started   *)
(* (browser_handlers.go, config.go: Save).                                 *)
(*                                                                         *)
(* A rule is a model value with a priority and the tags it gives; every    *)
(* rule matches every file (matching is a function of metadata).  Places   *)
(* and searches are both pins.  Tags are those of the xattrs: TagFlow has  *)
(* the other stores, and the steps of a tag request, which is one here.    *)
(***************************************************************************)
EXTENDS Integers, Sequences, FiniteSets, SequencesExt

CONSTANTS
  Paths,        \* indexed files
  Rules, Tags,
  Gives,        \* the tags each rule gives
  Priority,     \* of each rule
  Broken,       \* definitions without a name
  Flaky,        \* rules whose evaluation may fail
  FileRules,    \* the rules that may be in the rule directories, a file each
  InlineLists,  \* the lists of rules a user may have in config.toml
  Pins,         \* places and searches
  Jobs,         \* what will run, each once
  Kinds,        \* the kinds of job there are, a subset of AllKinds
  MaxEdits      \* bound on what the user edits or untags

AllKinds == {"hup", "reload", "event", "pin", "unpin"}

ASSUME RulesAssumption ==
  /\ Gives \in [Rules -> SUBSET Tags] /\ Priority \in [Rules -> Int]
  /\ Broken \subseteq Rules /\ Flaky \subseteq Rules /\ FileRules \subseteq Rules
  /\ << >> \in InlineLists /\ \A list \in InlineLists : list \in Seq(Rules)
  /\ IsFiniteSet(Rules) /\ "garbled" \notin Rules
ASSUME JobsAssumption == Kinds \subseteq AllKinds /\ MaxEdits \in Nat

VARIABLES
  ruleFiles,  \* the rule files in the directories
  config,     \* config.toml: [inline, pins], or Garbled
  engine,     \* Engine.rules
  cfg,        \* daemonBrowserMethods.cfg, read once
  tags,       \* user.tags of each file
  job,        \* per job: what it is, where it is, what it has read
  edits,      \* what the user did so far
  disturbed,  \* history: the disk changed while rules were being loaded
  loaded,     \* history: what was on disk when they last had been, or Unknown
  raced,      \* history: a file's tags changed between a job's read and write
  crossed,    \* history: something overlapped a pin
  asked,      \* history: the pins that requests asked for
  removed     \* history: tags the user removed from files

vars == <<ruleFiles, config, engine, cfg, tags, job, edits, disturbed, loaded,
          raced, crossed, asked, removed>>
disk == <<ruleFiles, config>>
history == <<disturbed, loaded, raced, crossed, asked, removed>>

Empty == [inline |-> << >>, pins |-> {}]
Garbled == [inline |-> <<"garbled">>, pins |-> {}]
Unknown == [files |-> {}, inline |-> <<"unknown">>]
Configs == [inline : InlineLists, pins : SUBSET Pins]

Loading(j) == job[j].at \in {"list", "files", "inline"}
Tagging(j) == job[j].at \in {"sweep", "eval", "write"}
Pinning(j) == job[j].at \in {"append", "truncate", "save"}
Idle == \A j \in Jobs : job[j].at \in {"new", "done"}

NoPath == CHOOSE p \in Paths : TRUE
NoPin == CHOOSE x \in Pins : TRUE
Blank == [kind |-> "event", at |-> "new", rules |-> << >>, paths |-> {},
          path |-> NoPath, was |-> {}, source |-> << >>, fired |-> {},
          copy |-> Empty, pin |-> NoPin]

-----------------------------------------------------------------------------
(***************************************************************************)
(* Engine                                                                  *)
(***************************************************************************)

RegisteredLast(rules, r) == Append(rules, r)

(* Register: append and sort by ascending priority (an insertion sort, so  *)
(* stable, for up to twelve rules).                                        *)
Registered(rules, r) ==
  LET place == Cardinality({i \in DOMAIN rules : Priority[rules[i]] <= Priority[r]})
  IN InsertAt(rules, place + 1, r)

(* registerDefs rejects a definition without a name and skips one without  *)
(* tags.                                                                   *)
Tagged(r) == Gives[r] # {}
Valid(r) == r \notin Broken /\ Tagged(r)

(* A definition without a name ends the list it is in: those before it     *)
(* stay registered.                                                        *)
Usable(list) ==
  {list[i] : i \in {k \in DOMAIN list : /\ Tagged(list[k])
                                       /\ \A h \in 1 .. k : list[h] \notin Broken}}

(* Eval over a copy of the rules, those in failing left out: the last rule *)
(* to give a tag is its source.                                            *)
Sources(rules, has, failing) ==
  LET firing == {i \in DOMAIN rules : rules[i] \notin failing}
      added == (UNION {Gives[rules[i]] : i \in firing}) \ has
  IN [t \in added |-> rules[Max({i \in firing : t \in Gives[rules[i]]})]]

(* What the rules of a disk add up to.                                     *)
Expected(l) == {r \in l.files : Valid(r)} \cup Usable(l.inline)

Ascending(rules) ==
  \A i, k \in DOMAIN rules : i <= k => Priority[rules[i]] <= Priority[rules[k]]

Init ==
  /\ ruleFiles \in SUBSET FileRules
  /\ config \in {c \in Configs : c.pins = {}}
  /\ cfg = config
  /\ loaded = [files |-> ruleFiles, inline |-> config.inline]
  /\ engine \in {rules \in SetToSeqs(Expected(loaded)) : Ascending(rules)}
  /\ tags = [p \in Paths |-> UNION {Gives[r] : r \in ToSet(engine)}]
  /\ job = [j \in Jobs |-> Blank] /\ edits = 0
  /\ disturbed = FALSE /\ raced = FALSE /\ crossed = FALSE
  /\ asked = {} /\ removed = {}

-----------------------------------------------------------------------------
(***************************************************************************)
(* The user (external): rule files come and go, an editor replaces         *)
(* config.toml, a tag is removed from a file                               *)
(***************************************************************************)

Edit == edits < MaxEdits /\ edits' = edits + 1
Disturbs == disturbed' = (disturbed \/ \E j \in Jobs : Loading(j))

EditRules ==
  /\ Edit
  /\ \E files \in SUBSET FileRules : files # ruleFiles /\ ruleFiles' = files
  /\ Disturbs
  /\ UNCHANGED <<config, engine, cfg, tags, job, loaded, raced, crossed, asked,
                 removed>>

EditConfig ==
  /\ Edit /\ config # Garbled
  /\ \E list \in InlineLists :
       list # config.inline /\ config' = [config EXCEPT !.inline = list]
  /\ Disturbs
  /\ crossed' = (crossed \/ \E j \in Jobs : Pinning(j))
  /\ UNCHANGED <<ruleFiles, engine, cfg, tags, job, loaded, raced, asked, removed>>

(* handleTag with the operation remove; nothing is written to              *)
(* tag_overrides, here or elsewhere.                                       *)
RemoveTag(p, t) ==
  /\ Edit /\ t \in tags[p]
  /\ tags' = [tags EXCEPT ![p] = @ \ {t}]
  /\ removed' = removed \cup {<<p, t>>}
  /\ UNCHANGED <<disk, engine, cfg, job, disturbed, loaded, raced, crossed, asked>>

-----------------------------------------------------------------------------
(***************************************************************************)
(* Loading the rules again                                                 *)
(***************************************************************************)

(* The event loop does one thing at a time.                                *)
LoopFree ==
  \A j \in Jobs : /\ job[j].kind = "hup" => ~Loading(j)
                  /\ job[j].kind = "event" => ~Tagging(j)

KeepsRules(rules) == rules
Cleared(rules) == << >>

(* reloadConfig or the ReloadRules request: engine.Reset.                  *)
StartReload(j, kind) ==
  /\ job[j].at = "new" /\ kind \in Kinds \cap {"hup", "reload"}
  /\ kind = "hup" => LoopFree
  /\ engine' = Cleared(engine)
  /\ job' = [job EXCEPT ![j] = [@ EXCEPT !.kind = kind, !.at = "list"]]
  /\ disturbed' = (disturbed /\ \E k \in Jobs : Loading(k))
  /\ loaded' = Unknown
  /\ UNCHANGED <<disk, cfg, tags, edits, raced, crossed, asked, removed>>

(* Registry.Load reads the directories.                                    *)
ListRules(j) ==
  /\ job[j].at = "list"
  /\ \E order \in SetToSeqs(ruleFiles) :
       job' = [job EXCEPT ![j].at = "files", ![j].rules = order]
  /\ UNCHANGED <<disk, engine, cfg, tags, edits, history>>

(* A file that has gone or does not parse is skipped.                      *)
LoadFile(j) ==
  LET r == Head(job[j].rules) IN
  /\ job[j].at = "files" /\ job[j].rules # << >>
  /\ engine' = IF r \in ruleFiles /\ Valid(r) THEN Registered(engine, r) ELSE engine
  /\ job' = [job EXCEPT ![j].rules = Tail(@)]
  /\ UNCHANGED <<disk, cfg, tags, edits, history>>

(* config.Load: a file just truncated is a configuration without rules,    *)
(* one that does not parse an error, which the response reports.           *)
LoadConfig(j) ==
  /\ job[j].at = "files" /\ job[j].rules = << >>
  /\ job' = [job EXCEPT ![j].at = "inline",
               ![j].rules = IF config = Garbled THEN << >> ELSE config.inline]
  /\ UNCHANGED <<disk, engine, cfg, tags, edits, history>>

LoadInline(j) ==
  LET r == Head(job[j].rules) IN
  /\ job[j].at = "inline" /\ job[j].rules # << >>
  /\ engine' = IF Valid(r) THEN Registered(engine, r) ELSE engine
  /\ job' = [job EXCEPT ![j].rules = IF r \in Broken THEN << >> ELSE Tail(@)]
  /\ UNCHANGED <<disk, cfg, tags, edits, history>>

OnDisk == [files |-> ruleFiles,
           inline |-> IF config = Garbled THEN << >> ELSE config.inline]

(* The sweep starts on a goroutine of its own and lists the indexed files. *)
StartSweep(j) ==
  /\ job[j].at = "inline" /\ job[j].rules = << >>
  /\ job' = [job EXCEPT ![j].at = "sweep", ![j].paths = Paths]
  /\ loaded' = IF disturbed \/ \E k \in Jobs \ {j} : Loading(k) THEN Unknown
               ELSE OnDisk
  /\ UNCHANGED <<disk, engine, cfg, tags, edits, disturbed, raced, crossed,
                 asked, removed>>

-----------------------------------------------------------------------------
(***************************************************************************)
(* sweepFile, processFile                                                  *)
(***************************************************************************)

StartEvent(j, p) ==
  /\ job[j].at = "new" /\ "event" \in Kinds /\ LoopFree
  /\ job' = [job EXCEPT ![j] = [@ EXCEPT !.at = "sweep", !.paths = {p}]]
  /\ UNCHANGED <<disk, engine, cfg, tags, edits, history>>

(* The next file: ReadTags, before the harvesters run.                     *)
ReadFile(j) ==
  /\ job[j].at = "sweep"
  /\ \/ /\ job[j].paths = {}
        /\ job' = [job EXCEPT ![j].at = "done"]
     \/ \E p \in job[j].paths :
          job' = [job EXCEPT ![j].at = "eval", ![j].path = p,
                             ![j].paths = @ \ {p}, ![j].was = tags[p]]
  /\ UNCHANGED <<disk, engine, cfg, tags, edits, history>>

(* Engine.Eval, over a copy of the rules made under the lock.              *)
Evaluate(j) ==
  /\ job[j].at = "eval"
  /\ \E failing \in SUBSET Flaky :
       LET source == Sources(engine, job[j].was, failing) IN
       job' = [job EXCEPT ![j].at = IF DOMAIN source = {} THEN "sweep" ELSE "write",
                          ![j].source = source,
                          ![j].fired = ToSet(engine) \ failing]
  /\ UNCHANGED <<disk, engine, cfg, tags, edits, history>>

OnlyAdded(was, source) == DOMAIN source
NewTags(was, source) == was \cup DOMAIN source

(* WriteTags: the tags read, and those the rules add.                      *)
WriteFile(j) ==
  LET b == job[j] IN
  /\ b.at = "write"
  /\ tags' = [tags EXCEPT ![b.path] = NewTags(b.was, b.source)]
  /\ raced' = (raced \/ tags[b.path] # b.was)
  /\ job' = [job EXCEPT ![j].at = "sweep", ![j].source = << >>, ![j].fired = {}]
  /\ UNCHANGED <<disk, engine, cfg, edits, disturbed, loaded, crossed, asked,
                 removed>>

-----------------------------------------------------------------------------
(***************************************************************************)
(* PinPlace, UnpinPlace, PinSearch, UnpinSearch: each a request on a       *)
(* goroutine of its own, none takes a lock                                 *)
(***************************************************************************)

(* The slice in memory is read (UnpinPlace saves also when there was no    *)
(* such place) ...                                                         *)
StartPin(j, kind, x) ==
  /\ job[j].at = "new" /\ kind \in Kinds \cap {"pin", "unpin"}
  /\ job' = [job EXCEPT ![j] = [@ EXCEPT !.kind = kind, !.at = "append",
                                         !.pin = x, !.copy = cfg]]
  /\ crossed' = (crossed \/ \E k \in Jobs : Pinning(k))
  /\ UNCHANGED <<disk, engine, cfg, tags, edits, disturbed, loaded, raced,
                 asked, removed>>

Changed(pins, kind, x) == IF kind = "pin" THEN pins \cup {x} ELSE pins \ {x}

(* ... and replaced: of two at once, one is lost.                          *)
ChangePins(j) ==
  LET b == job[j] IN
  /\ b.at = "append"
  /\ cfg' = [cfg EXCEPT !.pins = Changed(b.copy.pins, b.kind, b.pin)]
  /\ asked' = Changed(asked, b.kind, b.pin)
  /\ job' = [job EXCEPT ![j].at = "truncate"]
  /\ UNCHANGED <<disk, engine, tags, edits, disturbed, loaded, raced, crossed,
                 removed>>

SavedAsRead(j) == job[j].copy
SavedConfig(j) == cfg

(* config.Save takes the configuration by value and opens the file with    *)
(* O_TRUNC ...                                                             *)
TruncateConfig(j) ==
  /\ job[j].at = "truncate"
  /\ config' = Empty
  /\ job' = [job EXCEPT ![j].at = "save", ![j].copy = SavedConfig(j)]
  /\ Disturbs
  /\ UNCHANGED <<ruleFiles, engine, cfg, tags, edits, loaded, raced, crossed,
                 asked, removed>>

(* ... and writes it from offset zero, over what another wrote meanwhile,  *)
(* of which a longer tail stays.  (An editor writes in place, too.)        *)
SaveConfig(j) ==
  /\ job[j].at = "save"
  /\ \/ config' = job[j].copy
     \/ config \notin {Empty, job[j].copy} /\ config' = Garbled
  /\ job' = [job EXCEPT ![j].at = "done", ![j].copy = Empty]
  /\ Disturbs
  /\ UNCHANGED <<ruleFiles, engine, cfg, tags, edits, loaded, raced, crossed,
                 asked, removed>>

-----------------------------------------------------------------------------
User == EditRules \/ EditConfig \/ \E p \in Paths, t \in Tags : RemoveTag(p, t)

Next ==
  \/ User
  \/ \E j \in Jobs :
       \/ \E kind \in {"hup", "reload"} : StartReload(j, kind)
       \/ ListRules(j) \/ LoadFile(j) \/ LoadConfig(j) \/ LoadInline(j)
       \/ StartSweep(j)
       \/ \E p \in Paths : StartEvent(j, p)
       \/ ReadFile(j) \/ Evaluate(j) \/ WriteFile(j)
       \/ \E kind \in {"pin", "unpin"}, x \in Pins : StartPin(j, kind, x)
       \/ ChangePins(j) \/ TruncateConfig(j) \/ SaveConfig(j)

Spec == Init /\ [][Next]_vars

-----------------------------------------------------------------------------
(***************************************************************************)
(* Properties                                                              *)
(***************************************************************************)

Phases == {"new", "list", "files", "inline", "sweep", "eval", "write", "append",
           "truncate", "save", "done"}
Attributions == UNION {[given -> Rules] : given \in SUBSET Tags}
JobStates ==
  [kind : AllKinds, at : Phases, rules : Seq(Rules), paths : SUBSET Paths,
   path : Paths \cup {NoPath}, was : SUBSET Tags, source : Attributions,
   fired : SUBSET Rules, copy : Configs, pin : Pins \cup {NoPin}]

TypeOK ==
  /\ ruleFiles \subseteq FileRules
  /\ config \in Configs \cup {Garbled} /\ cfg \in Configs
  /\ engine \in Seq(Rules)
  /\ tags \in [Paths -> SUBSET Tags] /\ edits \in 0 .. MaxEdits
  /\ job \in [Jobs -> JobStates]
  /\ \A j \in Jobs : /\ job[j].at \in {"eval", "write"} => job[j].path \in Paths
                     /\ job[j].at = "append" => job[j].pin \in Pins
  /\ loaded \in [files : SUBSET FileRules, inline : InlineLists] \cup {Unknown}
  /\ {disturbed, raced, crossed} \subseteq BOOLEAN
  /\ asked \subseteq Pins /\ removed \subseteq Paths \X Tags

(* When the last reload under way has loaded its rules, the engine holds   *)
(* those on disk and no other, however many reloads overlapped, unless the *)
(* disk changed meanwhile.  (README: SIGHUP or reload-rules "reloads all   *)
(* rule files".)                                                           *)
RulesAfterReload == loaded # Unknown => ToSet(engine) = Expected(loaded)

(* A tag about to be written is attributed to a rule of the highest        *)
(* priority among those that gave it, also by an engine half loaded.       *)
(* (engine.go: "the highest-priority (last-evaluated) rule wins the source *)
(* attribution".)                                                          *)
HighestIsSource ==
  \A j \in Jobs : job[j].at = "write" =>
    \A t \in DOMAIN job[j].source, r \in job[j].fired :
      t \in Gives[r] => Priority[r] <= Priority[job[j].source[t]]

Certain == {r \in ToSet(engine) : r \notin Flaky}

(* When everything has ended every file has the tags of the rules that     *)
(* were loaded last, also if it was processed while the engine was empty   *)
(* or half loaded, unless the user removed the tag or two writers of one   *)
(* file overlapped.  (rules/doc.go: the sweep re-evaluates "all indexed    *)
(* files in the background after rule reload".)                            *)
SweptUpToDate ==
  Idle /\ loaded # Unknown /\ ~raced =>
    \A p \in Paths : \A r \in Certain : \A t \in Gives[r] :
      t \in tags[p] \/ <<p, t>> \in removed

(* Once the pins are done config.toml and the daemon's memory hold the     *)
(* pins asked for, whatever reloads ran, unless two overlapped or the file *)
(* was edited during one.                                                  *)
PinsSaved ==
  (\A j \in Jobs : ~Pinning(j)) /\ ~crossed =>
    config # Garbled /\ config.pins = asked /\ cfg.pins = asked

(* A rule does not give a tag back to a file the user removed it from.     *)
(* (README: "If you manually remove a rule-applied tag, that override is   *)
(* recorded. The rule will not reapply the tag until you clear the         *)
(* override.")                                                             *)
OverrideRespected == \A r \in removed : r[2] \notin tags[r[1]]
=============================================================================
