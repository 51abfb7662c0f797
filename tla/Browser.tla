------------------------------ MODULE Browser ------------------------------
(***************************************************************************)
(* The file browser: BrowserNavigation.qml, the selection of               *)
(* BrowserFileOperations.qml and the handlers of BrowserWindow.qml, over   *)
(* the client of TilboDaemon.qml.  Every function runs to its end in the   *)
(* one thread of the interface; what it asks of the daemon is answered     *)
(* later, in a callback, and meanwhile the user goes on.  The daemon works *)
(* on each request in a goroutine of its own (server.go:201): answers and  *)
(* events arrive in any order, and the connection may break.               *)
(*                                                                         *)
(* An entry is a file with the tags shown at it.  Sorting, the contents of *)
(* the trash, statFile (which only refreshes size and time) and the calls  *)
(* of the sidebars are left out.  Rename, paste and the creation of files  *)
(* reload the directory in their callbacks as deletion does.               *)
(***************************************************************************)
EXTENDS Naturals, Sequences, FiniteSets, SequencesExt

CONSTANTS
  Dirs,       \* directories
  Root,       \* the one the window opens
  Files,      \* files
  DirOf,      \* the directory of each file
  Hidden,     \* files whose names begin with a dot
  Tags,       \* tags
  TagsAtFirst,  \* the tags of each file to begin with
  Globbed,    \* files that the glob patterns match
  Searches,   \* lists of chips: tags, whether there is a pattern, hidden:any
  Scenarios,  \* what is done together: operations, events and faults, with
              \* bounds on what the user asks for in all and at a time
  MaxEvents,  \* bound on events
  MaxFaults   \* bound on requests that fail and connections that break

Doings == {"go", "trash", "search", "hidden", "refresh", "select", "delete",
           "tags", "index", "show", "fail"}

ASSUME BrowserAssumption ==
  /\ Root \in Dirs /\ DirOf \in [Files -> Dirs]
  /\ TagsAtFirst \in [Files -> SUBSET Tags]
  /\ Hidden \subseteq Files /\ Globbed \subseteq Files
  /\ Searches \subseteq [tags : SUBSET Tags, glob : BOOLEAN, any : BOOLEAN]
  /\ \A s \in Scenarios : s.does \subseteq Doings /\ {s.calls, s.pending} \subseteq Nat
  /\ {MaxEvents, MaxFaults} \subseteq Nat

VARIABLES
  connected,      \* the state of the socket
  pending,        \* _pending: the calls whose callbacks have not run, by id
  nextID,         \* _nextID
  asked,          \* ids of requests the daemon works on
  wire,           \* answers and events, in the order they were made
  present,        \* files that exist
  tagsOf,         \* their tags in the index
  currentPath, hist, histIndex,                        \* where the user is
  showHidden, isSearchMode, isTrashView, searchChips,  \* and what is shown
  dirEntries,     \* the tags shown at each listed file
  searchResults,  \* the same of what a search has found
  selectedFile,   \* a file or None
  selectedMeta,   \* the file whose metadata is shown, or None
  scenario,       \* the one of this behaviour
  made,           \* calls the user has made
  events,         \* events so far
  faults,         \* requests that failed, connections lost
  loads,          \* history: how often something was loaded
  newest,         \* history: the newest load whose answer each list shows
  late,           \* history: lists an older load was answered for after that
  reordered       \* history: an answer or event has overtaken another

Does(what) == what \in scenario.does

None == "none"
NoEntries == [f \in {} |-> {}]
NoChips == [tags |-> {}, glob |-> FALSE, any |-> FALSE]
Lists == {"list", "hydrate", "search"}
CallKinds == {"list", "hydrate", "search", "glob", "trash", "meta", "delete"}
Entries == UNION {[d -> SUBSET Tags] : d \in SUBSET Files}

client == <<pending, nextID, asked>>
link == <<connected, faults>>
disk == <<present, tagsOf>>
place == <<currentPath, hist, histIndex>>
mode == <<isSearchMode, isTrashView, searchChips>>
selection == <<selectedFile, selectedMeta>>
observed == <<loads, newest, late>>
bounds == <<scenario, made, events>>
vars == <<client, link, wire, disk, place, mode, showHidden, dirEntries,
          searchResults, selection, bounds, observed, reordered>>

Call(kind) == [kind |-> kind, load |-> 0, dir |-> Root, hid |-> FALSE, files |-> {},
               chips |-> NoChips, sent |-> TRUE]

TypeOK ==
  /\ connected \in BOOLEAN
  /\ \A id \in DOMAIN pending :
       /\ id < nextID
       /\ pending[id].kind \in CallKinds /\ pending[id].dir \in Dirs
       /\ pending[id].files \subseteq Files
  /\ asked \subseteq DOMAIN pending
  /\ present \subseteq Files /\ tagsOf \in [Files -> SUBSET Tags]
  /\ currentPath \in Dirs /\ hist \in Seq(Dirs) /\ histIndex \in DOMAIN hist
  /\ {showHidden, isSearchMode, isTrashView} \subseteq BOOLEAN
  /\ searchChips \in Searches \cup {NoChips}
  /\ {dirEntries, searchResults} \subseteq Entries
  /\ {selectedFile, selectedMeta} \subseteq Files \cup {None}
  /\ made \in 0 .. scenario.calls /\ events \in 0 .. MaxEvents /\ faults \in 0 .. MaxFaults
  /\ loads \in Nat /\ newest \in [Lists -> 0 .. loads] /\ late \subseteq Lists

-----------------------------------------------------------------------------
(***************************************************************************)
(* TilboDaemon.qml.                                                        *)
(***************************************************************************)
\* Mutant: ids are counted from the calls that are pending.
RegisterReusesIds(waiting, c, busy) ==
  LET id == Cardinality(DOMAIN waiting) + 1
  IN  /\ pending' = [k \in DOMAIN waiting \cup {id} |->
                       IF k = id THEN [c EXCEPT !.sent = connected] ELSE waiting[k]]
      /\ asked' = IF connected THEN busy \cup {id} ELSE busy
      /\ nextID' = nextID + 1

\* _call: the callback is registered even when nothing can be sent.  waiting
\* are the calls that are still pending, before this one.
Register(waiting, c, busy) ==
  /\ pending' = [id \in DOMAIN waiting \cup {nextID} |->
                   IF id = nextID THEN [c EXCEPT !.sent = connected] ELSE waiting[id]]
  /\ asked' = IF connected THEN busy \cup {nextID} ELSE busy
  /\ nextID' = nextID + 1

\* A call that begins a load.
Load(waiting, c) ==
  /\ Register(waiting, [c EXCEPT !.load = loads + 1], asked)
  /\ loads' = loads + 1

\* What the user does.
MayAsk == made < scenario.calls /\ Cardinality(DOMAIN pending) < scenario.pending

Ask(c) ==
  /\ MayAsk
  /\ made' = made + 1
  /\ Load(pending, c)
  /\ UNCHANGED <<link, wire, disk, newest, late, reordered, scenario, events>>

\* An answer to load n is applied to a list.
Applied(list, n) ==
  /\ newest' = [newest EXCEPT ![list] = n]
  /\ late' = IF n < newest[list] THEN late \cup {list} ELSE late

-----------------------------------------------------------------------------
(***************************************************************************)
(* BrowserNavigation.qml.                                                  *)
(***************************************************************************)
ListDir(d) == [Call("list") EXCEPT !.dir = d, !.hid = showHidden]

Leave ==
  /\ isSearchMode' = FALSE /\ searchChips' = NoChips
  /\ selectedFile' = None /\ selectedMeta' = None

\* The entries ahead of the current one are forgotten.
Visit(d) ==
  LET kept == SubSeq(hist, 1, histIndex)
  IN  /\ Leave /\ isTrashView' = FALSE
      /\ IF hist[histIndex] = d THEN UNCHANGED <<hist, histIndex>>
         ELSE hist' = Append(kept, d) /\ histIndex' = Len(kept) + 1
      /\ currentPath' = d

\* Also goUp, goHome, a place in the sidebar, and a search without chips.
navigateTo(d) ==
  /\ Visit(d)
  /\ Ask(ListDir(d))
  /\ UNCHANGED <<showHidden, dirEntries, searchResults>>

GoTo(i) ==
  /\ i \in DOMAIN hist
  /\ histIndex' = i
  /\ Leave /\ isTrashView' = FALSE
  /\ currentPath' = hist[i]
  /\ Ask(ListDir(hist[i]))
  /\ UNCHANGED <<hist, showHidden, dirEntries, searchResults>>

goBack == GoTo(histIndex - 1)
goForward == GoTo(histIndex + 1)

navigateToTrash ==
  /\ Leave /\ isTrashView' = TRUE
  /\ Ask(Call("trash"))
  /\ UNCHANGED <<place, showHidden, dirEntries, searchResults>>

\* Mutant: the chip hidden:any is overlooked.
SearchCallDropsAny(chips, hid) ==
  [Call(IF chips.tags # {} THEN "search" ELSE "glob") EXCEPT !.chips = chips, !.hid = hid]

\* _executeSearch: tags first, a pattern only without them.
SearchCall(chips, hid) ==
  [Call(IF chips.tags # {} THEN "search" ELSE "glob")
     EXCEPT !.chips = chips, !.hid = hid \/ chips.any]
Searchable(chips) == chips.tags # {} \/ chips.glob

ExecuteSearch(chips, hid) ==
  IF Searchable(chips)
  THEN Ask(SearchCall(chips, hid)) /\ UNCHANGED searchResults
  ELSE /\ searchResults' = NoEntries
       /\ Applied("search", loads + 1) /\ loads' = loads + 1
       /\ MayAsk /\ made' = made + 1
       /\ UNCHANGED <<client, link, wire, disk, reordered, scenario, events>>

executeSearch(chips) ==
  /\ isSearchMode' = TRUE /\ searchChips' = chips
  /\ ExecuteSearch(chips, showHidden)
  /\ UNCHANGED <<place, isTrashView, showHidden, dirEntries, selection>>

\* The shortcut for hidden files; in the trash nothing is loaded.
toggleHidden ==
  /\ showHidden' = ~showHidden
  /\ CASE isSearchMode -> ExecuteSearch(searchChips, ~showHidden)
       [] ~isSearchMode /\ ~isTrashView ->
            Ask([ListDir(currentPath) EXCEPT !.hid = ~showHidden]) /\ UNCHANGED searchResults
       [] OTHER -> UNCHANGED <<client, link, wire, disk, observed, reordered, bounds, searchResults>>
  /\ UNCHANGED <<place, mode, dirEntries, selection>>

refresh ==
  /\ CASE isTrashView -> Ask(Call("trash")) /\ UNCHANGED searchResults
       [] isSearchMode /\ ~isTrashView -> ExecuteSearch(searchChips, showHidden)
       [] OTHER -> Ask(ListDir(currentPath)) /\ UNCHANGED searchResults
  /\ UNCHANGED <<place, mode, showHidden, dirEntries, selection>>

-----------------------------------------------------------------------------
(***************************************************************************)
(* BrowserFileOperations.qml.                                              *)
(***************************************************************************)
activeEntries == IF isSearchMode THEN searchResults ELSE dirEntries

selectFile(f) ==
  /\ ~isTrashView /\ f \in DOMAIN activeEntries
  /\ selectedFile' = f /\ selectedMeta' = None
  /\ Ask([Call("meta") EXCEPT !.files = {f}])
  /\ UNCHANGED <<place, mode, showHidden, dirEntries, searchResults>>

deleteSelected ==
  /\ selectedFile # None
  /\ Ask([Call("delete") EXCEPT !.files = {selectedFile}])
  /\ UNCHANGED <<place, mode, showHidden, dirEntries, searchResults, selection>>

-----------------------------------------------------------------------------
(***************************************************************************)
(* The daemon.                                                             *)
(***************************************************************************)
Tagged(fs) == [f \in fs |-> tagsOf[f]]
Found(c) ==
  CASE c.kind = "list" -> [f \in {g \in present : DirOf[g] = c.dir /\ (g \in Hidden => c.hid)} |-> {}]
    [] c.kind = "hydrate" -> Tagged(c.files)
    [] c.kind = "search" -> Tagged({g \in present : c.chips.tags \subseteq tagsOf[g]})
    [] c.kind = "glob" -> [f \in {g \in present \cap Globbed : g \in Hidden => c.hid} |-> {}]
    [] OTHER -> NoEntries

Message(kind) == [kind |-> kind, id |-> 0, ok |-> TRUE, call |-> Call("trash"),
                  entries |-> NoEntries, dir |-> Root, file |-> None,
                  added |-> {}, removed |-> {}]

Answer(id) ==
  LET c == pending[id]
  IN  /\ id \in asked
      /\ asked' = asked \ {id}
      /\ \E ok \in BOOLEAN :
           /\ faults' = IF ok THEN faults ELSE faults + 1
           /\ faults' <= MaxFaults /\ (~ok => Does("fail"))
           /\ wire' = Append(wire, [Message("answer") EXCEPT
                !.id = id, !.ok = ok, !.call = c,
                !.entries = IF ok THEN Found(c) ELSE NoEntries])
           /\ present' = IF ok /\ c.kind = "delete" THEN present \ c.files ELSE present
      /\ UNCHANGED <<connected, pending, nextID, tagsOf, place, mode, showHidden, dirEntries,
                     searchResults, selection, bounds, observed, reordered>>

Event(message) ==
  /\ events < MaxEvents
  /\ events' = events + 1
  /\ wire' = IF connected THEN Append(wire, message) ELSE wire
  /\ UNCHANGED <<client, link, present, place, mode, showHidden, dirEntries, searchResults,
                 selection, scenario, made, observed, reordered>>

ChangeTags(f, tags) ==
  /\ f \in present /\ tags # tagsOf[f]
  /\ tagsOf' = [tagsOf EXCEPT ![f] = tags]
  /\ Event([Message("fileTagged") EXCEPT !.file = f, !.added = tags \ tagsOf[f],
                                         !.removed = tagsOf[f] \ tags])

UpdateIndex == Event(Message("indexUpdated")) /\ UNCHANGED tagsOf
ShowWindow(d) == Event([Message("showWindow") EXCEPT !.dir = d]) /\ UNCHANGED tagsOf

-----------------------------------------------------------------------------
(***************************************************************************)
(* Callbacks and handlers of events.                                       *)
(***************************************************************************)
Others(id) == [k \in DOMAIN pending \ {id} |-> pending[k]]
ReturnOnly(id) == pending' = Others(id) /\ UNCHANGED <<nextID, asked>>

Handle(i) ==
  /\ connected /\ i \in DOMAIN wire
  /\ wire' = RemoveAt(wire, i)
  /\ reordered' = (reordered \/ i # 1)
  /\ UNCHANGED <<link, disk, bounds, showHidden>>

\* _handleLine finds the callback by the id.
Answered(i, kind) ==
  /\ Handle(i)
  /\ wire[i].kind = "answer" /\ wire[i].id \in DOMAIN pending
  /\ pending[wire[i].id].kind = kind

\* The callback of _loadDirectory looks at no path.
ListAnswered(i) ==
  LET m == wire[i]
      c == pending[m.id]
  IN  /\ Answered(i, "list")
      /\ dirEntries' = m.entries
      /\ Applied("list", c.load) /\ UNCHANGED loads
      /\ IF DOMAIN m.entries = {} THEN ReturnOnly(m.id)
         ELSE Register(Others(m.id), [Call("hydrate") EXCEPT !.load = c.load,
                                        !.files = DOMAIN m.entries], asked)
      /\ UNCHANGED <<place, mode, searchResults, selection>>

\* Every entry takes the tags that came for its path, or none.
Hydrated(shown, tagged) ==
  [f \in DOMAIN shown |-> IF f \in DOMAIN tagged THEN tagged[f] ELSE {}]

HydrateAnswered(i) ==
  LET m == wire[i]
  IN  /\ Answered(i, "hydrate")
      /\ ReturnOnly(m.id)
      /\ dirEntries' = IF m.ok THEN Hydrated(dirEntries, m.entries) ELSE dirEntries
      /\ Applied("hydrate", pending[m.id].load) /\ UNCHANGED loads
      /\ UNCHANGED <<place, mode, searchResults, selection>>

\* A search that has found nothing is followed by the pattern.
SearchAnswered(i) ==
  LET m == wire[i]
      c == pending[m.id]
  IN  /\ Answered(i, "search")
      /\ IF DOMAIN m.entries = {} /\ c.chips.glob
         THEN /\ Register(Others(m.id), [c EXCEPT !.kind = "glob"], asked)
              /\ UNCHANGED <<searchResults, observed>>
         ELSE /\ ReturnOnly(m.id)
              /\ searchResults' = m.entries
              /\ Applied("search", c.load) /\ UNCHANGED loads
      /\ UNCHANGED <<place, mode, dirEntries, selection>>

GlobAnswered(i) ==
  LET m == wire[i]
  IN  /\ Answered(i, "glob")
      /\ ReturnOnly(m.id)
      /\ searchResults' = m.entries
      /\ Applied("search", pending[m.id].load) /\ UNCHANGED loads
      /\ UNCHANGED <<place, mode, dirEntries, selection>>

TrashAnswered(i) ==
  /\ Answered(i, "trash")
  /\ ReturnOnly(wire[i].id)
  /\ UNCHANGED <<place, mode, dirEntries, searchResults, selection, observed>>

\* Mutant: the answer is taken for the file selected now.
MetaAnsweredUnchecked(i) ==
  LET m == wire[i]
  IN  /\ Answered(i, "meta")
      /\ ReturnOnly(m.id)
      /\ selectedMeta' = IF m.ok THEN CHOOSE f \in m.call.files : TRUE ELSE selectedMeta
      /\ UNCHANGED <<place, mode, dirEntries, searchResults, selectedFile, observed>>

\* The answer counts only while its file is selected.
MetaAnswered(i) ==
  LET m == wire[i]
  IN  /\ Answered(i, "meta")
      /\ ReturnOnly(m.id)
      /\ selectedMeta' = IF m.ok /\ {selectedFile} = m.call.files THEN selectedFile
                         ELSE selectedMeta
      /\ UNCHANGED <<place, mode, dirEntries, searchResults, selectedFile, observed>>

\* Mutant: nothing is loaded after a deletion.
DeleteAnsweredKeepsList(i) ==
  /\ Answered(i, "delete")
  /\ ReturnOnly(wire[i].id)
  /\ UNCHANGED <<place, mode, dirEntries, searchResults, selection, observed>>

\* refreshNeeded or trashRefreshNeeded follows.
DeleteAnswered(i) ==
  LET m == wire[i]
  IN  /\ Answered(i, "delete")
      /\ IF m.ok
         THEN /\ Load(Others(m.id), IF isTrashView THEN Call("trash") ELSE ListDir(currentPath))
              /\ selectedFile' = IF {selectedFile} = m.call.files THEN None ELSE selectedFile
         ELSE ReturnOnly(m.id) /\ UNCHANGED <<selectedFile, loads>>
      /\ UNCHANGED <<place, mode, dirEntries, searchResults, selectedMeta, newest, late>>

\* Mutant: tags that were removed stay.
PatchedAdds(shown, m) ==
  IF m.file \in DOMAIN shown THEN [shown EXCEPT ![m.file] = @ \cup m.added] ELSE shown

\* _patchEntryTags returns at the first list that has the file.
Patched(shown, m) ==
  IF m.file \in DOMAIN shown
  THEN [shown EXCEPT ![m.file] = (@ \cup m.added) \ m.removed] ELSE shown

onFileTagged(i) ==
  LET m == wire[i]
  IN  /\ Handle(i) /\ m.kind = "fileTagged"
      /\ dirEntries' = Patched(dirEntries, m)
      /\ searchResults' = IF m.file \in DOMAIN dirEntries THEN searchResults
                          ELSE Patched(searchResults, m)
      /\ UNCHANGED <<client, place, mode, selection, observed>>

onIndexUpdated(i) ==
  /\ Handle(i) /\ wire[i].kind = "indexUpdated"
  /\ CASE isSearchMode /\ Searchable(searchChips) ->
            /\ Load(pending, SearchCall(searchChips, showHidden))
            /\ UNCHANGED <<searchResults, newest, late>>
       [] isSearchMode /\ ~Searchable(searchChips) ->
            /\ searchResults' = NoEntries
            /\ Applied("search", loads + 1) /\ loads' = loads + 1
            /\ UNCHANGED client
       [] OTHER -> UNCHANGED <<client, searchResults, observed>>
  /\ UNCHANGED <<place, mode, dirEntries, selection>>

onShowWindow(i) ==
  /\ Handle(i) /\ wire[i].kind = "showWindow"
  /\ Visit(wire[i].dir)
  /\ Load(pending, ListDir(wire[i].dir))
  /\ UNCHANGED <<dirEntries, searchResults, newest, late>>

\* onConnectionStateChanged: every pending callback gets an error; those of
\* searches with a pattern make a call, which nothing can send.
Failed(kinds) == {id \in DOMAIN pending : pending[id].kind \in kinds}
Falling == {id \in Failed({"search"}) : pending[id].chips.glob}
Rank(id) == Cardinality({k \in Falling : k < id})

\* Mutant: the calls stay registered.
DisconnectKeepsPending ==
  /\ connected /\ faults < MaxFaults /\ Does("fail")
  /\ connected' = FALSE /\ faults' = faults + 1
  /\ asked' = {} /\ wire' = <<>>
  /\ UNCHANGED <<pending, nextID, dirEntries, searchResults, disk, place, mode, showHidden,
                 selection, bounds, observed, reordered>>

Disconnect ==
  /\ connected /\ faults < MaxFaults /\ Does("fail")
  /\ connected' = FALSE /\ faults' = faults + 1
  /\ asked' = {} /\ wire' = <<>>
  /\ pending' = [n \in {nextID + Rank(id) : id \in Falling} |->
                   [pending[CHOOSE id \in Falling : nextID + Rank(id) = n]
                      EXCEPT !.kind = "glob", !.sent = FALSE]]
  /\ nextID' = nextID + Cardinality(Falling)
  /\ dirEntries' = IF Failed({"list"}) # {} THEN NoEntries ELSE dirEntries
  /\ searchResults' = IF Failed({"search", "glob"}) \ Falling # {} THEN NoEntries ELSE searchResults
  /\ UNCHANGED <<disk, place, mode, showHidden, selection, bounds, observed, reordered>>

\* _reconnectTimer, when the daemon is there.
Reconnect ==
  /\ ~connected
  /\ connected' = TRUE
  /\ UNCHANGED <<client, wire, faults, disk, place, mode, showHidden, dirEntries,
                 searchResults, selection, bounds, observed, reordered>>

-----------------------------------------------------------------------------
\* The window has opened and asked for its first directory.
Init ==
  /\ connected = TRUE
  /\ pending = [id \in {1} |-> [Call("list") EXCEPT !.dir = Root, !.load = 1]]
  /\ nextID = 2 /\ asked = {1} /\ wire = <<>>
  /\ present = Files /\ tagsOf = TagsAtFirst
  /\ currentPath = Root /\ hist = <<Root>> /\ histIndex = 1
  /\ showHidden = FALSE /\ isSearchMode = FALSE /\ isTrashView = FALSE
  /\ searchChips = NoChips
  /\ dirEntries = NoEntries /\ searchResults = NoEntries
  /\ selectedFile = None /\ selectedMeta = None
  /\ scenario \in Scenarios /\ made = 0 /\ events = 0 /\ faults = 0
  /\ loads = 1 /\ newest = [l \in Lists |-> 0] /\ late = {} /\ reordered = FALSE

User ==
  \/ Does("go") /\ ((\E d \in Dirs : navigateTo(d)) \/ goBack \/ goForward)
  \/ Does("trash") /\ navigateToTrash
  \/ Does("search") /\ \E chips \in Searches : executeSearch(chips)
  \/ Does("hidden") /\ toggleHidden
  \/ Does("refresh") /\ refresh
  \/ Does("select") /\ \E f \in Files : selectFile(f)
  \/ Does("delete") /\ deleteSelected

Daemon ==
  \/ Does("tags") /\ \E f \in Files, tags \in SUBSET Tags : ChangeTags(f, tags)
  \/ Does("index") /\ UpdateIndex
  \/ Does("show") /\ \E d \in Dirs : ShowWindow(d)

Answers == \E id \in asked : Answer(id)

Deliver ==
  \E i \in DOMAIN wire :
    \/ ListAnswered(i) \/ HydrateAnswered(i) \/ SearchAnswered(i) \/ GlobAnswered(i)
    \/ TrashAnswered(i) \/ MetaAnswered(i) \/ DeleteAnswered(i)
    \/ onFileTagged(i) \/ onIndexUpdated(i) \/ onShowWindow(i)

Next == User \/ Daemon \/ Answers \/ Deliver \/ Disconnect \/ Reconnect

Spec == Init /\ [][Next]_vars

\* The daemon answers in the end, and what has arrived is handled.
FairSpec == Spec /\ WF_vars(Answers) /\ WF_vars(Deliver)

-----------------------------------------------------------------------------
(***************************************************************************)
(* Properties.                                                             *)
(***************************************************************************)
\* An answer reaches the callback of the call it answers, although ids of
\* calls made without a connection stay registered past the next one.
OwnAnswer ==
  \A i \in DOMAIN wire :
    wire[i].kind = "answer" /\ wire[i].id \in DOMAIN pending =>
      pending[wire[i].id] = wire[i].call

Awaiting(kinds, list) ==
  \E id \in DOMAIN pending : pending[id].kind \in kinds /\ pending[id].load > newest[list]
Deleting == \E id \in DOMAIN pending : pending[id].kind = "delete"

\* Unless an older load was answered after a newer one, the directory on
\* screen is the one the history names, whatever went back, forward and on from
\* there, and while nothing has failed it shows the files that are there.
ShowsCurrentPath ==
  ~isSearchMode /\ ~isTrashView /\ "list" \notin late /\ ~Awaiting({"list"}, "list") =>
    /\ \A f \in DOMAIN dirEntries : DirOf[f] = hist[histIndex] /\ (f \in Hidden => showHidden)
    /\ faults = 0 /\ ~Deleting =>
         DOMAIN dirEntries = {f \in present : DirOf[f] = currentPath /\ (f \in Hidden => showHidden)}

\* The same of searches: the results are those of the chips on screen.
Matches(chips) == {f \in present : chips.tags # {} /\ chips.tags \subseteq tagsOf[f]}
ShowsSearch ==
  /\ isSearchMode /\ "search" \notin late /\ ~Awaiting({"search", "glob"}, "search")
  /\ faults = 0 /\ events = 0 /\ present = Files
  => DOMAIN searchResults =
       IF Matches(searchChips) # {} \/ ~searchChips.glob THEN Matches(searchChips)
       ELSE {f \in Globbed : f \in Hidden => showHidden \/ searchChips.any}

\* When answers and events come in order and nothing fails, a directory ends
\* up with the tags the index has, however changes fell between the two
\* requests that load it.
TagsCurrent ==
  /\ ~reordered /\ faults = 0 /\ wire = <<>> /\ late = {}
  /\ ~Awaiting({"list"}, "list") /\ ~Awaiting({"hydrate"}, "hydrate")
  => \A f \in DOMAIN dirEntries : dirEntries[f] = tagsOf[f]

\* The properties panel never shows the metadata of another file than the one
\* selected, however late it comes.
MetadataOfSelected == selectedMeta # None /\ selectedFile # None => selectedMeta = selectedFile

\* Every call that was sent gets its callback, from its answer or from the
\* loss of the connection.
AllCalledBack == <>[](\A id \in DOMAIN pending : ~pending[id].sent)
=============================================================================
