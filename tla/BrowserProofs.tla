--------------------------- MODULE BrowserProofs ---------------------------
(***************************************************************************)
(* Why answers reach their own callbacks, and why what the browser shows   *)
(* belongs to where the user is, for any directories, files, tags and      *)
(* searches and any number of calls, events and faults.                    *)
(***************************************************************************)
EXTENDS Browser, SequenceTheorems, FiniteSetTheorems, TLAPS

\* Calls, and messages of the daemon.
CallStates ==
  [kind : CallKinds, load : Nat, dir : Dirs, hid : BOOLEAN, files : SUBSET Files,
   chips : Searches \cup {NoChips}, sent : BOOLEAN]
Messages ==
  [kind : {"answer", "fileTagged", "indexUpdated", "showWindow"}, id : Nat, ok : BOOLEAN,
   call : CallStates, entries : Entries, dir : Dirs, file : Files \cup {None},
   added : SUBSET Tags, removed : SUBSET Tags]

\* What is registered and asked: an id is given once.
Registered ==
  /\ nextID \in Nat \ {0} /\ loads \in Nat
  /\ DOMAIN pending \subseteq 1 .. nextID - 1 /\ pending \in [DOMAIN pending -> CallStates]
  /\ \A id \in DOMAIN pending : pending[id].load <= loads
  /\ asked \subseteq DOMAIN pending

\* An answer on its way is asked for no more.
OnWire ==
  /\ wire \in Seq(Messages)
  /\ \A i \in DOMAIN wire : wire[i].kind = "answer" =>
       /\ wire[i].id \in 1 .. nextID - 1 /\ wire[i].id \notin asked
       /\ ~wire[i].ok => faults # 0

\* Where the user is, what is shown, the daemon's files and the bounds.
Placed ==
  /\ currentPath \in Dirs /\ hist \in Seq(Dirs) /\ histIndex \in 1 .. Len(hist)
  /\ currentPath = hist[histIndex]

Shown ==
  /\ showHidden \in BOOLEAN /\ isSearchMode \in BOOLEAN /\ isTrashView \in BOOLEAN
  /\ searchChips \in Searches \cup {NoChips}
  /\ dirEntries \in Entries /\ searchResults \in Entries
  /\ selectedFile \in Files \cup {None} /\ selectedMeta \in Files \cup {None}

Stored ==
  /\ connected \in BOOLEAN
  /\ present \subseteq Files /\ tagsOf \in [Files -> SUBSET Tags]

Bounded ==
  /\ scenario \in Scenarios /\ made \in 0 .. scenario.calls
  /\ events \in 0 .. MaxEvents /\ faults \in 0 .. MaxFaults
  /\ newest \in [Lists -> 0 .. loads] /\ late \subseteq Lists

Window == Placed /\ Shown /\ Stored /\ Bounded

BrowserInv == Registered /\ OnWire /\ OwnAnswer /\ Window

-----------------------------------------------------------------------------
(***************************************************************************)
(* Calls and answers                                                       *)
(***************************************************************************)

\* The calls there are, and what may be changed of one.
LEMMA Calling ==
  /\ \A kind \in CallKinds :
       /\ Call(kind) \in CallStates /\ Call(kind).kind = kind
  /\ \A c \in CallStates :
       /\ \A n \in Nat : LET e == [c EXCEPT !.load = n] IN
            e \in CallStates /\ e.load = n /\ e.kind = c.kind /\ e.dir = c.dir /\ e.hid = c.hid
              /\ e.files = c.files /\ e.chips = c.chips
       /\ \A x \in BOOLEAN : LET e == [c EXCEPT !.sent = x] IN
            e \in CallStates /\ e.load = c.load /\ e.kind = c.kind /\ e.dir = c.dir /\ e.hid = c.hid
              /\ e.files = c.files /\ e.chips = c.chips
       /\ \A fs \in SUBSET Files : LET e == [c EXCEPT !.files = fs] IN
            e \in CallStates /\ e.load = c.load /\ e.kind = c.kind
       /\ [c EXCEPT !.kind = "glob"] \in CallStates
<1>1. \A kind \in CallKinds : Call(kind) \in CallStates /\ Call(kind).kind = kind
  BY BrowserAssumption DEF Call, CallStates
<1>2. "glob" \in CallKinds
  BY DEF CallKinds
<1> QED BY <1>1, <1>2 DEF CallStates

\* What _call, a returned callback and the connection do to what is
\* registered: each call is an old one or has a new id.
Renewed ==
  /\ nextID' \in Nat /\ nextID <= nextID' /\ loads' \in Nat /\ loads <= loads'
  /\ pending' \in [DOMAIN pending' -> CallStates]
  /\ \A id \in DOMAIN pending' :
       \/ id \in DOMAIN pending /\ pending'[id] = pending[id]
       \/ id \in nextID .. nextID' - 1 /\ pending'[id].load <= loads'
  /\ asked' \subseteq DOMAIN pending'
  /\ \A id \in asked' : id \in asked \/ id \in nextID .. nextID' - 1

\* ... and each message is an old one, an event, or the answer to a call that
\* was asked for until then.
Messaged ==
  /\ wire' \in Seq(Messages)
  /\ \A i \in DOMAIN wire' :
       \/ \E j \in DOMAIN wire : wire'[i] = wire[j]
       \/ wire'[i].kind # "answer"
       \/ /\ wire'[i].id \in asked \ asked' /\ wire'[i].call = pending[wire'[i].id]
          /\ ~wire'[i].ok => faults' # 0

LEMMA Corresponding ==
  ASSUME Registered, OnWire, OwnAnswer, Renewed, Messaged, faults # 0 => faults' # 0
  PROVE  Registered' /\ OnWire' /\ OwnAnswer'
<1>1. Registered'
  <2>1. DOMAIN pending' \subseteq 1 .. nextID' - 1
    <3>1. ASSUME NEW id \in DOMAIN pending' PROVE id \in 1 .. nextID' - 1
      <4>1. CASE id \in DOMAIN pending
        BY <4>1 DEF Registered, Renewed
      <4>2. CASE id \in nextID .. nextID' - 1
        BY <4>2 DEF Registered, Renewed
      <4> QED BY <4>1, <4>2 DEF Renewed
    <3> QED BY <3>1
  <2>2. ASSUME NEW id \in DOMAIN pending' PROVE pending'[id].load <= loads'
    <3>1. CASE id \in DOMAIN pending /\ pending'[id] = pending[id]
      <4>1. pending[id].load <= loads /\ pending[id].load \in Nat /\ loads \in Nat /\ loads' \in Nat /\ loads <= loads'
        BY <3>1 DEF Registered, Renewed, CallStates
      <4> QED BY <3>1, <4>1
    <3> QED BY <3>1 DEF Renewed
  <2> QED BY <2>1, <2>2 DEF Registered, Renewed
<1>2. OnWire' /\ OwnAnswer'
  <2> SUFFICES ASSUME NEW i \in DOMAIN wire', wire'[i].kind = "answer"
               PROVE  /\ wire'[i].id \in 1 .. nextID' - 1 /\ wire'[i].id \notin asked'
                      /\ ~wire'[i].ok => faults' # 0
                      /\ wire'[i].id \in DOMAIN pending' => pending'[wire'[i].id] = wire'[i].call
    BY DEF OnWire, OwnAnswer, Messaged
  <2>1. CASE \E j \in DOMAIN wire : wire'[i] = wire[j]
    <3>1. PICK j \in DOMAIN wire : wire'[i] = wire[j]
      BY <2>1
    <3> DEFINE id == wire[j].id
    <3>2. /\ id \in 1 .. nextID - 1 /\ id \notin asked /\ (~wire[j].ok => faults # 0)
          /\ id \in DOMAIN pending => pending[id] = wire[j].call
      BY <3>1 DEF OnWire, OwnAnswer
    <3> HIDE DEF id
    <3>3. id \notin nextID .. nextID' - 1 /\ id \in 1 .. nextID' - 1
      BY <3>2 DEF Registered, Renewed
    <3> QED BY <3>1, <3>2, <3>3 DEF Renewed, id
  <2>2. CASE /\ wire'[i].id \in asked \ asked' /\ wire'[i].call = pending[wire'[i].id]
             /\ ~wire'[i].ok => faults' # 0
    <3> DEFINE id == wire'[i].id
    <3>1. id \in DOMAIN pending /\ id \in 1 .. nextID - 1
      BY <2>2 DEF Registered
    <3> HIDE DEF id
    <3>2. id \notin nextID .. nextID' - 1 /\ id \in 1 .. nextID' - 1
      BY <3>1 DEF Registered, Renewed
    <3> QED BY <2>2, <3>1, <3>2 DEF Renewed, id
  <2> QED BY <2>1, <2>2 DEF Messaged
<1> QED BY <1>1, <1>2

\* Nothing arrives that was not on its way.
NothingNew ==
  wire' \in Seq(Messages) /\ \A i \in DOMAIN wire' : \E j \in DOMAIN wire : wire'[i] = wire[j]

LEMMA SameWire ==
  ASSUME OnWire, UNCHANGED wire
  PROVE  NothingNew
BY DEF OnWire, NothingNew

LEMMA Removing ==
  ASSUME OnWire, NEW i \in DOMAIN wire, wire' = RemoveAt(wire, i)
  PROVE  /\ NothingNew
         /\ DOMAIN wire' = 1 .. Len(wire) - 1
         /\ \A k \in DOMAIN wire' : wire'[k] = IF k < i THEN wire[k] ELSE wire[k + 1]
<1> DEFINE before == SubSeq(wire, 1, i - 1)
           after == SubSeq(wire, i + 1, Len(wire))
<1>1. wire \in Seq(Messages) /\ i \in 1 .. Len(wire) /\ Len(wire) \in Nat
  BY DEF OnWire
<1>2. before \in Seq(Messages) /\ Len(before) = i - 1 /\ \A k \in 1 .. i - 1 : before[k] = wire[k]
  BY <1>1
<1>3. /\ after \in Seq(Messages) /\ Len(after) = Len(wire) - i
      /\ \A k \in 1 .. Len(wire) - i : after[k] = wire[i + k]
  BY <1>1
<1>4. wire' = before \o after
  BY DEF RemoveAt
<1> HIDE DEF before, after
<1>5. /\ wire' \in Seq(Messages) /\ DOMAIN wire' = 1 .. Len(wire) - 1
      /\ \A k \in 1 .. Len(wire) - 1 : wire'[k] = IF k < i THEN before[k] ELSE after[k - (i - 1)]
  <2>1. /\ before \o after \in Seq(Messages)
        /\ Len(before \o after) = Len(before) + Len(after)
        /\ \A k \in 1 .. Len(before) + Len(after) :
             (before \o after)[k] = IF k <= Len(before) THEN before[k] ELSE after[k - Len(before)]
    BY <1>2, <1>3, ConcatProperties
  <2>2. Len(before) + Len(after) = Len(wire) - 1 /\ \A k \in Nat : k <= Len(before) <=> k < i
    BY <1>1, <1>2, <1>3
  <2>3. DOMAIN wire' = 1 .. Len(wire')
    BY <1>4, <2>1
  <2> QED BY <1>1, <1>2, <1>4, <2>1, <2>2, <2>3
<1>6. ASSUME NEW k \in 1 .. Len(wire) - 1
      PROVE  /\ wire'[k] = IF k < i THEN wire[k] ELSE wire[k + 1]
             /\ k \in DOMAIN wire /\ k + 1 \in DOMAIN wire
  <2>1. CASE k < i
    BY <1>1, <1>2, <1>5, <2>1
  <2>2. CASE k >= i
    <3>1. k - (i - 1) \in 1 .. Len(wire) - i /\ i + (k - (i - 1)) = k + 1 /\ k + 1 \in DOMAIN wire
      BY <1>1, <2>2
    <3>2. wire'[k] = after[k - (i - 1)] /\ after[k - (i - 1)] = wire[i + (k - (i - 1))]
      BY <1>1, <1>3, <1>5, <2>2, <3>1
    <3>3. ~(k < i) /\ k \in DOMAIN wire
      BY <1>1, <2>2
    <3> QED BY <3>1, <3>2, <3>3
  <2> QED BY <1>1, <2>1, <2>2
<1> QED BY <1>5, <1>6 DEF NothingNew

\* A call is registered, beside those that are still pending.
Beside(waiting) ==
  /\ DOMAIN waiting \subseteq DOMAIN pending /\ asked \subseteq DOMAIN waiting
  /\ \A id \in DOMAIN waiting : waiting[id] = pending[id]

Adds(waiting, c, n) ==
  /\ DOMAIN pending' = DOMAIN waiting \cup {nextID} /\ nextID \notin DOMAIN waiting
  /\ \A id \in DOMAIN waiting : pending'[id] = pending[id]
  /\ pending'[nextID].load = n /\ pending'[nextID].kind = c.kind
  /\ pending'[nextID].dir = c.dir /\ pending'[nextID].hid = c.hid
  /\ pending'[nextID].files = c.files /\ pending'[nextID].chips = c.chips

LEMMA Registering ==
  ASSUME Registered, connected \in BOOLEAN, NEW waiting, Beside(waiting), NEW c \in CallStates,
         Register(waiting, c, asked), c.load <= loads', loads' \in Nat, loads <= loads'
  PROVE  Renewed /\ Adds(waiting, c, c.load)
<1> DEFINE e == [c EXCEPT !.sent = connected]
<1>1. /\ e \in CallStates /\ e.load = c.load /\ e.kind = c.kind /\ e.dir = c.dir /\ e.hid = c.hid
      /\ e.files = c.files /\ e.chips = c.chips
  BY Calling
<1>2. /\ pending' = [id \in DOMAIN waiting \cup {nextID} |-> IF id = nextID THEN e ELSE waiting[id]]
      /\ nextID' = nextID + 1 /\ asked' \subseteq asked \cup {nextID}
  BY DEF Register
<1> HIDE DEF e
<1>3. nextID \notin DOMAIN pending /\ nextID \in nextID .. nextID' - 1 /\ nextID' \in Nat
  BY <1>2 DEF Registered
<1>4. /\ DOMAIN pending' = DOMAIN waiting \cup {nextID} /\ nextID \notin DOMAIN waiting
      /\ pending'[nextID] = e /\ \A id \in DOMAIN waiting : pending'[id] = pending[id]
  BY <1>2, <1>3 DEF Beside
<1>5. pending' \in [DOMAIN pending' -> CallStates]
  <2>1. \A id \in DOMAIN pending' : pending'[id] \in CallStates
    BY <1>1, <1>4 DEF Beside, Registered
  <2> HIDE DEF e
  <2> QED BY <1>2, <2>1
<1>6. nextID <= nextID' /\ e.load <= loads'
  BY <1>1, <1>2, <1>3 DEF Registered
<1> QED BY <1>1, <1>2, <1>3, <1>4, <1>5, <1>6 DEF Renewed, Beside, Adds

LEMMA Loading ==
  ASSUME Registered, connected \in BOOLEAN, NEW waiting, Beside(waiting), NEW c \in CallStates,
         Load(waiting, c)
  PROVE  Renewed /\ Adds(waiting, c, loads + 1) /\ loads' = loads + 1
<1> DEFINE e == [c EXCEPT !.load = loads + 1]
<1>1. /\ e \in CallStates /\ e.load = loads + 1 /\ e.kind = c.kind /\ e.dir = c.dir /\ e.hid = c.hid
      /\ e.files = c.files /\ e.chips = c.chips
  <2>1. loads + 1 \in Nat
    BY DEF Registered
  <2> QED BY <2>1, Calling
<1>2. Register(waiting, e, asked) /\ loads' = loads + 1 /\ loads' \in Nat /\ loads <= loads'
  BY DEF Load, Registered
<1> HIDE DEF e
<1>3. Renewed /\ Adds(waiting, e, e.load)
  BY <1>1, <1>2, Registering
<1> QED BY <1>1, <1>2, <1>3 DEF Adds

LEMMA Alongside ==
  ASSUME Registered
  PROVE  /\ Beside(pending)
         /\ \A id \in DOMAIN pending \ asked :
              Beside(Others(id)) /\ DOMAIN Others(id) = DOMAIN pending \ {id}
BY DEF Registered, Beside, Others

\* A callback returns.
LEMMA Returning ==
  ASSUME Registered, NEW id \in DOMAIN pending \ asked, ReturnOnly(id), loads' \in Nat, loads <= loads'
  PROVE  /\ Renewed /\ DOMAIN pending' = DOMAIN pending \ {id}
         /\ \A k \in DOMAIN pending' : pending'[k] = pending[k]
<1>1. /\ pending' = [k \in DOMAIN pending \ {id} |-> pending[k]]
      /\ UNCHANGED <<nextID, asked>>
  BY DEF ReturnOnly, Others
<1>2. \A k \in DOMAIN pending : pending[k] \in CallStates
  BY DEF Registered
<1> QED BY <1>1, <1>2 DEF Registered, Renewed

LEMMA Unasked ==
  ASSUME Registered, UNCHANGED client, loads' \in Nat, loads <= loads'
  PROVE  Renewed
BY DEF Registered, Renewed, client

-----------------------------------------------------------------------------
(***************************************************************************)
(* What is shown                                                           *)
(***************************************************************************)
LEMMA EntriesAre ==
  /\ \A fs \in SUBSET Files : [fs -> SUBSET Tags] \subseteq Entries
  /\ \A x \in Entries : DOMAIN x \in SUBSET Files /\ x \in [DOMAIN x -> SUBSET Tags]
BY DEF Entries

LEMMA Nothing ==
  NoEntries \in Entries /\ DOMAIN NoEntries = {}
<1>1. {} \in SUBSET Files /\ NoEntries \in [{} -> SUBSET Tags] /\ DOMAIN NoEntries = {}
  BY DEF NoEntries
<1> QED BY <1>1, EntriesAre

\* What the daemon finds, and what events and hydration make of a list.
LEMMA Finding ==
  ASSUME Stored, NEW c \in CallStates
  PROVE  Found(c) \in Entries
<1>1. \A fs \in SUBSET Files : /\ [f \in fs |-> {}] \in Entries
                               /\ Tagged(fs) \in Entries
  <2>1. ASSUME NEW fs \in SUBSET Files PROVE [f \in fs |-> {}] \in Entries /\ Tagged(fs) \in Entries
    <3>1. [f \in fs |-> {}] \in [fs -> SUBSET Tags] /\ Tagged(fs) \in [fs -> SUBSET Tags]
      BY DEF Stored, Tagged
    <3> QED BY <3>1, EntriesAre
  <2> QED BY <2>1
<1>2. c.files \in SUBSET Files /\ present \subseteq Files
  BY DEF Stored, CallStates
<1>3. CASE c.kind = "list"
  <2>1. {g \in present : DirOf[g] = c.dir /\ (g \in Hidden => c.hid)} \in SUBSET Files
    BY <1>2
  <2> QED BY <1>1, <1>3, <2>1 DEF Found
<1>4. CASE c.kind = "hydrate"
  BY <1>1, <1>2, <1>4 DEF Found
<1>5. CASE c.kind = "search"
  <2>1. {g \in present : c.chips.tags \subseteq tagsOf[g]} \in SUBSET Files
    BY <1>2
  <2> QED BY <1>1, <1>5, <2>1 DEF Found
<1>6. CASE c.kind = "glob"
  <2>1. {g \in present \cap Globbed : g \in Hidden => c.hid} \in SUBSET Files
    BY <1>2
  <2> QED BY <1>1, <1>6, <2>1 DEF Found
<1>7. CASE c.kind \notin {"list", "hydrate", "search", "glob"}
  BY <1>7, Nothing DEF Found
<1> QED BY <1>3, <1>4, <1>5, <1>6, <1>7

LEMMA Patching ==
  ASSUME NEW shown \in Entries, NEW m \in Messages
  PROVE  Patched(shown, m) \in Entries /\ DOMAIN Patched(shown, m) = DOMAIN shown
<1>1. DOMAIN shown \in SUBSET Files /\ shown \in [DOMAIN shown -> SUBSET Tags]
  BY EntriesAre
<1>2. m.added \in SUBSET Tags
  BY DEF Messages
<1>3. /\ Patched(shown, m) \in [DOMAIN shown -> SUBSET Tags]
      /\ DOMAIN Patched(shown, m) = DOMAIN shown
  BY <1>1, <1>2 DEF Patched
<1> QED BY <1>1, <1>3, EntriesAre

LEMMA Hydrating ==
  ASSUME NEW shown \in Entries, NEW tagged \in Entries
  PROVE  Hydrated(shown, tagged) \in Entries /\ DOMAIN Hydrated(shown, tagged) = DOMAIN shown
<1>1. DOMAIN shown \in SUBSET Files /\ tagged \in [DOMAIN tagged -> SUBSET Tags]
  BY EntriesAre
<1>2. /\ Hydrated(shown, tagged) \in [DOMAIN shown -> SUBSET Tags]
      /\ DOMAIN Hydrated(shown, tagged) = DOMAIN shown
  BY <1>1 DEF Hydrated
<1> QED BY <1>1, <1>2, EntriesAre

\* Visiting a directory, going back and forward.
LEMMA Visiting ==
  ASSUME Placed, NEW d \in Dirs, Visit(d)
  PROVE  Placed' /\ currentPath' = d
<1> DEFINE kept == SubSeq(hist, 1, histIndex)
<1>1. kept \in Seq(Dirs) /\ Len(kept) = histIndex /\ hist \in Seq(Dirs) /\ histIndex \in 1 .. Len(hist)
  BY DEF Placed
<1>2. CASE hist[histIndex] = d
  BY <1>1, <1>2 DEF Visit, Placed
<1>3. CASE hist[histIndex] # d
  <2>1. hist' = Append(kept, d) /\ histIndex' = Len(kept) + 1 /\ currentPath' = d
    BY <1>3 DEF Visit
  <2> HIDE DEF kept
  <2>2. /\ hist' \in Seq(Dirs) /\ Len(hist') = Len(kept) + 1 /\ hist'[Len(kept) + 1] = d
        /\ Len(kept) \in Nat
    BY <1>1, <2>1, AppendProperties
  <2>3. histIndex' \in 1 .. Len(hist') /\ hist'[histIndex'] = d
    BY <2>1, <2>2
  <2> QED BY <2>1, <2>2, <2>3 DEF Placed
<1> QED BY <1>2, <1>3

LEMMA Going ==
  ASSUME Placed, NEW i \in DOMAIN hist, histIndex' = i, currentPath' = hist[i], hist' = hist
  PROVE  Placed'
BY DEF Placed

-----------------------------------------------------------------------------
(***************************************************************************)
(* Steps                                                                   *)
(***************************************************************************)

\* The user asks for something.
LEMMA Asking ==
  ASSUME BrowserInv, NEW c \in CallStates, Ask(c)
  PROVE  /\ Renewed /\ Adds(pending, c, loads + 1) /\ loads' = loads + 1 /\ NothingNew
         /\ Stored' /\ Bounded'
         /\ UNCHANGED <<present, tagsOf, newest, late, faults, events>>
<1>1. UNCHANGED <<connected, faults, wire, present, tagsOf, newest, late, scenario, events>>
  BY DEF Ask, link, disk
<1>2. /\ Renewed /\ Adds(pending, c, loads + 1) /\ loads' = loads + 1
  BY Alongside, Loading DEF Ask, BrowserInv, Window, Stored
<1>3. NothingNew
  BY <1>1, SameWire DEF BrowserInv
<1>4. Stored'
  BY <1>1 DEF BrowserInv, Window, Stored
<1>5. made' \in 0 .. scenario.calls
  <2>1. made < scenario.calls /\ made' = made + 1 /\ scenario.calls \in Nat /\ made \in 0 .. scenario.calls
    BY BrowserAssumption DEF Ask, MayAsk, BrowserInv, Window, Bounded
  <2> QED BY <2>1
<1>6. newest' \in [Lists -> 0 .. loads']
  BY <1>1, <1>2 DEF BrowserInv, Window, Bounded, Registered
<1> QED BY <1>1, <1>2, <1>3, <1>4, <1>5, <1>6 DEF BrowserInv, Window, Bounded

\* A search is executed, or shows nothing when its chips name nothing.
LEMMA Searching ==
  ASSUME BrowserInv, NEW chips \in Searches \cup {NoChips}, NEW hid \in BOOLEAN, ExecuteSearch(chips, hid)
  PROVE  /\ Renewed /\ loads' = loads + 1 /\ NothingNew /\ Stored' /\ Bounded'
         /\ UNCHANGED <<present, tagsOf, faults, events>>
         /\ searchResults' \in Entries
         /\ IF Searchable(chips)
            THEN Adds(pending, SearchCall(chips, hid), loads + 1) /\ UNCHANGED <<newest, late, searchResults>>
            ELSE /\ UNCHANGED <<pending, asked, nextID>> /\ newest' = [newest EXCEPT !["search"] = loads + 1]
                 /\ searchResults' = NoEntries
                 /\ \A l \in Lists \ {"search"} : l \in late' <=> l \in late
<1>1. CASE Searchable(chips)
  <2>1. SearchCall(chips, hid) \in CallStates
    <3> DEFINE c == Call(IF chips.tags # {} THEN "search" ELSE "glob")
    <3>1. c \in CallStates
      BY Calling DEF CallKinds
    <3>2. SearchCall(chips, hid) = [c EXCEPT !.chips = chips, !.hid = hid \/ chips.any]
      BY DEF SearchCall
    <3> HIDE DEF c
    <3>3. (hid \/ chips.any) \in BOOLEAN
      OBVIOUS
    <3> QED BY <3>1, <3>2, <3>3 DEF CallStates
  <2>2. Ask(SearchCall(chips, hid)) /\ UNCHANGED searchResults
    BY <1>1 DEF ExecuteSearch
  <2> QED BY <1>1, <2>1, <2>2, Asking DEF BrowserInv, Window, Shown
<1>2. CASE ~Searchable(chips)
  <2>1. /\ searchResults' = NoEntries /\ newest' = [newest EXCEPT !["search"] = loads + 1]
        /\ late' = (IF loads + 1 < newest["search"] THEN late \cup {"search"} ELSE late)
        /\ loads' = loads + 1 /\ made < scenario.calls /\ made' = made + 1
        /\ UNCHANGED <<pending, nextID, asked, connected, faults, wire, present, tagsOf, scenario, events>>
    BY <1>2 DEF ExecuteSearch, Applied, MayAsk, client, link, disk
  <2>2. loads \in Nat /\ newest \in [Lists -> 0 .. loads] /\ "search" \in Lists /\ late \subseteq Lists
    BY DEF BrowserInv, Window, Bounded, Registered, Lists
  <2>3. newest' \in [Lists -> 0 .. loads'] /\ late' \subseteq Lists
    BY <2>1, <2>2
  <2>4. made' \in 0 .. scenario.calls
    <3>1. scenario.calls \in Nat /\ made \in 0 .. scenario.calls
      BY BrowserAssumption DEF BrowserInv, Window, Bounded
    <3> QED BY <2>1, <3>1
  <2>5. Renewed
    BY <2>1, <2>2, Unasked DEF BrowserInv, client
  <2>6. NothingNew
    BY <2>1, SameWire DEF BrowserInv
  <2>7. Stored' /\ Bounded'
    BY <2>1, <2>3, <2>4 DEF BrowserInv, Window, Stored, Bounded
  <2> QED BY <1>2, <2>1, <2>5, <2>6, <2>7, Nothing
<1> QED BY <1>1, <1>2

\* A step that keeps what the four parts of the invariant need.
Kept == Renewed /\ Messaged /\ Window' /\ (faults # 0 => faults' # 0)

LEMMA NoneNew ==
  ASSUME NothingNew
  PROVE  Messaged
BY DEF NothingNew, Messaged

\* A directory is asked for with the hidden files as they are shown.
LEMMA ListingIs ==
  ASSUME NEW d \in Dirs, showHidden \in BOOLEAN
  PROVE  /\ ListDir(d) \in CallStates
         /\ ListDir(d).kind = "list" /\ ListDir(d).dir = d /\ ListDir(d).hid = showHidden
         /\ \A hid \in BOOLEAN : LET c == [ListDir(d) EXCEPT !.hid = hid] IN
              c \in CallStates /\ c.kind = "list" /\ c.dir = d /\ c.hid = hid
<1> DEFINE c == Call("list")
<1>1. c \in CallStates /\ c.kind = "list"
  BY Calling DEF CallKinds
<1>2. ListDir(d) = [c EXCEPT !.dir = d, !.hid = showHidden]
  BY DEF ListDir
<1> HIDE DEF c
<1> QED BY <1>1, <1>2 DEF CallStates

LEMMA CallsAre ==
  /\ Call("trash") \in CallStates /\ Call("trash").kind = "trash"
  /\ \A fs \in SUBSET Files :
       /\ [Call("meta") EXCEPT !.files = fs] \in CallStates
       /\ [Call("meta") EXCEPT !.files = fs].kind = "meta"
       /\ [Call("delete") EXCEPT !.files = fs] \in CallStates
       /\ [Call("delete") EXCEPT !.files = fs].kind = "delete"
BY Calling DEF CallKinds

LEMMA KeptByNavigating ==
  ASSUME BrowserInv, NEW d \in Dirs, navigateTo(d)
  PROVE  Kept
<1>1. Placed' /\ currentPath' = d
  BY Visiting DEF navigateTo, BrowserInv, Window
<1>2. Ask(ListDir(d)) /\ ListDir(d) \in CallStates
  BY ListingIs DEF navigateTo, BrowserInv, Window, Shown
<1>3. Shown'
  BY DEF navigateTo, Visit, Leave, BrowserInv, Window, Shown
<1> QED BY <1>1, <1>2, <1>3, Asking, NoneNew DEF Kept, Window

LEMMA KeptByGoing ==
  ASSUME BrowserInv, NEW i, GoTo(i)
  PROVE  Kept
<1>1. i \in DOMAIN hist /\ Placed'
  BY Going DEF GoTo, BrowserInv, Window
<1>2. hist[i] \in Dirs
  BY <1>1 DEF BrowserInv, Window, Placed
<1>3. Ask(ListDir(hist[i])) /\ ListDir(hist[i]) \in CallStates
  BY <1>2, ListingIs DEF GoTo, BrowserInv, Window, Shown
<1>4. Shown'
  BY DEF GoTo, Leave, BrowserInv, Window, Shown
<1> QED BY <1>1, <1>3, <1>4, Asking, NoneNew DEF Kept, Window

LEMMA KeptByTrash ==
  ASSUME BrowserInv, navigateToTrash
  PROVE  Kept
<1>1. Ask(Call("trash"))
  BY DEF navigateToTrash
<1>2. Shown' /\ Placed'
  BY DEF navigateToTrash, Leave, place, BrowserInv, Window, Shown, Placed
<1> QED BY <1>1, <1>2, CallsAre, Asking, NoneNew DEF Kept, Window

LEMMA KeptBySearch ==
  ASSUME BrowserInv, NEW chips \in Searches, executeSearch(chips)
  PROVE  Kept
<1>1. ExecuteSearch(chips, showHidden) /\ showHidden \in BOOLEAN
  BY DEF executeSearch, BrowserInv, Window, Shown
<1>2. searchResults' \in Entries /\ Renewed /\ NothingNew /\ Stored' /\ Bounded' /\ UNCHANGED faults
  BY <1>1, Searching
<1>3. Shown' /\ Placed'
  BY <1>2 DEF executeSearch, place, selection, BrowserInv, Window, Shown, Placed
<1> QED BY <1>2, <1>3, NoneNew DEF Kept, Window

LEMMA KeptByToggle ==
  ASSUME BrowserInv, toggleHidden
  PROVE  Kept
<1>1. (~showHidden) \in BOOLEAN /\ showHidden \in BOOLEAN /\ currentPath \in Dirs /\ searchChips \in Searches \cup {NoChips}
      /\ searchResults \in Entries
  BY DEF BrowserInv, Window, Shown, Placed
<1>2. CASE isSearchMode
  BY <1>1, <1>2, Searching, NoneNew
     DEF toggleHidden, place, mode, selection, Kept, BrowserInv, Window, Shown, Placed
<1>3. CASE ~isSearchMode /\ ~isTrashView
  <2>1. Ask([ListDir(currentPath) EXCEPT !.hid = ~showHidden]) /\ UNCHANGED searchResults
    BY <1>3 DEF toggleHidden
  <2> QED BY <1>1, <2>1, ListingIs, Asking, NoneNew
          DEF toggleHidden, place, mode, selection, Kept, BrowserInv, Window, Shown, Placed
<1>4. CASE ~isSearchMode /\ isTrashView
  <2>1. UNCHANGED <<pending, nextID, asked, connected, faults, wire, present, tagsOf, loads, newest, late,
                    scenario, made, events, searchResults>>
    BY <1>4 DEF toggleHidden, client, link, disk, observed, bounds
  <2>2. Renewed /\ NothingNew
    BY <2>1, Unasked, SameWire DEF client, BrowserInv, Registered
  <2> QED BY <1>1, <2>1, <2>2, NoneNew
          DEF toggleHidden, place, mode, selection, Kept, BrowserInv, Window, Shown, Placed, Stored, Bounded
<1> QED BY <1>2, <1>3, <1>4

LEMMA KeptByRefresh ==
  ASSUME BrowserInv, refresh
  PROVE  Kept
<1>1. showHidden \in BOOLEAN /\ currentPath \in Dirs /\ searchChips \in Searches \cup {NoChips}
      /\ searchResults \in Entries
  BY DEF BrowserInv, Window, Shown, Placed
<1>2. CASE isTrashView
  BY <1>1, <1>2, CallsAre, Asking, NoneNew
     DEF refresh, place, mode, selection, Kept, BrowserInv, Window, Shown, Placed
<1>3. CASE isSearchMode /\ ~isTrashView
  BY <1>1, <1>3, Searching, NoneNew
     DEF refresh, place, mode, selection, Kept, BrowserInv, Window, Shown, Placed
<1>4. CASE ~isSearchMode /\ ~isTrashView
  BY <1>1, <1>4, ListingIs, Asking, NoneNew
     DEF refresh, place, mode, selection, Kept, BrowserInv, Window, Shown, Placed
<1> QED BY <1>2, <1>3, <1>4

LEMMA KeptBySelecting ==
  ASSUME BrowserInv, NEW f \in Files, selectFile(f)
  PROVE  Kept
<1>1. Ask([Call("meta") EXCEPT !.files = {f}]) /\ {f} \in SUBSET Files
  BY DEF selectFile
<1>2. Shown' /\ Placed'
  BY DEF selectFile, place, mode, BrowserInv, Window, Shown, Placed
<1> QED BY <1>1, <1>2, CallsAre, Asking, NoneNew DEF Kept, Window

LEMMA KeptByDeleting ==
  ASSUME BrowserInv, deleteSelected
  PROVE  Kept
<1>1. Ask([Call("delete") EXCEPT !.files = {selectedFile}]) /\ {selectedFile} \in SUBSET Files
  BY DEF deleteSelected, BrowserInv, Window, Shown
<1>2. Shown' /\ Placed'
  BY DEF deleteSelected, place, mode, selection, BrowserInv, Window, Shown, Placed
<1> QED BY <1>1, <1>2, CallsAre, Asking, NoneNew DEF Kept, Window

LEMMA Messaging ==
  \A kind \in {"answer", "fileTagged", "indexUpdated", "showWindow"} :
    Message(kind) \in Messages /\ Message(kind).kind = kind
<1>1. Call("trash") \in CallStates /\ NoEntries \in Entries
  BY CallsAre, Nothing
<1> QED BY <1>1, BrowserAssumption DEF Message, Messages

\* A message is put on the wire.
LEMMA Sending ==
  ASSUME OnWire, NEW m \in Messages, wire' = Append(wire, m)
  PROVE  /\ wire' \in Seq(Messages) /\ DOMAIN wire' = DOMAIN wire \cup {Len(wire) + 1}
         /\ wire'[Len(wire) + 1] = m /\ \A i \in DOMAIN wire : wire'[i] = wire[i]
<1>1. wire \in Seq(Messages) /\ Len(wire) \in Nat
  BY DEF OnWire
<1>2. wire' \in Seq(Messages) /\ Len(wire') = Len(wire) + 1 /\ wire'[Len(wire) + 1] = m
      /\ \A i \in 1 .. Len(wire) : wire'[i] = wire[i]
  BY <1>1, AppendProperties
<1>3. DOMAIN wire = 1 .. Len(wire) /\ DOMAIN wire' = 1 .. Len(wire')
  BY <1>1, <1>2
<1> QED BY <1>1, <1>2, <1>3

LEMMA KeptByAnswer ==
  ASSUME BrowserInv, NEW id \in asked, Answer(id)
  PROVE  Kept
<1>1. id \in DOMAIN pending /\ pending[id] \in CallStates /\ id \in Nat
  BY DEF BrowserInv, Registered
<1>2. PICK ok \in BOOLEAN :
        /\ faults' = (IF ok THEN faults ELSE faults + 1) /\ faults' <= MaxFaults
        /\ wire' = Append(wire, [Message("answer") EXCEPT
                     !.id = id, !.ok = ok, !.call = pending[id],
                     !.entries = IF ok THEN Found(pending[id]) ELSE NoEntries])
        /\ present' = IF ok /\ pending[id].kind = "delete" THEN present \ pending[id].files ELSE present
  BY DEF Answer
<1> DEFINE m == [Message("answer") EXCEPT
                   !.id = id, !.ok = ok, !.call = pending[id],
                   !.entries = IF ok THEN Found(pending[id]) ELSE NoEntries]
<1>3. Found(pending[id]) \in Entries /\ NoEntries \in Entries
  BY <1>1, Finding, Nothing DEF BrowserInv, Window
<1>4. m \in Messages /\ m.kind = "answer" /\ m.id = id /\ m.ok = ok /\ m.call = pending[id]
  BY <1>1, <1>3, Messaging DEF Messages
<1> HIDE DEF m
<1>5. /\ wire' \in Seq(Messages) /\ DOMAIN wire' = DOMAIN wire \cup {Len(wire) + 1}
      /\ wire'[Len(wire) + 1] = m /\ \A i \in DOMAIN wire : wire'[i] = wire[i]
  BY <1>2, <1>4, Sending DEF m, BrowserInv
<1>6. faults \in Nat /\ MaxFaults \in Nat
  BY BrowserAssumption DEF BrowserInv, Window, Bounded
<1>7. asked' = asked \ {id} /\ (faults # 0 => faults' # 0) /\ faults' \in 0 .. MaxFaults
      /\ (~ok => faults' # 0)
  BY <1>2, <1>6 DEF Answer
<1>8. Messaged
  BY <1>4, <1>5, <1>7 DEF Messaged
<1>9. Renewed
  BY <1>7 DEF Answer, observed, BrowserInv, Registered, Renewed
<1>10. Window'
  BY <1>2, <1>7 DEF Answer, place, mode, selection, bounds, observed, BrowserInv, Window, Placed, Shown, Stored, Bounded
<1> QED BY <1>7, <1>8, <1>9, <1>10 DEF Kept

LEMMA KeptByEvent ==
  ASSUME BrowserInv, NEW m \in Messages, m.kind # "answer", Event(m), tagsOf' \in [Files -> SUBSET Tags]
  PROVE  Kept
<1>1. Messaged
  <2>1. CASE connected
    BY <2>1, Sending DEF Event, Messaged, BrowserInv
  <2>2. CASE ~connected
    BY <2>2, SameWire, NoneNew DEF Event, BrowserInv
  <2> QED BY <2>1, <2>2
<1>2. Renewed
  BY Unasked DEF Event, observed, BrowserInv, Registered
<1>3. events' \in 0 .. MaxEvents
  BY BrowserAssumption DEF Event, BrowserInv, Window, Bounded
<1>4. Window'
  BY <1>3 DEF Event, link, place, mode, selection, observed, BrowserInv, Window, Placed, Shown, Stored, Bounded
<1> QED BY <1>1, <1>2, <1>4 DEF Kept, Event, link

LEMMA KeptByTagging ==
  ASSUME BrowserInv, NEW f \in Files, NEW tags \in SUBSET Tags, ChangeTags(f, tags)
  PROVE  Kept
<1> DEFINE m == [Message("fileTagged") EXCEPT !.file = f, !.added = tags \ tagsOf[f],
                                              !.removed = tagsOf[f] \ tags]
<1>1. m \in Messages /\ m.kind = "fileTagged"
  BY Messaging DEF Messages, BrowserInv, Window, Stored
<1>2. Event(m) /\ tagsOf' \in [Files -> SUBSET Tags]
  BY DEF ChangeTags, BrowserInv, Window, Stored
<1> QED BY <1>1, <1>2, KeptByEvent

LEMMA KeptByIndex ==
  ASSUME BrowserInv, UpdateIndex
  PROVE  Kept
BY Messaging, KeptByEvent DEF UpdateIndex, BrowserInv, Window, Stored

LEMMA KeptByShow ==
  ASSUME BrowserInv, NEW d \in Dirs, ShowWindow(d)
  PROVE  Kept
<1> DEFINE m == [Message("showWindow") EXCEPT !.dir = d]
<1>1. m \in Messages /\ m.kind = "showWindow"
  BY Messaging DEF Messages
<1>2. Event(m) /\ tagsOf' \in [Files -> SUBSET Tags]
  BY DEF ShowWindow, BrowserInv, Window, Stored
<1> QED BY <1>1, <1>2, KeptByEvent

\* A message is handled.
LEMMA Handling ==
  ASSUME BrowserInv, NEW i, Handle(i)
  PROVE  /\ i \in DOMAIN wire /\ wire[i] \in Messages /\ NothingNew /\ Stored'
         /\ UNCHANGED <<connected, faults, present, tagsOf, scenario, made, events, showHidden>>
<1>1. i \in DOMAIN wire /\ wire[i] \in Messages
  BY DEF Handle, BrowserInv, OnWire
<1>2. NothingNew
  BY <1>1, Removing DEF Handle, BrowserInv
<1> QED BY <1>1, <1>2 DEF Handle, link, disk, bounds, BrowserInv, Window, Stored

LEMMA Answering ==
  ASSUME BrowserInv, NEW i, NEW kind, Answered(i, kind)
  PROVE  LET id == wire[i].id IN
           /\ Handle(i) /\ id \in DOMAIN pending \ asked /\ pending[id] \in CallStates
           /\ pending[id].kind = kind /\ pending[id] = wire[i].call
           /\ pending[id].load \in 0 .. loads /\ wire[i].kind = "answer"
           /\ wire[i].entries \in Entries
           /\ ~wire[i].ok => faults # 0
<1>1. i \in DOMAIN wire /\ wire[i] \in Messages /\ wire[i].id \in DOMAIN pending /\ Handle(i)
      /\ wire[i].kind = "answer" /\ pending[wire[i].id].kind = kind
  BY Handling DEF Answered
<1>2. pending[wire[i].id].load \in 0 .. loads /\ pending[wire[i].id] \in CallStates
  BY <1>1 DEF BrowserInv, Registered, CallStates
<1> QED BY <1>1, <1>2 DEF Messages, BrowserInv, OnWire, OwnAnswer

\* The newest load a list shows goes up to those there are.
LEMMA Applying ==
  ASSUME BrowserInv, NEW list \in Lists, NEW n \in 0 .. loads', loads' \in Nat, loads <= loads',
         Applied(list, n)
  PROVE  newest' \in [Lists -> 0 .. loads'] /\ late' \subseteq Lists
<1>1. newest \in [Lists -> 0 .. loads'] /\ late \subseteq Lists
  BY DEF BrowserInv, Window, Bounded, Registered
<1> QED BY <1>1 DEF Applied

LEMMA KeptByListAnswered ==
  ASSUME BrowserInv, NEW i, ListAnswered(i)
  PROVE  Kept
<1> DEFINE m == wire[i]
           id == wire[i].id
           c == pending[id]
           h == [Call("hydrate") EXCEPT !.load = c.load, !.files = DOMAIN m.entries]
<1>1. Answered(i, "list") /\ Applied("list", c.load) /\ loads' = loads
  BY DEF ListAnswered
<1>2. /\ Handle(i) /\ id \in DOMAIN pending \ asked /\ c \in CallStates /\ c.load \in 0 .. loads
      /\ m.entries \in Entries
  BY <1>1, Answering
<1>3. NothingNew /\ Stored'
      /\ UNCHANGED <<connected, faults, present, tagsOf, scenario, made, events, showHidden>>
  BY <1>2, Handling
<1>4. DOMAIN m.entries \in SUBSET Files /\ loads \in Nat /\ c.load \in Nat
  BY <1>2, EntriesAre DEF BrowserInv, Registered
<1>5. h \in CallStates /\ h.load = c.load
  <2>1. Call("hydrate") \in CallStates
    BY Calling DEF CallKinds
  <2> QED BY <1>4, <2>1 DEF CallStates
<1>6. Renewed
  <2>1. CASE DOMAIN m.entries = {}
    <3>1. ReturnOnly(id)
      BY <2>1 DEF ListAnswered
    <3>2. loads' \in Nat /\ loads <= loads'
      BY <1>1, <1>4
    <3> QED BY <1>2, <3>1, <3>2, Returning DEF BrowserInv
  <2>2. CASE DOMAIN m.entries # {}
    <3>1. Register(Others(id), h, asked)
      BY <2>2 DEF ListAnswered
    <3>2. Beside(Others(id)) /\ connected \in BOOLEAN
      BY <1>2, Alongside DEF BrowserInv, Window, Stored
    <3> HIDE DEF h
    <3>3. h.load <= loads' /\ loads' \in Nat /\ loads <= loads'
      BY <1>1, <1>2, <1>4, <1>5
    <3> QED BY <1>5, <3>1, <3>2, <3>3, Registering DEF BrowserInv
  <2> QED BY <2>1, <2>2
<1>7. newest' \in [Lists -> 0 .. loads'] /\ late' \subseteq Lists
  BY <1>1, <1>2, <1>4, Applying DEF Lists
<1>8. Window'
  BY <1>1, <1>2, <1>3, <1>7 DEF ListAnswered, place, mode, selection, BrowserInv, Window, Placed, Shown, Bounded
<1> QED BY <1>3, <1>6, <1>8, NoneNew DEF Kept

\* A callback that only returns, and may change what is shown.
LEMMA KeptByReturn ==
  ASSUME BrowserInv, NEW i, NEW kind, Answered(i, kind), ReturnOnly(wire[i].id),
         UNCHANGED place, UNCHANGED mode,
         loads' = loads, newest' \in [Lists -> 0 .. loads'], late' \subseteq Lists,
         dirEntries' \in Entries, searchResults' \in Entries,
         selectedFile' \in Files \cup {None}, selectedMeta' \in Files \cup {None}
  PROVE  Kept
<1>1. /\ Handle(i) /\ wire[i].id \in DOMAIN pending \ asked
  BY Answering
<1>2. NothingNew /\ Stored'
      /\ UNCHANGED <<connected, faults, present, tagsOf, scenario, made, events, showHidden>>
  BY <1>1, Handling
<1>3. Renewed
  <2>1. loads' \in Nat /\ loads <= loads' /\ Registered
    BY DEF BrowserInv, Registered
  <2> QED BY <1>1, <2>1, Returning
<1>4. Window'
  BY <1>2 DEF place, mode, BrowserInv, Window, Placed, Shown, Bounded
<1> QED BY <1>2, <1>3, <1>4, NoneNew DEF Kept

LEMMA KeptByHydrateAnswered ==
  ASSUME BrowserInv, NEW i, HydrateAnswered(i)
  PROVE  Kept
<1> DEFINE id == wire[i].id
<1>1. Answered(i, "hydrate") /\ Applied("hydrate", pending[id].load) /\ loads' = loads /\ loads \in Nat
  BY DEF HydrateAnswered, BrowserInv, Registered
<1>2. pending[id].load \in 0 .. loads /\ wire[i].entries \in Entries
  BY <1>1, Answering
<1>3. newest' \in [Lists -> 0 .. loads'] /\ late' \subseteq Lists
  BY <1>1, <1>2, Applying DEF Lists
<1>4. dirEntries \in Entries /\ Hydrated(dirEntries, wire[i].entries) \in Entries
  BY <1>2, Hydrating DEF BrowserInv, Window, Shown
<1> QED BY <1>1, <1>3, <1>4, KeptByReturn DEF HydrateAnswered, selection, BrowserInv, Window, Shown

LEMMA KeptBySearchAnswered ==
  ASSUME BrowserInv, NEW i, SearchAnswered(i)
  PROVE  Kept
<1> DEFINE id == wire[i].id
           c == pending[id]
           g == [c EXCEPT !.kind = "glob"]
<1>1. Answered(i, "search") /\ loads \in Nat
  BY DEF SearchAnswered, BrowserInv, Registered
<1>2. /\ Handle(i) /\ id \in DOMAIN pending \ asked /\ c \in CallStates /\ c.load \in 0 .. loads
      /\ wire[i].entries \in Entries
  BY <1>1, Answering
<1>3. CASE DOMAIN wire[i].entries = {} /\ c.chips.glob
  <2>1. /\ Register(Others(id), g, asked)
        /\ UNCHANGED <<searchResults, loads, newest, late, dirEntries, selectedFile, selectedMeta>>
    BY <1>3 DEF SearchAnswered, observed, selection
  <2>2. NothingNew /\ Stored'
        /\ UNCHANGED <<connected, faults, present, tagsOf, scenario, made, events, showHidden>>
    BY <1>2, Handling
  <2>3. g \in CallStates /\ g.load = c.load
    BY <1>2, Calling DEF CallStates
  <2>4. Renewed
    <3>1. Beside(Others(id)) /\ connected \in BOOLEAN
      BY <1>2, Alongside DEF BrowserInv, Window, Stored
    <3> HIDE DEF g
    <3>2. g.load <= loads' /\ loads' \in Nat /\ loads <= loads'
      BY <1>1, <1>2, <2>1, <2>3
    <3> QED BY <2>1, <2>3, <3>1, <3>2, Registering DEF BrowserInv
  <2>5. Window'
    BY <2>1, <2>2 DEF SearchAnswered, place, mode, BrowserInv, Window, Placed, Shown, Bounded
  <2> QED BY <2>2, <2>4, <2>5, NoneNew DEF Kept
<1>4. CASE ~(DOMAIN wire[i].entries = {} /\ c.chips.glob)
  <2>1. Applied("search", c.load) /\ loads' = loads /\ ReturnOnly(id) /\ searchResults' = wire[i].entries
    BY <1>4 DEF SearchAnswered
  <2>2. newest' \in [Lists -> 0 .. loads'] /\ late' \subseteq Lists
    BY <1>1, <1>2, <2>1, Applying DEF Lists
  <2> QED BY <1>1, <1>2, <2>1, <2>2, KeptByReturn DEF SearchAnswered, selection, BrowserInv, Window, Shown
<1> QED BY <1>3, <1>4

LEMMA KeptByGlobAnswered ==
  ASSUME BrowserInv, NEW i, GlobAnswered(i)
  PROVE  Kept
<1> DEFINE id == wire[i].id
<1>1. Answered(i, "glob") /\ Applied("search", pending[id].load) /\ loads' = loads /\ loads \in Nat
  BY DEF GlobAnswered, BrowserInv, Registered
<1>2. pending[id].load \in 0 .. loads /\ wire[i].entries \in Entries
  BY <1>1, Answering
<1>3. newest' \in [Lists -> 0 .. loads'] /\ late' \subseteq Lists
  BY <1>1, <1>2, Applying DEF Lists
<1> QED BY <1>1, <1>2, <1>3, KeptByReturn DEF GlobAnswered, selection, BrowserInv, Window, Shown

LEMMA KeptByTrashAnswered ==
  ASSUME BrowserInv, NEW i, TrashAnswered(i)
  PROVE  Kept
BY KeptByReturn DEF TrashAnswered, selection, observed, BrowserInv, Window, Shown, Bounded

LEMMA KeptByMetaAnswered ==
  ASSUME BrowserInv, NEW i, MetaAnswered(i)
  PROVE  Kept
BY KeptByReturn DEF MetaAnswered, observed, BrowserInv, Window, Shown, Bounded

LEMMA KeptByDeleteAnswered ==
  ASSUME BrowserInv, NEW i, DeleteAnswered(i)
  PROVE  Kept
<1> DEFINE id == wire[i].id
           c == IF isTrashView THEN Call("trash") ELSE ListDir(currentPath)
<1>1. Answered(i, "delete") /\ newest \in [Lists -> 0 .. loads] /\ late \subseteq Lists
  BY DEF DeleteAnswered, BrowserInv, Window, Bounded
<1>2. CASE wire[i].ok
  <2>1. Load(Others(id), c) /\ selectedFile' \in Files \cup {None}
    BY <1>2 DEF DeleteAnswered, BrowserInv, Window, Shown
  <2>2. Handle(i) /\ id \in DOMAIN pending \ asked
    BY <1>1, Answering
  <2>3. NothingNew /\ Stored'
        /\ UNCHANGED <<connected, faults, present, tagsOf, scenario, made, events, showHidden>>
    BY <2>2, Handling
  <2>4. Beside(Others(id)) /\ connected \in BOOLEAN
    BY <2>2, Alongside DEF BrowserInv, Window, Stored
  <2>5. c \in CallStates
    BY CallsAre, ListingIs DEF BrowserInv, Window, Placed, Shown
  <2> HIDE DEF c
  <2>6. Renewed /\ loads' = loads + 1
    BY <2>1, <2>4, <2>5, Loading DEF BrowserInv
  <2>7. newest' \in [Lists -> 0 .. loads'] /\ late' \subseteq Lists
    BY <1>1, <2>6 DEF DeleteAnswered, BrowserInv, Registered
  <2>8. Window'
    BY <2>1, <2>3, <2>7 DEF DeleteAnswered, place, mode, BrowserInv, Window, Placed, Shown, Bounded
  <2> QED BY <2>3, <2>6, <2>8, NoneNew DEF Kept
<1>3. CASE ~wire[i].ok
  BY <1>1, <1>3, KeptByReturn DEF DeleteAnswered, BrowserInv, Window, Shown, Bounded
<1> QED BY <1>2, <1>3

LEMMA KeptByTagged ==
  ASSUME BrowserInv, NEW i, onFileTagged(i)
  PROVE  Kept
<1>1. Handle(i) /\ UNCHANGED <<pending, nextID, asked, loads, newest, late, selectedFile, selectedMeta>>
  BY DEF onFileTagged, client, observed, selection
<1>2. wire[i] \in Messages /\ NothingNew /\ Stored'
      /\ UNCHANGED <<connected, faults, present, tagsOf, scenario, made, events, showHidden>>
  BY <1>1, Handling
<1>3. Renewed
  BY <1>1, Unasked DEF client, BrowserInv, Registered
<1>4. dirEntries' \in Entries /\ searchResults' \in Entries
  BY <1>2, Patching DEF onFileTagged, BrowserInv, Window, Shown
<1>5. Window'
  BY <1>1, <1>2, <1>4 DEF onFileTagged, place, mode, BrowserInv, Window, Placed, Shown, Bounded
<1> QED BY <1>2, <1>3, <1>5, NoneNew DEF Kept

\* A search's call, and what is loaded when an event comes.
LEMMA SearchCalls ==
  ASSUME NEW chips \in Searches \cup {NoChips}, NEW hid \in BOOLEAN
  PROVE  LET c == SearchCall(chips, hid) IN
           /\ c \in CallStates /\ c.chips = chips /\ c.hid = (hid \/ chips.any)
           /\ c.kind = IF chips.tags # {} THEN "search" ELSE "glob"
<1> DEFINE c == Call(IF chips.tags # {} THEN "search" ELSE "glob")
<1>1. c \in CallStates /\ c.kind = IF chips.tags # {} THEN "search" ELSE "glob"
  BY Calling DEF CallKinds
<1>2. SearchCall(chips, hid) = [c EXCEPT !.chips = chips, !.hid = hid \/ chips.any]
  BY DEF SearchCall
<1> HIDE DEF c
<1>3. (hid \/ chips.any) \in BOOLEAN
  OBVIOUS
<1> QED BY <1>1, <1>2, <1>3 DEF CallStates

LEMMA KeptByUpdated ==
  ASSUME BrowserInv, NEW i, onIndexUpdated(i)
  PROVE  Kept
<1>1. Handle(i) /\ UNCHANGED <<dirEntries, selectedFile, selectedMeta>> /\ loads \in Nat
      /\ newest \in [Lists -> 0 .. loads] /\ late \subseteq Lists
  BY DEF onIndexUpdated, selection, BrowserInv, Window, Bounded, Registered
<1>2. NothingNew /\ Stored'
      /\ UNCHANGED <<connected, faults, present, tagsOf, scenario, made, events, showHidden>>
  BY <1>1, Handling
<1>3. /\ Renewed /\ newest' \in [Lists -> 0 .. loads'] /\ late' \subseteq Lists
      /\ searchResults' \in Entries
  <2>1. CASE isSearchMode /\ Searchable(searchChips)
    <3>1. Load(pending, SearchCall(searchChips, showHidden)) /\ UNCHANGED <<searchResults, newest, late>>
      BY <2>1 DEF onIndexUpdated
    <3>2. SearchCall(searchChips, showHidden) \in CallStates /\ connected \in BOOLEAN
      BY SearchCalls DEF BrowserInv, Window, Shown, Stored
    <3>3. Renewed /\ loads' = loads + 1
      BY <3>1, <3>2, Alongside, Loading DEF BrowserInv
    <3> QED BY <1>1, <3>1, <3>3 DEF BrowserInv, Window, Shown
  <2>2. CASE isSearchMode /\ ~Searchable(searchChips)
    <3>1. /\ searchResults' = NoEntries /\ Applied("search", loads + 1) /\ loads' = loads + 1
          /\ UNCHANGED client
      BY <2>2 DEF onIndexUpdated
    <3>2. newest' \in [Lists -> 0 .. loads'] /\ late' \subseteq Lists
      BY <1>1, <3>1, Applying DEF Lists
    <3> QED BY <1>1, <3>1, <3>2, Unasked, Nothing DEF BrowserInv
  <2>3. CASE ~isSearchMode
    <3>1. UNCHANGED <<client, searchResults, loads, newest, late>>
      BY <2>3 DEF onIndexUpdated, observed
    <3> QED BY <1>1, <3>1, Unasked DEF BrowserInv, Window, Shown
  <2> QED BY <2>1, <2>2, <2>3
<1>4. Window'
  BY <1>1, <1>2, <1>3 DEF onIndexUpdated, place, mode, BrowserInv, Window, Placed, Shown, Bounded
<1> QED BY <1>2, <1>3, <1>4, NoneNew DEF Kept

LEMMA KeptByShowWindow ==
  ASSUME BrowserInv, NEW i, onShowWindow(i)
  PROVE  Kept
<1> DEFINE d == wire[i].dir
<1>1. Handle(i) /\ Visit(d) /\ Load(pending, ListDir(d))
      /\ UNCHANGED <<dirEntries, searchResults, newest, late>>
  BY DEF onShowWindow
<1>2. wire[i] \in Messages /\ NothingNew /\ Stored'
      /\ UNCHANGED <<connected, faults, present, tagsOf, scenario, made, events, showHidden>>
  BY <1>1, Handling
<1>3. d \in Dirs
  BY <1>2 DEF Messages
<1>4. ListDir(d) \in CallStates /\ connected \in BOOLEAN
  BY <1>3, ListingIs DEF BrowserInv, Window, Shown, Stored
<1> HIDE DEF d
<1>5. Renewed /\ loads' = loads + 1
  BY <1>1, <1>4, Alongside, Loading DEF BrowserInv
<1>6. newest' \in [Lists -> 0 .. loads']
  BY <1>1, <1>5 DEF BrowserInv, Window, Bounded, Registered
<1>7. Placed' /\ Shown'
  BY <1>1, <1>2, <1>3, Visiting DEF Visit, Leave, BrowserInv, Window, Shown
<1>8. Bounded'
  BY <1>1, <1>2, <1>6 DEF BrowserInv, Window, Bounded
<1> QED BY <1>2, <1>5, <1>7, <1>8, NoneNew DEF Kept, Window

\* Calls that an error makes have ids of their own.
LEMMA Ranking ==
  ASSUME Registered
  PROVE  /\ Cardinality(Falling) \in Nat
         /\ \A id \in Falling : Rank(id) \in 0 .. Cardinality(Falling) - 1
<1>1. Falling \subseteq 1 .. nextID - 1
  BY DEF Registered, Falling, Failed
<1>2. IsFiniteSet(Falling) /\ Cardinality(Falling) \in Nat
  <2>1. IsFiniteSet(1 .. nextID - 1)
    BY FS_Interval DEF Registered
  <2> QED BY <1>1, <2>1, FS_Subset, FS_CardinalityType
<1>3. ASSUME NEW id \in Falling PROVE Rank(id) \in 0 .. Cardinality(Falling) - 1
  <2> DEFINE below == {k \in Falling : k < id}
  <2>1. IsFiniteSet(Falling \ {id}) /\ Cardinality(Falling \ {id}) = Cardinality(Falling) - 1
    BY <1>2, FS_RemoveElement
  <2>2. below \subseteq Falling \ {id}
    BY <1>1
  <2>3. IsFiniteSet(below) /\ Cardinality(below) <= Cardinality(Falling \ {id})
    BY <2>1, <2>2, FS_Subset
  <2>4. Cardinality(below) \in Nat
    BY <2>3, FS_CardinalityType
  <2> QED BY <1>2, <2>1, <2>3, <2>4 DEF Rank
<1> QED BY <1>2, <1>3

LEMMA Dropping ==
  ASSUME BrowserInv, Disconnect
  PROVE  /\ Renewed /\ wire' = <<>> /\ asked' = {} /\ faults' = faults + 1
         /\ \A n \in DOMAIN pending' : n \in nextID .. nextID' - 1 /\ pending'[n].kind = "glob"
         /\ \A n \in DOMAIN pending' : pending'[n].sent = FALSE
<1>1. /\ Cardinality(Falling) \in Nat
      /\ \A id \in Falling : Rank(id) \in 0 .. Cardinality(Falling) - 1
      /\ nextID \in Nat \ {0} /\ loads \in Nat
  BY Ranking DEF BrowserInv, Registered
<1> DEFINE new == {nextID + Rank(id) : id \in Falling}
           fell(n) == CHOOSE id \in Falling : nextID + Rank(id) = n
<1>2. /\ pending' = [n \in new |-> [pending[fell(n)] EXCEPT !.kind = "glob", !.sent = FALSE]]
      /\ asked' = {} /\ wire' = <<>> /\ faults' = faults + 1
  BY DEF Disconnect
<1> HIDE DEF new, fell
<1>5. nextID' = nextID + Cardinality(Falling) /\ loads' = loads
  BY DEF Disconnect, observed
<1>6. nextID' \in Nat /\ nextID <= nextID' /\ loads' \in Nat /\ loads <= loads'
  BY <1>1, <1>5
<1> USE DEF new, fell
<1>3. ASSUME NEW n \in new
      PROVE  n \in nextID .. nextID' - 1 /\ pending'[n] \in CallStates /\ pending'[n].load <= loads
             /\ pending'[n].kind = "glob" /\ pending'[n].sent = FALSE
  <2>1. fell(n) \in Falling /\ n \in nextID .. nextID' - 1
    <3>1. PICK id \in Falling : n = nextID + Rank(id)
      OBVIOUS
    <3>2. Rank(id) \in 0 .. Cardinality(Falling) - 1
      BY <1>1, <3>1
    <3>3. n \in nextID .. nextID' - 1
      BY <1>1, <1>5, <3>1, <3>2
    <3> QED BY <3>1, <3>3
  <2>2. pending[fell(n)] \in CallStates /\ pending[fell(n)].load <= loads
    BY <2>1 DEF BrowserInv, Registered, Falling, Failed
  <2>3. pending'[n] = [pending[fell(n)] EXCEPT !.kind = "glob", !.sent = FALSE]
    BY <1>2
  <2> HIDE DEF fell
  <2> QED BY <2>1, <2>2, <2>3 DEF CallStates, CallKinds
<1> HIDE DEF fell
<1>4. DOMAIN pending' = new /\ pending' \in [DOMAIN pending' -> CallStates]
  BY <1>2, <1>3
<1> HIDE DEF new
<1> QED BY <1>2, <1>3, <1>4, <1>5, <1>6 DEF Renewed

LEMMA KeptByDisconnecting ==
  ASSUME BrowserInv, Disconnect
  PROVE  Kept
<1>1. Renewed /\ wire' = <<>> /\ faults' = faults + 1 /\ faults' \in 0 .. MaxFaults /\ faults' # 0
  <2>1. faults \in 0 .. MaxFaults /\ MaxFaults \in Nat /\ faults < MaxFaults
    BY BrowserAssumption DEF Disconnect, BrowserInv, Window, Bounded
  <2> QED BY <2>1, Dropping
<1>2. Messaged
  BY <1>1 DEF Messaged
<1>3. Window'
  BY <1>1, Nothing
     DEF Disconnect, disk, place, mode, selection, bounds, observed, BrowserInv, Window, Placed, Shown, Stored, Bounded
<1> QED BY <1>1, <1>2, <1>3 DEF Kept

LEMMA KeptByReconnecting ==
  ASSUME BrowserInv, Reconnect
  PROVE  Kept
<1>1. Renewed /\ NothingNew
  BY Unasked, SameWire DEF Reconnect, observed, BrowserInv, Registered
<1>2. Window'
  BY DEF Reconnect, disk, place, mode, selection, bounds, observed, BrowserInv, Window, Placed, Shown, Stored, Bounded
<1> QED BY <1>1, <1>2, NoneNew DEF Kept, Reconnect

LEMMA KeptByUser ==
  ASSUME BrowserInv, User
  PROVE  Kept
<1>1. ASSUME NEW d \in Dirs, navigateTo(d) PROVE Kept
  BY <1>1, KeptByNavigating
<1>2. CASE goBack \/ goForward
  BY <1>2, KeptByGoing DEF goBack, goForward
<1>3. CASE navigateToTrash
  BY <1>3, KeptByTrash
<1>4. ASSUME NEW chips \in Searches, executeSearch(chips) PROVE Kept
  BY <1>4, KeptBySearch
<1>5. CASE toggleHidden
  BY <1>5, KeptByToggle
<1>6. CASE refresh
  BY <1>6, KeptByRefresh
<1>7. ASSUME NEW f \in Files, selectFile(f) PROVE Kept
  BY <1>7, KeptBySelecting
<1>8. CASE deleteSelected
  BY <1>8, KeptByDeleting
<1> QED BY <1>1, <1>2, <1>3, <1>4, <1>5, <1>6, <1>7, <1>8 DEF User

LEMMA KeptByDaemon ==
  ASSUME BrowserInv, Daemon \/ Answers
  PROVE  Kept
<1>1. ASSUME NEW f \in Files, NEW tags \in SUBSET Tags, ChangeTags(f, tags) PROVE Kept
  BY <1>1, KeptByTagging
<1>2. CASE UpdateIndex
  BY <1>2, KeptByIndex
<1>3. ASSUME NEW d \in Dirs, ShowWindow(d) PROVE Kept
  BY <1>3, KeptByShow
<1>4. ASSUME NEW id \in asked, Answer(id) PROVE Kept
  BY <1>4, KeptByAnswer
<1> QED BY <1>1, <1>2, <1>3, <1>4 DEF Daemon, Answers

LEMMA KeptByDelivery ==
  ASSUME BrowserInv, Deliver
  PROVE  Kept
<1> SUFFICES ASSUME NEW i \in DOMAIN wire,
               \/ ListAnswered(i) \/ HydrateAnswered(i) \/ SearchAnswered(i) \/ GlobAnswered(i)
               \/ TrashAnswered(i) \/ MetaAnswered(i) \/ DeleteAnswered(i)
               \/ onFileTagged(i) \/ onIndexUpdated(i) \/ onShowWindow(i)
             PROVE Kept
  BY DEF Deliver
<1> QED BY KeptByListAnswered, KeptByHydrateAnswered, KeptBySearchAnswered, KeptByGlobAnswered,
           KeptByTrashAnswered, KeptByMetaAnswered, KeptByDeleteAnswered, KeptByTagged,
           KeptByUpdated, KeptByShowWindow

LEMMA BrowserBegins == Init => BrowserInv
<1> SUFFICES ASSUME Init PROVE BrowserInv
  OBVIOUS
<1> DEFINE c == [Call("list") EXCEPT !.dir = Root, !.load = 1]
<1>1. c \in CallStates /\ c.load = 1
  <2>1. Call("list") \in CallStates
    BY Calling DEF CallKinds
  <2> QED BY <2>1, BrowserAssumption DEF CallStates
<1>2. pending = [id \in {1} |-> c] /\ nextID = 2 /\ asked = {1} /\ loads = 1
  BY DEF Init
<1> HIDE DEF c
<1>3. Registered
  BY <1>1, <1>2 DEF Registered
<1>4. OnWire /\ OwnAnswer
  BY DEF Init, OnWire, OwnAnswer
<1>5. Placed
  BY BrowserAssumption DEF Init, Placed
<1>6. Shown /\ Stored
  BY Nothing, BrowserAssumption DEF Init, Shown, Stored
<1>7. Bounded
  <2>1. scenario \in Scenarios /\ made = 0 /\ events = 0 /\ faults = 0 /\ late = {} /\ newest = [l \in Lists |-> 0]
    BY DEF Init
  <2>2. scenario.calls \in Nat /\ MaxEvents \in Nat /\ MaxFaults \in Nat
    BY <2>1, BrowserAssumption
  <2> QED BY <1>2, <2>1, <2>2 DEF Bounded
<1> QED BY <1>3, <1>4, <1>5, <1>6, <1>7 DEF BrowserInv, Window

LEMMA BrowserStep == BrowserInv /\ [Next]_vars => BrowserInv'
<1> SUFFICES ASSUME BrowserInv, [Next]_vars PROVE BrowserInv'
  OBVIOUS
<1>1. CASE Next
  <2>1. Kept
    BY <1>1, KeptByUser, KeptByDaemon, KeptByDelivery, KeptByDisconnecting, KeptByReconnecting DEF Next
  <2> QED BY <2>1, Corresponding DEF Kept, BrowserInv
<1>2. CASE UNCHANGED vars
  <2>1. UNCHANGED <<pending, nextID, asked, loads, wire, faults>>
    BY <1>2 DEF vars, client, link, observed
  <2>2. Registered'
    BY <2>1 DEF BrowserInv, Registered
  <2>3. OnWire' /\ OwnAnswer'
    BY <2>1 DEF BrowserInv, OnWire, OwnAnswer
  <2>4. Window'
    BY <1>2 DEF BrowserInv, Window, Placed, Shown, Stored, Bounded,
                vars, link, disk, place, mode, selection, bounds, observed
  <2> QED BY <2>2, <2>3, <2>4 DEF BrowserInv
<1> QED BY <1>1, <1>2

\* The types of everything.
THEOREM BrowserIsTyped == Spec => []TypeOK
<1>1. BrowserInv => TypeOK
  <2> SUFFICES ASSUME BrowserInv PROVE TypeOK
    OBVIOUS
  <2>1. ASSUME NEW id \in DOMAIN pending
        PROVE  /\ id < nextID /\ pending[id].kind \in CallKinds /\ pending[id].dir \in Dirs
               /\ pending[id].files \subseteq Files
    <3>1. id \in 1 .. nextID - 1 /\ nextID \in Nat /\ pending[id] \in CallStates
      BY DEF BrowserInv, Registered
    <3> QED BY <3>1 DEF CallStates
  <2>2. histIndex \in DOMAIN hist
    BY DEF BrowserInv, Window, Placed
  <2> QED BY <2>1, <2>2 DEF TypeOK, BrowserInv, Registered, Window, Placed, Shown, Stored, Bounded
<1> QED BY <1>1, BrowserBegins, BrowserStep, PTL DEF Spec

\* An answer reaches the callback of the call it answers, whatever connections
\* were lost and whatever calls were made without one (_call, _handleLine).
THEOREM AnswersReachTheirCalls == Spec => []OwnAnswer
<1>1. BrowserInv => OwnAnswer
  BY DEF BrowserInv
<1> QED BY <1>1, BrowserBegins, BrowserStep, PTL DEF Spec

\* The properties panel shows the metadata of the selected file only: who
\* selects another forgets them, and the callback compares (selectFile,
\* clearSelection, the callback of getFileInfo).
THEOREM MetadataIsOfSelected == Spec => []MetadataOfSelected
<1>1. Init => MetadataOfSelected
  BY DEF Init, MetadataOfSelected
<1>2. MetadataOfSelected /\ [Next]_vars => MetadataOfSelected'
  <2> SUFFICES ASSUME MetadataOfSelected, [Next]_vars PROVE MetadataOfSelected'
    OBVIOUS
  <2>1. CASE Leave
    BY <2>1 DEF Leave, MetadataOfSelected
  <2>2. CASE UNCHANGED selection
    BY <2>2 DEF selection, MetadataOfSelected
  <2>3. CASE User
    BY <2>1, <2>2, <2>3
       DEF User, navigateTo, Visit, goBack, goForward, GoTo, navigateToTrash, executeSearch, toggleHidden,
           refresh, selectFile, deleteSelected, MetadataOfSelected
  <2>4. CASE Daemon \/ Answers
    BY <2>2, <2>4 DEF Daemon, ChangeTags, UpdateIndex, ShowWindow, Event, Answers, Answer
  <2>5. CASE Deliver
    <3>1. PICK i \in DOMAIN wire :
            \/ ListAnswered(i) \/ HydrateAnswered(i) \/ SearchAnswered(i) \/ GlobAnswered(i)
            \/ TrashAnswered(i) \/ MetaAnswered(i) \/ DeleteAnswered(i)
            \/ onFileTagged(i) \/ onIndexUpdated(i) \/ onShowWindow(i)
      BY <2>5 DEF Deliver
    <3>2. CASE ListAnswered(i) \/ HydrateAnswered(i) \/ SearchAnswered(i) \/ GlobAnswered(i) \/ TrashAnswered(i)
      BY <2>2, <3>2 DEF ListAnswered, HydrateAnswered, SearchAnswered, GlobAnswered, TrashAnswered
    <3>3. CASE MetaAnswered(i)
      BY <3>3 DEF MetaAnswered, MetadataOfSelected
    <3>4. CASE DeleteAnswered(i)
      BY <3>4 DEF DeleteAnswered, MetadataOfSelected
    <3>5. CASE onFileTagged(i) \/ onIndexUpdated(i)
      BY <2>2, <3>5 DEF onFileTagged, onIndexUpdated
    <3>6. CASE onShowWindow(i)
      BY <2>1, <3>6 DEF onShowWindow, Visit
    <3> QED BY <3>1, <3>2, <3>3, <3>4, <3>5, <3>6
  <2>6. CASE Disconnect \/ Reconnect \/ UNCHANGED vars
    BY <2>2, <2>6 DEF Disconnect, Reconnect, vars
  <2> QED BY <2>3, <2>4, <2>5, <2>6 DEF Next
<1> QED BY <1>1, <1>2, PTL DEF Spec

-----------------------------------------------------------------------------
(***************************************************************************)
(* What the directory list shows                                           *)
(***************************************************************************)

\* A call of one of these kinds that no other is newer than, and that is not
\* older than what the list shows.
Latest(id, kinds, list) ==
  /\ id \in DOMAIN pending /\ pending[id].kind \in kinds /\ pending[id].load >= newest[list]
  /\ \A k \in DOMAIN pending : pending[k].kind \in kinds => pending[k].load <= pending[id].load

InDir(d, hid) == {f \in Files : DirOf[f] = d /\ (f \in Hidden => hid)}

Listed(fs, d, hid) ==
  /\ fs \subseteq InDir(d, hid)
  /\ faults = 0 /\ ~Deleting => fs = InDir(d, hid) \cap present

\* The latest call that lists a directory lists the one on screen, so does
\* its answer, and when none is awaited the list is of that directory.
LatestLists(id) ==
  /\ pending[id].dir = currentPath /\ pending[id].hid = showHidden
  /\ \A i \in DOMAIN wire : wire[i].kind = "answer" /\ wire[i].id = id =>
       Listed(DOMAIN wire[i].entries, currentPath, showHidden)

ListShown == Awaiting({"list"}, "list") \/ Listed(DOMAIN dirEntries, currentPath, showHidden)

ListInv ==
  ~isSearchMode /\ ~isTrashView /\ "list" \notin late =>
    /\ \A id \in DOMAIN pending : Latest(id, {"list"}, "list") => LatestLists(id)
    /\ ListShown

\* A new call: it is the latest of its kinds, awaited, and without an answer.
LEMMA NewIsLatest ==
  ASSUME BrowserInv, NEW waiting, Beside(waiting), NEW c, NEW kinds, c.kind \in kinds, NEW list \in Lists,
         Adds(waiting, c, loads + 1), NothingNew, newest' = newest
  PROVE  /\ Awaiting(kinds, list)'
         /\ \A id \in DOMAIN pending' : Latest(id, kinds, list)' => id = nextID
         /\ \A i \in DOMAIN wire' : wire'[i].kind = "answer" => wire'[i].id # nextID
<1>1. /\ DOMAIN pending' = DOMAIN waiting \cup {nextID} /\ pending'[nextID].load = loads + 1
      /\ pending'[nextID].kind \in kinds /\ loads \in Nat /\ newest[list] \in 0 .. loads
  BY DEF Adds, BrowserInv, Registered, Window, Bounded
<1>2. \A id \in DOMAIN waiting : pending'[id].load <= loads /\ pending'[id].load \in Nat
  BY DEF Adds, Beside, BrowserInv, Registered, CallStates
<1>3. Awaiting(kinds, list)'
  BY <1>1 DEF Awaiting
<1>4. ASSUME NEW id \in DOMAIN pending', Latest(id, kinds, list)' PROVE id = nextID
  <2>1. pending'[nextID].load <= pending'[id].load
    BY <1>1, <1>4 DEF Latest
  <2> QED BY <1>1, <1>2, <2>1
<1>5. ASSUME NEW i \in DOMAIN wire', wire'[i].kind = "answer" PROVE wire'[i].id # nextID
  <2>1. PICK j \in DOMAIN wire : wire'[i] = wire[j]
    BY DEF NothingNew
  <2>2. wire[j].id \in 1 .. nextID - 1 /\ nextID \in Nat
    BY <1>5, <2>1 DEF BrowserInv, OnWire, Registered
  <2> QED BY <2>1, <2>2
<1> QED BY <1>3, <1>4, <1>5

LEMMA ListedAnew ==
  ASSUME BrowserInv, NEW waiting, Beside(waiting), NEW c, Adds(waiting, c, loads + 1), NothingNew, newest' = newest,
         c.kind = "list", c.dir = currentPath', c.hid = showHidden'
  PROVE  ListInv'
<1>1. /\ Awaiting({"list"}, "list")'
      /\ \A id \in DOMAIN pending' : Latest(id, {"list"}, "list")' => id = nextID
      /\ \A i \in DOMAIN wire' : wire'[i].kind = "answer" => wire'[i].id # nextID
  BY NewIsLatest DEF Lists
<1>2. pending'[nextID].dir = currentPath' /\ pending'[nextID].hid = showHidden'
  BY DEF Adds
<1> QED BY <1>1, <1>2 DEF ListInv, LatestLists, ListShown

\* The step disturbs nothing that the list is about.
LEMMA ListAside ==
  ASSUME ListInv,
         UNCHANGED <<isSearchMode, isTrashView, currentPath, showHidden>>,
         newest'["list"] = newest["list"], "list" \in late => "list" \in late',
         DOMAIN dirEntries' = DOMAIN dirEntries,
         faults' = 0 /\ ~Deleting' => faults = 0 /\ ~Deleting /\ present' = present,
         \A id \in DOMAIN pending' : pending'[id].kind = "list" =>
           id \in DOMAIN pending /\ pending'[id] = pending[id],
         \A id \in DOMAIN pending : pending[id].kind = "list" =>
           id \in DOMAIN pending' /\ pending'[id] = pending[id],
         \A i \in DOMAIN wire' : wire'[i].kind = "answer" /\ wire'[i].id \in DOMAIN pending'
                                 /\ pending'[wire'[i].id].kind = "list" =>
           \E j \in DOMAIN wire : wire'[i] = wire[j]
  PROVE  ListInv'
<1> SUFFICES ASSUME ~isSearchMode', ~isTrashView', "list" \notin late'
             PROVE  /\ \A id \in DOMAIN pending' : Latest(id, {"list"}, "list")' => LatestLists(id)'
                    /\ ListShown'
  BY DEF ListInv
<1>1. \A fs, d, hid : Listed(fs, d, hid) => Listed(fs, d, hid)'
  BY DEF Listed
<1>2. ASSUME NEW id \in DOMAIN pending', Latest(id, {"list"}, "list")' PROVE LatestLists(id)'
  <2>1. /\ id \in DOMAIN pending /\ pending'[id] = pending[id] /\ Latest(id, {"list"}, "list")
    BY <1>2 DEF Latest
  <2>2. LatestLists(id)
    BY <2>1 DEF ListInv
  <2>3. pending'[id].kind = "list"
    BY <1>2 DEF Latest
  <2> QED BY <1>1, <2>1, <2>2, <2>3 DEF LatestLists
<1>3. ListShown'
  <2>1. Awaiting({"list"}, "list") => Awaiting({"list"}, "list")'
    BY DEF Awaiting
  <2> QED BY <1>1, <2>1 DEF ListInv, ListShown
<1> QED BY <1>2, <1>3

LEMMA ListedByUser ==
  ASSUME BrowserInv, ListInv, User
  PROVE  ListInv'
<1> USE Alongside
<1>1. BrowserInv /\ showHidden \in BOOLEAN /\ currentPath \in Dirs /\ Registered
  BY DEF BrowserInv, Window, Shown, Placed
<1>2. Beside(pending)
  BY <1>1
<1>3. ASSUME NEW d \in Dirs, navigateTo(d) PROVE ListInv'
  BY <1>1, <1>2, <1>3, ListingIs, Asking, ListedAnew DEF navigateTo, Visit
<1>4. ASSUME NEW i, GoTo(i) PROVE ListInv'
  <2>1. hist[i] \in Dirs
    BY <1>4 DEF GoTo, BrowserInv, Window, Placed
  <2> QED BY <1>1, <1>2, <1>4, <2>1, ListingIs, Asking, ListedAnew DEF GoTo
<1>5. CASE navigateToTrash
  BY <1>5 DEF navigateToTrash, ListInv
<1>6. ASSUME NEW chips, executeSearch(chips) PROVE ListInv'
  BY <1>6 DEF executeSearch, ListInv
<1>7. CASE toggleHidden
  <2>1. CASE ~isSearchMode /\ ~isTrashView
    <3> DEFINE c == [ListDir(currentPath) EXCEPT !.hid = ~showHidden]
    <3>1. Ask(c) /\ showHidden' = (~showHidden) /\ currentPath' = currentPath
      BY <1>7, <2>1 DEF toggleHidden, place
    <3>2. c \in CallStates /\ c.kind = "list" /\ c.dir = currentPath /\ c.hid = (~showHidden)
      <4>1. (~showHidden) \in BOOLEAN
        OBVIOUS
      <4> QED BY <1>1, <4>1, ListingIs
    <3> HIDE DEF c
    <3> QED BY <1>1, <1>2, <3>1, <3>2, Asking, ListedAnew
  <2>2. CASE isSearchMode \/ isTrashView
    BY <1>7, <2>2 DEF toggleHidden, mode, ListInv
  <2> QED BY <2>1, <2>2
<1>8. CASE refresh
  <2>1. CASE ~isSearchMode /\ ~isTrashView
    <3>1. Ask(ListDir(currentPath)) /\ showHidden' = showHidden /\ currentPath' = currentPath
      BY <1>8, <2>1 DEF refresh, place
    <3> QED BY <1>1, <1>2, <3>1, ListingIs, Asking, ListedAnew
  <2>2. CASE isSearchMode \/ isTrashView
    BY <1>8, <2>2 DEF refresh, mode, ListInv
  <2> QED BY <2>1, <2>2
<1>9. ASSUME NEW c \in CallStates, c.kind \in {"meta", "delete"}, Ask(c),
             UNCHANGED <<isSearchMode, isTrashView, currentPath, showHidden, dirEntries>>
      PROVE  ListInv'
  <2>1. Adds(pending, c, loads + 1) /\ NothingNew /\ UNCHANGED <<present, newest, late, faults>>
    BY <1>1, <1>9, Asking
  <2>2. DOMAIN pending' = DOMAIN pending \cup {nextID} /\ pending'[nextID].kind # "list"
        /\ \A id \in DOMAIN pending : pending'[id] = pending[id]
    BY <1>9, <2>1 DEF Adds
  <2>3. Deleting => Deleting'
    BY <2>2 DEF Deleting
  <2> QED BY <1>9, <2>1, <2>2, <2>3, ListAside DEF NothingNew
<1>10. ASSUME NEW f \in Files, selectFile(f) PROVE ListInv'
  BY <1>9, <1>10, CallsAre DEF selectFile, mode, place
<1>11. CASE deleteSelected
  <2>1. {selectedFile} \in SUBSET Files
    BY <1>11 DEF deleteSelected, BrowserInv, Window, Shown
  <2> QED BY <1>9, <1>11, <2>1, CallsAre DEF deleteSelected, mode, place
<1> QED BY <1>3, <1>4, <1>5, <1>6, <1>7, <1>8, <1>10, <1>11 DEF User, goBack, goForward

\* The daemon lists what is there.
LEMMA ListedByAnswer ==
  ASSUME BrowserInv, ListInv, NEW id \in asked, Answer(id)
  PROVE  ListInv'
<1>1. id \in DOMAIN pending /\ pending[id] \in CallStates /\ faults \in Nat
  BY DEF BrowserInv, Registered, Window, Bounded
<1>2. PICK ok \in BOOLEAN :
        /\ faults' = (IF ok THEN faults ELSE faults + 1) /\ faults' <= MaxFaults
        /\ wire' = Append(wire, [Message("answer") EXCEPT
                     !.id = id, !.ok = ok, !.call = pending[id],
                     !.entries = IF ok THEN Found(pending[id]) ELSE NoEntries])
        /\ present' = IF ok /\ pending[id].kind = "delete" THEN present \ pending[id].files ELSE present
  BY DEF Answer
<1>3. Found(pending[id]) \in Entries /\ NoEntries \in Entries /\ id \in Nat
  BY <1>1, Finding, Nothing DEF BrowserInv, Registered, Window
<1>4. PICK m \in Messages : /\ wire' = Append(wire, m) /\ m.kind = "answer" /\ m.id = id
                            /\ m.entries = IF ok THEN Found(pending[id]) ELSE NoEntries
  <2> DEFINE a == [Message("answer") EXCEPT
                     !.id = id, !.ok = ok, !.call = pending[id],
                     !.entries = IF ok THEN Found(pending[id]) ELSE NoEntries]
  <2>1. a \in Messages /\ a.kind = "answer" /\ a.id = id
        /\ a.entries = IF ok THEN Found(pending[id]) ELSE NoEntries
    BY <1>1, <1>3, Messaging DEF Messages
  <2>2. wire' = Append(wire, a)
    BY <1>2
  <2> HIDE DEF a
  <2> QED BY <2>1, <2>2
<1>5. /\ DOMAIN wire' = DOMAIN wire \cup {Len(wire) + 1}
      /\ wire'[Len(wire) + 1] = m /\ \A i \in DOMAIN wire : wire'[i] = wire[i]
  BY <1>4, Sending DEF BrowserInv
<1>6. UNCHANGED <<pending, currentPath, showHidden, isSearchMode, isTrashView, dirEntries, newest, late>>
  BY DEF Answer, place, mode, observed
<1>7. faults' = 0 /\ ~Deleting' => faults = 0 /\ ~Deleting /\ present' = present /\ ok
  BY <1>1, <1>2, <1>6 DEF Deleting
<1>8. CASE pending[id].kind # "list"
  BY <1>4, <1>5, <1>6, <1>7, <1>8, ListAside
<1>9. CASE pending[id].kind = "list"
  <2>1. \A fs, d, hid : Listed(fs, d, hid) => Listed(fs, d, hid)'
    BY <1>7 DEF Listed
  <2>2. ASSUME pending[id].dir = currentPath, pending[id].hid = showHidden
        PROVE  Listed(DOMAIN m.entries, currentPath, showHidden)'
    <3>1. CASE ok
      <4>1. DOMAIN m.entries = {g \in present : DirOf[g] = currentPath /\ (g \in Hidden => showHidden)}
        BY <1>4, <1>9, <2>2, <3>1 DEF Found
      <4>2. present \subseteq Files
        BY DEF BrowserInv, Window, Stored
      <4> QED BY <1>6, <1>7, <4>1, <4>2 DEF Listed, InDir
    <3>2. CASE ~ok
      <4>1. DOMAIN m.entries = {}
        BY <1>4, <3>2, Nothing
      <4> QED BY <1>7, <3>2, <4>1 DEF Listed
    <3> QED BY <3>1, <3>2
  <2>3. ASSUME NEW k \in DOMAIN pending, LatestLists(k) PROVE LatestLists(k)'
    <3>1. ASSUME NEW i \in DOMAIN wire', wire'[i].kind = "answer", wire'[i].id = k
          PROVE  Listed(DOMAIN wire[i].entries, currentPath, showHidden)'
      <4>1. CASE i \in DOMAIN wire
        BY <1>5, <1>6, <2>1, <2>3, <3>1, <4>1 DEF LatestLists
      <4>2. CASE i = Len(wire) + 1
        BY <1>4, <1>5, <2>2, <2>3, <3>1, <4>2 DEF LatestLists
      <4> QED BY <1>5, <4>1, <4>2
    <3> QED BY <1>6, <2>3, <3>1 DEF LatestLists
  <2>4. ListShown => ListShown'
    BY <1>6, <2>1 DEF ListShown, Awaiting
  <2>5. \A k : Latest(k, {"list"}, "list")' => Latest(k, {"list"}, "list") /\ k \in DOMAIN pending
    BY <1>6 DEF Latest
  <2> QED BY <1>6, <2>3, <2>4, <2>5 DEF ListInv
<1> QED BY <1>8, <1>9

\* A callback of another kind returns.
LEMMA ListedByReturn ==
  ASSUME BrowserInv, ListInv, NEW i, NEW kind, Answered(i, kind), kind # "list",
         kind = "delete" => ~wire[i].ok, ReturnOnly(wire[i].id), UNCHANGED place, UNCHANGED mode,
         newest'["list"] = newest["list"], "list" \in late => "list" \in late',
         DOMAIN dirEntries' = DOMAIN dirEntries
  PROVE  ListInv'
<1> DEFINE id == wire[i].id
<1>1. Handle(i) /\ id \in DOMAIN pending \ asked /\ pending[id].kind = kind /\ (~wire[i].ok => faults # 0)
  BY Answering
<1>2. NothingNew /\ UNCHANGED <<faults, present, showHidden>>
  BY <1>1, Handling
<1>3. pending' = [k \in DOMAIN pending \ {id} |-> pending[k]]
  BY DEF ReturnOnly, Others
<1> HIDE DEF id
<1>4. faults' = 0 /\ ~Deleting' => faults = 0 /\ ~Deleting /\ present' = present
  BY <1>1, <1>2, <1>3 DEF Deleting, id
<1> QED BY <1>1, <1>2, <1>3, <1>4, ListAside DEF NothingNew, place, mode

\* A listing that has found files is followed by the request for their tags.
LEMMA HydrateFollows ==
  ASSUME BrowserInv, NEW i, ListAnswered(i)
  PROVE  LET id == wire[i].id IN
           /\ \A k \in DOMAIN pending' :
                \/ k \in DOMAIN pending \ {id} /\ pending'[k] = pending[k]
                \/ pending'[k].kind = "hydrate"
           /\ \A k \in DOMAIN pending \ {id} : k \in DOMAIN pending' /\ pending'[k] = pending[k]
<1> DEFINE id == wire[i].id
           c == pending[id]
<1>1. CASE DOMAIN wire[i].entries = {}
  <2>1. pending' = [k \in DOMAIN pending \ {id} |-> pending[k]]
    BY <1>1 DEF ListAnswered, ReturnOnly, Others
  <2> QED BY <2>1
<1>2. CASE DOMAIN wire[i].entries # {}
  <2> DEFINE h == [Call("hydrate") EXCEPT !.load = c.load, !.files = DOMAIN wire[i].entries]
  <2>1. Register(Others(id), h, asked) /\ h.kind = "hydrate"
    BY <1>2 DEF ListAnswered, Call
  <2> HIDE DEF h
  <2>2. nextID \notin DOMAIN pending
    BY DEF BrowserInv, Registered
  <2>3. [h EXCEPT !.sent = connected].kind = "hydrate"
    BY <2>1 DEF h, Call
  <2> DEFINE hs == [h EXCEPT !.sent = connected]
  <2>4. pending' = [k \in (DOMAIN pending \ {id}) \cup {nextID} |-> IF k = nextID THEN hs ELSE Others(id)[k]]
    BY <2>1 DEF Register, Others
  <2>5. \A k \in DOMAIN pending \ {id} : Others(id)[k] = pending[k]
    BY DEF Others
  <2> HIDE DEF hs, id
  <2>6. /\ \A k \in DOMAIN pending' :
             \/ k \in DOMAIN pending \ {id} /\ pending'[k] = pending[k]
             \/ pending'[k].kind = "hydrate"
        /\ \A k \in DOMAIN pending \ {id} : k \in DOMAIN pending' /\ pending'[k] = pending[k]
    BY <2>2, <2>3, <2>4, <2>5 DEF hs
  <2> QED BY <2>6 DEF id
<1> QED BY <1>1, <1>2

LEMMA ListedByListAnswered ==
  ASSUME BrowserInv, ListInv, NEW i, ListAnswered(i)
  PROVE  ListInv'
<1> DEFINE id == wire[i].id
           c == pending[id]
<1>1. Answered(i, "list") /\ Applied("list", c.load) /\ dirEntries' = wire[i].entries
      /\ UNCHANGED <<currentPath, isSearchMode, isTrashView>>
  BY DEF ListAnswered, place, mode
<1>2. /\ Handle(i) /\ id \in DOMAIN pending \ asked /\ c.kind = "list" /\ wire[i].kind = "answer"
      /\ i \in DOMAIN wire
  BY <1>1, Answering, Handling
<1>3. NothingNew /\ UNCHANGED <<faults, present, showHidden>>
  BY <1>2, Handling
<1>4. newest \in [Lists -> 0 .. loads] /\ "list" \in Lists /\ \A k \in DOMAIN pending : pending[k].load \in Nat
  BY DEF BrowserInv, Registered, CallStates, Window, Bounded, Lists
<1>5. newest'["list"] = c.load /\ ("list" \notin late' => "list" \notin late /\ newest["list"] <= c.load)
  BY <1>1, <1>2, <1>4 DEF Applied
<1>6. /\ \A k \in DOMAIN pending' : \/ k \in DOMAIN pending \ {id} /\ pending'[k] = pending[k]
                                    \/ pending'[k].kind = "hydrate"
      /\ \A k \in DOMAIN pending \ {id} : k \in DOMAIN pending' /\ pending'[k] = pending[k]
  BY HydrateFollows
<1>7. \A fs, d, hid : Listed(fs, d, hid) => Listed(fs, d, hid)'
  <2>1. Deleting => Deleting'
    BY <1>2, <1>6 DEF Deleting
  <2> QED BY <1>3, <2>1 DEF Listed
<1> SUFFICES ASSUME ~isSearchMode, ~isTrashView, "list" \notin late, newest["list"] <= c.load
             PROVE  /\ \A k \in DOMAIN pending' : Latest(k, {"list"}, "list")' => LatestLists(k)'
                    /\ ListShown'
  BY <1>1, <1>5 DEF ListInv
<1> HIDE DEF c
<1>8. ASSUME NEW k \in DOMAIN pending, k # id, pending[k].kind = "list", pending[k].load >= c.load,
             \A l \in DOMAIN pending' : pending'[l].kind = "list" => pending'[l].load <= pending[k].load
      PROVE  Latest(k, {"list"}, "list")
  <2>1. \A l \in DOMAIN pending : pending[l].kind = "list" => pending[l].load <= pending[k].load
    BY <1>6, <1>8 DEF c
  <2>2. pending[k].load >= newest["list"]
    BY <1>2, <1>4, <1>8 DEF c
  <2> QED BY <1>8, <2>1, <2>2 DEF Latest
<1>9. ASSUME NEW k \in DOMAIN pending', Latest(k, {"list"}, "list")' PROVE LatestLists(k)'
  <2>1. pending'[k].kind = "list" /\ pending'[k].load >= c.load
        /\ \A l \in DOMAIN pending' : pending'[l].kind = "list" => pending'[l].load <= pending'[k].load
    BY <1>5, <1>9 DEF Latest
  <2>2. k \in DOMAIN pending \ {id} /\ pending'[k] = pending[k]
    BY <1>6, <2>1
  <2>3. LatestLists(k)
    BY <1>8, <2>1, <2>2 DEF ListInv
  <2> QED BY <1>1, <1>3, <1>7, <2>2, <2>3 DEF LatestLists, NothingNew
<1>10. ListShown'
  <2> SUFFICES ASSUME ~Awaiting({"list"}, "list")' PROVE Listed(DOMAIN dirEntries, currentPath, showHidden)'
    BY DEF ListShown
  <2>1. \A k \in DOMAIN pending : pending[k].kind = "list" => pending[k].load <= c.load
    <3>1. ASSUME NEW k \in DOMAIN pending, pending[k].kind = "list", k # id PROVE pending[k].load <= c.load
      <4>1. k \in DOMAIN pending' /\ pending'[k] = pending[k]
        BY <1>6, <3>1
      <4>2. ~(pending[k].load > newest'["list"])
        BY <3>1, <4>1 DEF Awaiting
      <4> QED BY <1>2, <1>4, <1>5, <4>2 DEF c
    <3> QED BY <1>2, <1>4, <3>1 DEF c
  <2>2. Latest(id, {"list"}, "list")
    BY <1>2, <1>4, <2>1 DEF Latest, c
  <2>3. Listed(DOMAIN wire[i].entries, currentPath, showHidden)
    BY <1>2, <2>2 DEF ListInv, LatestLists
  <2>4. PICK fs : fs = DOMAIN wire[i].entries
    OBVIOUS
  <2> QED BY <1>1, <1>3, <1>7, <2>3, <2>4
<1> QED BY <1>9, <1>10

LEMMA ListedByDelivery ==
  ASSUME BrowserInv, ListInv, NEW i \in DOMAIN wire,
         \/ HydrateAnswered(i) \/ SearchAnswered(i) \/ GlobAnswered(i)
         \/ TrashAnswered(i) \/ MetaAnswered(i) \/ DeleteAnswered(i)
         \/ onFileTagged(i) \/ onIndexUpdated(i) \/ onShowWindow(i)
  PROVE  ListInv'
<1> DEFINE id == wire[i].id
           c == pending[id]
<1>1. CASE HydrateAnswered(i)
  <2>1. Answered(i, "hydrate") /\ Applied("hydrate", c.load)
    BY <1>1 DEF HydrateAnswered
  <2>2. dirEntries \in Entries /\ wire[i].entries \in Entries
    BY <2>1, Answering DEF BrowserInv, Window, Shown
  <2>3. DOMAIN dirEntries' = DOMAIN dirEntries
    BY <1>1, <2>2, Hydrating DEF HydrateAnswered
  <2>4. newest'["list"] = newest["list"] /\ ("list" \in late => "list" \in late')
    BY <2>1 DEF Applied, BrowserInv, Window, Bounded, Lists
  <2> QED BY <1>1, <2>1, <2>3, <2>4, ListedByReturn DEF HydrateAnswered
<1>2. CASE GlobAnswered(i)
  <2>1. Answered(i, "glob") /\ Applied("search", c.load)
    BY <1>2 DEF GlobAnswered
  <2>2. newest'["list"] = newest["list"] /\ ("list" \in late => "list" \in late')
    BY <2>1 DEF Applied, BrowserInv, Window, Bounded, Lists
  <2> QED BY <1>2, <2>1, <2>2, ListedByReturn DEF GlobAnswered
<1>3. CASE TrashAnswered(i) \/ MetaAnswered(i)
  BY <1>3, ListedByReturn DEF TrashAnswered, MetaAnswered, observed
<1>4. CASE SearchAnswered(i)
  <2>1. Answered(i, "search")
    BY <1>4 DEF SearchAnswered
  <2>2. CASE DOMAIN wire[i].entries = {} /\ c.chips.glob
    <3> DEFINE g == [c EXCEPT !.kind = "glob"]
    <3>1. Register(Others(id), g, asked) /\ Handle(i) /\ id \in DOMAIN pending \ asked
          /\ c \in CallStates /\ c.kind = "search"
          /\ UNCHANGED <<loads, newest, late, dirEntries>>
      BY <1>4, <2>1, <2>2, Answering DEF SearchAnswered, observed
    <3>2. g \in CallStates /\ g.kind = "glob" /\ g.load = c.load /\ c.load <= loads /\ loads \in Nat
      BY <3>1, Calling DEF CallStates, BrowserInv, Registered
    <3>3. Beside(Others(id)) /\ DOMAIN Others(id) = DOMAIN pending \ {id} /\ connected \in BOOLEAN
      BY <3>1, Alongside DEF BrowserInv, Window, Stored
    <3> HIDE DEF g
    <3>4. Adds(Others(id), g, c.load)
      <4>1. g.load <= loads' /\ loads' \in Nat /\ loads <= loads'
        BY <3>1, <3>2
      <4> QED BY <3>1, <3>2, <3>3, <4>1, Registering DEF BrowserInv
    <3>5. NothingNew /\ UNCHANGED <<faults, present, showHidden>>
      BY <3>1, Handling
    <3>6. /\ \A k \in DOMAIN pending' : pending'[k].kind = "list" => k \in DOMAIN pending /\ pending'[k] = pending[k]
          /\ \A k \in DOMAIN pending \ {id} : k \in DOMAIN pending' /\ pending'[k] = pending[k]
      BY <3>2, <3>3, <3>4 DEF Adds, Beside
    <3>7. Deleting => Deleting'
      BY <3>1, <3>6 DEF Deleting
    <3> QED BY <1>4, <3>1, <3>5, <3>6, <3>7, ListAside DEF NothingNew, SearchAnswered, place, mode
  <2>3. CASE ~(DOMAIN wire[i].entries = {} /\ c.chips.glob)
    <3>1. Applied("search", c.load) /\ ReturnOnly(id) /\ UNCHANGED <<place, mode, dirEntries>>
      BY <1>4, <2>3 DEF SearchAnswered
    <3>2. newest'["list"] = newest["list"] /\ ("list" \in late => "list" \in late')
      BY <3>1 DEF Applied, BrowserInv, Window, Bounded, Lists
    <3> QED BY <2>1, <3>1, <3>2, ListedByReturn
  <2> QED BY <2>2, <2>3
<1>5. CASE DeleteAnswered(i)
  <2>1. Answered(i, "delete") /\ UNCHANGED <<place, mode, dirEntries, newest, late>>
    BY <1>5 DEF DeleteAnswered
  <2>2. CASE wire[i].ok
    <3>1. Load(Others(id), IF isTrashView THEN Call("trash") ELSE ListDir(currentPath))
      BY <1>5, <2>2 DEF DeleteAnswered
    <3>2. Handle(i) /\ id \in DOMAIN pending \ asked
      BY <2>1, Answering
    <3>3. NothingNew /\ UNCHANGED <<faults, present, showHidden>>
      BY <3>2, Handling
    <3>4. CASE isTrashView
      BY <2>1, <3>4 DEF mode, ListInv
    <3>5. CASE ~isTrashView
      <4>1. ListDir(currentPath) \in CallStates /\ ListDir(currentPath).kind = "list"
            /\ ListDir(currentPath).dir = currentPath /\ ListDir(currentPath).hid = showHidden
        BY ListingIs DEF BrowserInv, Window, Placed, Shown
      <4>2. Beside(Others(id)) /\ connected \in BOOLEAN
        BY <3>2, Alongside DEF BrowserInv, Window, Stored
      <4>3. Adds(Others(id), ListDir(currentPath), loads + 1)
        BY <3>1, <3>5, <4>1, <4>2, Loading DEF BrowserInv
      <4>4. currentPath' = currentPath
        BY <2>1 DEF place
      <4> QED BY <2>1, <3>3, <4>1, <4>2, <4>3, <4>4, ListedAnew
    <3> QED BY <3>4, <3>5
  <2>3. CASE ~wire[i].ok
    BY <1>5, <2>1, <2>3, ListedByReturn DEF DeleteAnswered
  <2> QED BY <2>2, <2>3
<1>6. CASE onFileTagged(i)
  <2>1. Handle(i) /\ UNCHANGED <<pending, newest, late, currentPath, isSearchMode, isTrashView>>
    BY <1>6 DEF onFileTagged, client, observed, place, mode
  <2>2. wire[i] \in Messages /\ NothingNew /\ UNCHANGED <<faults, present, showHidden>>
    BY <2>1, Handling
  <2>3. DOMAIN dirEntries' = DOMAIN dirEntries
    BY <1>6, <2>2, Patching DEF onFileTagged, BrowserInv, Window, Shown
  <2> QED BY <2>1, <2>2, <2>3, ListAside DEF NothingNew, Deleting
<1>7. CASE onIndexUpdated(i)
  <2>1. CASE isSearchMode
    BY <1>7, <2>1 DEF onIndexUpdated, mode, ListInv
  <2>2. CASE ~isSearchMode
    <3>1. Handle(i) /\ UNCHANGED <<pending, newest, late, currentPath, isSearchMode, isTrashView, dirEntries>>
      BY <1>7, <2>2 DEF onIndexUpdated, client, observed, place, mode
    <3>2. NothingNew /\ UNCHANGED <<faults, present, showHidden>>
      BY <3>1, Handling
    <3> QED BY <3>1, <3>2, ListAside DEF NothingNew, Deleting
  <2> QED BY <2>1, <2>2
<1>8. CASE onShowWindow(i)
  <2> DEFINE d == wire[i].dir
  <2>1. Handle(i) /\ currentPath' = d /\ Load(pending, ListDir(d)) /\ newest' = newest
    BY <1>8 DEF onShowWindow, Visit
  <2>2. wire[i] \in Messages /\ NothingNew /\ showHidden' = showHidden
    BY <2>1, Handling
  <2>3. d \in Dirs
    BY <2>2 DEF Messages
  <2> HIDE DEF d
  <2>4. ListDir(d) \in CallStates /\ ListDir(d).kind = "list" /\ ListDir(d).dir = d
        /\ ListDir(d).hid = showHidden /\ connected \in BOOLEAN
    BY <2>3, ListingIs DEF BrowserInv, Window, Shown, Stored
  <2>5. Beside(pending) /\ Adds(pending, ListDir(d), loads + 1)
    BY <2>1, <2>4, Alongside, Loading DEF BrowserInv
  <2> QED BY <2>1, <2>2, <2>4, <2>5, ListedAnew
<1> QED BY <1>1, <1>2, <1>3, <1>4, <1>5, <1>6, <1>7, <1>8

\* The connection breaks: nothing is asked for, a list that was awaited is
\* emptied.
LEMMA ListedByDisconnecting ==
  ASSUME BrowserInv, ListInv, Disconnect
  PROVE  ListInv'
<1>1. /\ wire' = <<>> /\ faults' # 0
      /\ \A n \in DOMAIN pending' : pending'[n].kind = "glob"
  <2>1. faults \in Nat
    BY DEF BrowserInv, Window, Bounded
  <2> QED BY <2>1, Dropping
<1>2. UNCHANGED <<currentPath, showHidden, isSearchMode, isTrashView, newest, late>>
  BY DEF Disconnect, place, mode, observed
<1>3. dirEntries' = IF Failed({"list"}) # {} THEN NoEntries ELSE dirEntries
  BY DEF Disconnect
<1> SUFFICES ASSUME ~isSearchMode, ~isTrashView, "list" \notin late
             PROVE  Listed(DOMAIN dirEntries, currentPath, showHidden)'
  BY <1>1, <1>2 DEF ListInv, Latest, ListShown
<1>4. CASE Failed({"list"}) # {}
  BY <1>1, <1>3, <1>4, Nothing DEF Listed
<1>5. CASE Failed({"list"}) = {}
  <2>1. ~Awaiting({"list"}, "list")
    BY <1>5 DEF Failed, Awaiting
  <2>2. Listed(DOMAIN dirEntries, currentPath, showHidden)
    BY <2>1 DEF ListInv, ListShown
  <2> QED BY <1>1, <1>2, <1>3, <1>5, <2>2 DEF Listed
<1> QED BY <1>4, <1>5

LEMMA ListStep == BrowserInv /\ ListInv /\ [Next]_vars => ListInv'
<1> SUFFICES ASSUME BrowserInv, ListInv, [Next]_vars PROVE ListInv'
  OBVIOUS
<1>1. CASE User
  BY <1>1, ListedByUser
<1>2. CASE Daemon
  <2>1. PICK m : Event(m) /\ m.kind # "answer" /\ m \in Messages
    <3>1. ASSUME NEW f \in Files, NEW tags \in SUBSET Tags, ChangeTags(f, tags)
          PROVE  \E m : Event(m) /\ m.kind # "answer" /\ m \in Messages
      <4> DEFINE m == [Message("fileTagged") EXCEPT !.file = f, !.added = tags \ tagsOf[f],
                                                    !.removed = tagsOf[f] \ tags]
      <4>1. m \in Messages /\ m.kind = "fileTagged" /\ Event(m)
        BY <3>1, Messaging DEF ChangeTags, Messages, BrowserInv, Window, Stored
      <4> QED BY <4>1
    <3>2. CASE UpdateIndex
      BY <3>2, Messaging DEF UpdateIndex
    <3>3. ASSUME NEW d \in Dirs, ShowWindow(d)
          PROVE  \E m : Event(m) /\ m.kind # "answer" /\ m \in Messages
      <4> DEFINE m == [Message("showWindow") EXCEPT !.dir = d]
      <4>1. m \in Messages /\ m.kind = "showWindow" /\ Event(m)
        BY <3>3, Messaging DEF ShowWindow, Messages
      <4> QED BY <4>1
    <3> QED BY <1>2, <3>1, <3>2, <3>3 DEF Daemon
  <2>2. UNCHANGED <<pending, newest, late, currentPath, showHidden, isSearchMode, isTrashView, dirEntries,
                    faults, present>>
    BY <2>1 DEF Event, client, link, place, mode, observed
  <2>3. \A j \in DOMAIN wire' : wire'[j].kind = "answer" => \E k \in DOMAIN wire : wire'[j] = wire[k]
    BY <2>1, Sending DEF Event, BrowserInv
  <2> QED BY <2>2, <2>3, ListAside DEF Deleting
<1>3. CASE Answers
  BY <1>3, ListedByAnswer DEF Answers
<1>4. CASE Deliver
  BY <1>4, ListedByListAnswered, ListedByDelivery DEF Deliver
<1>5. CASE Disconnect
  BY <1>5, ListedByDisconnecting
<1>6. CASE Reconnect \/ UNCHANGED vars
  <2>1. UNCHANGED <<pending, newest, late, currentPath, showHidden, isSearchMode, isTrashView, dirEntries,
                    faults, present, wire>>
    BY <1>6 DEF Reconnect, vars, client, link, disk, place, mode, observed
  <2> QED BY <2>1, ListAside DEF Deleting
<1> QED BY <1>1, <1>2, <1>3, <1>4, <1>5, <1>6 DEF Next

LEMMA ListBegins == Init => ListInv
<1> SUFFICES ASSUME Init PROVE ListInv
  OBVIOUS
<1> DEFINE c == [Call("list") EXCEPT !.dir = Root, !.load = 1]
<1>1. c.kind = "list" /\ c.dir = Root /\ c.hid = FALSE /\ c.load = 1
  BY DEF Call
<1>2. /\ pending = [id \in {1} |-> c] /\ wire = <<>> /\ currentPath = Root /\ showHidden = FALSE
      /\ newest = [l \in Lists |-> 0]
  BY DEF Init
<1> HIDE DEF c
<1>3. Awaiting({"list"}, "list")
  <2>1. 1 \in DOMAIN pending /\ pending[1] = c /\ newest["list"] = 0
    BY <1>2 DEF Lists
  <2> QED BY <1>1, <2>1 DEF Awaiting
<1>4. \A id \in DOMAIN pending : LatestLists(id)
  <2>1. ASSUME NEW id \in DOMAIN pending PROVE LatestLists(id)
    <3>1. pending[id] = c /\ DOMAIN wire = {}
      BY <1>2
    <3> QED BY <1>1, <1>2, <3>1 DEF LatestLists
  <2> QED BY <2>1
<1> QED BY <1>3, <1>4 DEF ListInv, ListShown

\* Wherever the user has gone, once every answer has come and none came after
\* a newer one, the window shows the directory the history names
\* (navigateTo, goBack, goForward, the callback of _loadDirectory).
THEOREM TheDirectoryShown == Spec => []ShowsCurrentPath
<1>1. BrowserInv /\ ListInv => ShowsCurrentPath
  <2> SUFFICES ASSUME BrowserInv, ListInv, ~isSearchMode, ~isTrashView, "list" \notin late,
                      ~Awaiting({"list"}, "list")
               PROVE  /\ \A f \in DOMAIN dirEntries : DirOf[f] = hist[histIndex] /\ (f \in Hidden => showHidden)
                      /\ faults = 0 /\ ~Deleting =>
                           DOMAIN dirEntries = {f \in present : DirOf[f] = currentPath /\ (f \in Hidden => showHidden)}
    BY DEF ShowsCurrentPath
  <2>1. Listed(DOMAIN dirEntries, currentPath, showHidden)
    BY DEF ListInv, ListShown
  <2>2. currentPath = hist[histIndex] /\ present \subseteq Files
    BY DEF BrowserInv, Window, Placed, Stored
  <2> QED BY <2>1, <2>2 DEF Listed, InDir
<1>2. BrowserInv /\ ListInv /\ [Next]_vars => (BrowserInv /\ ListInv)'
  BY BrowserStep, ListStep
<1>3. Init => BrowserInv /\ ListInv
  BY BrowserBegins, ListBegins
<1> QED BY <1>1, <1>2, <1>3, PTL DEF Spec

-----------------------------------------------------------------------------
(***************************************************************************)
(* What the results of a search show                                       *)
(***************************************************************************)
SearchKinds == {"search", "glob"}

\* What each kind of call finds for the search on screen, and what it should
\* show in the end.
Hits(kind) ==
  IF kind = "search" THEN Matches(searchChips)
  ELSE {f \in Globbed : f \in Hidden => showHidden \/ searchChips.any}
Expected ==
  IF Matches(searchChips) # {} \/ ~searchChips.glob THEN Matches(searchChips) ELSE Hits("glob")

\* The latest call that searches is for the chips on screen, so is its answer;
\* the pattern is asked for when the tags have found nothing.
LatestSearches(id) ==
  /\ pending[id].chips = searchChips /\ pending[id].hid = (showHidden \/ searchChips.any)
  /\ pending[id].kind = "search" => searchChips.tags # {}
  /\ pending[id].kind = "glob" => Matches(searchChips) = {} /\ searchChips.glob
  /\ \A i \in DOMAIN wire : wire[i].kind = "answer" /\ wire[i].id = id =>
       DOMAIN wire[i].entries = Hits(pending[id].kind)

SearchShown == Awaiting(SearchKinds, "search") \/ DOMAIN searchResults = Expected

Searched == isSearchMode /\ "search" \notin late /\ faults = 0 /\ events = 0 /\ present = Files

SearchInv ==
  Searched =>
    /\ \A id \in DOMAIN pending : Latest(id, SearchKinds, "search") => LatestSearches(id)
    /\ SearchShown

LEMMA SearchedAnew ==
  ASSUME BrowserInv, NEW waiting, Beside(waiting), NEW c, Adds(waiting, c, loads + 1), NothingNew, newest' = newest,
         c.chips = searchChips', c.hid = (showHidden' \/ searchChips'.any), Searchable(searchChips'),
         c.kind = IF searchChips'.tags # {} THEN "search" ELSE "glob"
  PROVE  SearchInv'
<1>1. /\ Awaiting(SearchKinds, "search")'
      /\ \A id \in DOMAIN pending' : Latest(id, SearchKinds, "search")' => id = nextID
      /\ \A i \in DOMAIN wire' : wire'[i].kind = "answer" => wire'[i].id # nextID
  BY NewIsLatest DEF Lists, SearchKinds
<1>2. /\ pending'[nextID].chips = searchChips' /\ pending'[nextID].hid = (showHidden' \/ searchChips'.any)
      /\ pending'[nextID].kind = IF searchChips'.tags # {} THEN "search" ELSE "glob"
  BY DEF Adds
<1>3. searchChips'.tags = {} => Matches(searchChips)' = {} /\ searchChips'.glob
  BY DEF Matches, Searchable
<1> QED BY <1>1, <1>2, <1>3 DEF SearchInv, LatestSearches, SearchShown

\* Chips that name nothing find nothing, and no call is newer.
LEMMA SearchedNothing ==
  ASSUME BrowserInv, UNCHANGED pending, ~Searchable(searchChips'),
         newest' = [newest EXCEPT !["search"] = loads + 1], searchResults' = NoEntries
  PROVE  SearchInv'
<1>1. newest'["search"] = loads + 1 /\ loads \in Nat
      /\ \A id \in DOMAIN pending : pending[id].load <= loads /\ pending[id].load \in Nat
  BY DEF BrowserInv, Registered, CallStates, Window, Bounded, Lists
<1>2. \A id \in DOMAIN pending' : ~(pending'[id].load >= newest'["search"])
  BY <1>1
<1>3. Matches(searchChips)' = {} /\ ~searchChips'.glob /\ DOMAIN searchResults' = {}
  BY Nothing DEF Searchable, Matches
<1> QED BY <1>2, <1>3 DEF SearchInv, Latest, SearchShown, Expected

\* The step disturbs nothing that the search is about.
LEMMA SearchAside ==
  ASSUME SearchInv,
         UNCHANGED <<isSearchMode, searchChips, showHidden, tagsOf>>,
         newest'["search"] = newest["search"], "search" \in late => "search" \in late',
         DOMAIN searchResults' = DOMAIN searchResults,
         faults' = 0 => faults = 0, events' = 0 => events = 0, present' = Files => present = Files,
         \A id \in DOMAIN pending' : pending'[id].kind \in SearchKinds =>
           id \in DOMAIN pending /\ pending'[id] = pending[id],
         \A id \in DOMAIN pending : pending[id].kind \in SearchKinds =>
           id \in DOMAIN pending' /\ pending'[id] = pending[id],
         \A i \in DOMAIN wire' : wire'[i].kind = "answer" /\ wire'[i].id \in DOMAIN pending'
                                 /\ pending'[wire'[i].id].kind \in SearchKinds =>
           \E j \in DOMAIN wire : wire'[i] = wire[j]
  PROVE  SearchInv'
<1> SUFFICES ASSUME Searched'
             PROVE  /\ \A id \in DOMAIN pending' : Latest(id, SearchKinds, "search")' => LatestSearches(id)'
                    /\ SearchShown'
  BY DEF SearchInv
<1>1. Searched /\ present' = present
  BY DEF Searched
<1>2. Matches(searchChips)' = Matches(searchChips) /\ Expected' = Expected
      /\ \A kind : Hits(kind)' = Hits(kind)
  BY <1>1 DEF Matches, Expected, Hits
<1>3. ASSUME NEW id \in DOMAIN pending', Latest(id, SearchKinds, "search")' PROVE LatestSearches(id)'
  <2>1. pending'[id].kind \in SearchKinds
    BY <1>3 DEF Latest
  <2>2. id \in DOMAIN pending /\ pending'[id] = pending[id] /\ Latest(id, SearchKinds, "search")
    BY <1>3, <2>1 DEF Latest
  <2>3. LatestSearches(id)
    BY <1>1, <2>2 DEF SearchInv
  <2> QED BY <1>2, <2>1, <2>2, <2>3 DEF LatestSearches
<1>4. SearchShown'
  <2>1. Awaiting(SearchKinds, "search") => Awaiting(SearchKinds, "search")'
    BY DEF Awaiting
  <2> QED BY <1>1, <1>2, <2>1 DEF SearchInv, SearchShown
<1> QED BY <1>3, <1>4

\* A search is executed.
LEMMA SearchedByExecution ==
  ASSUME BrowserInv, ExecuteSearch(searchChips', showHidden'), searchChips' \in Searches \cup {NoChips},
         showHidden' \in BOOLEAN
  PROVE  SearchInv'
<1> DEFINE chips == searchChips'
           hid == showHidden'
<1>1. CASE Searchable(chips)
  <2>1. Ask(SearchCall(chips, hid))
    BY <1>1 DEF ExecuteSearch
  <2>2. LET c == SearchCall(chips, hid) IN
          /\ c \in CallStates /\ c.chips = chips /\ c.hid = (hid \/ chips.any)
          /\ c.kind = IF chips.tags # {} THEN "search" ELSE "glob"
    BY SearchCalls
  <2>3. Adds(pending, SearchCall(chips, hid), loads + 1) /\ NothingNew /\ newest' = newest /\ Beside(pending)
    BY <2>1, <2>2, Asking, Alongside DEF BrowserInv
  <2> QED BY <1>1, <2>2, <2>3, SearchedAnew
<1>2. CASE ~Searchable(chips)
  <2>1. newest' = [newest EXCEPT !["search"] = loads + 1] /\ searchResults' = NoEntries
        /\ UNCHANGED pending
    BY <1>2 DEF ExecuteSearch, Applied, client
  <2> QED BY <1>2, <2>1, SearchedNothing
<1> QED BY <1>1, <1>2

LEMMA SearchedByUser ==
  ASSUME BrowserInv, SearchInv, User
  PROVE  SearchInv'
<1>1. Window'
  BY KeptByUser DEF Kept
<1>2. searchChips' \in Searches \cup {NoChips} /\ showHidden' \in BOOLEAN
  BY <1>1 DEF Window, Shown
<1>3. CASE ~isSearchMode'
  BY <1>3 DEF SearchInv, Searched
<1>4. CASE ExecuteSearch(searchChips', showHidden')
  BY <1>2, <1>4, SearchedByExecution
<1>5. ASSUME NEW c \in CallStates, c.kind \notin SearchKinds, Ask(c),
             UNCHANGED <<isSearchMode, searchChips, showHidden, searchResults>>
      PROVE  SearchInv'
  <2>1. Adds(pending, c, loads + 1) /\ NothingNew
        /\ UNCHANGED <<present, tagsOf, newest, late, faults, events>>
    BY <1>5, Asking
  <2>2. DOMAIN pending' = DOMAIN pending \cup {nextID} /\ pending'[nextID].kind \notin SearchKinds
        /\ \A id \in DOMAIN pending : pending'[id] = pending[id]
    BY <1>5, <2>1 DEF Adds
  <2> QED BY <1>5, <2>1, <2>2, SearchAside DEF NothingNew
<1>6. ASSUME NEW d, navigateTo(d) PROVE SearchInv'
  BY <1>3, <1>6 DEF navigateTo, Visit, Leave
<1>7. ASSUME NEW i, GoTo(i) PROVE SearchInv'
  BY <1>3, <1>7 DEF GoTo, Leave
<1>8. CASE navigateToTrash
  BY <1>3, <1>8 DEF navigateToTrash, Leave
<1>9. ASSUME NEW chips, executeSearch(chips) PROVE SearchInv'
  BY <1>4, <1>9 DEF executeSearch
<1>10. CASE toggleHidden
  <2>1. CASE isSearchMode
    <3>1. ExecuteSearch(searchChips, ~showHidden) /\ searchChips' = searchChips /\ showHidden' = (~showHidden)
      BY <1>10, <2>1 DEF toggleHidden, mode
    <3> QED BY <1>4, <3>1
  <2>2. CASE ~isSearchMode
    BY <1>3, <1>10, <2>2 DEF toggleHidden, mode
  <2> QED BY <2>1, <2>2
<1>11. CASE refresh
  <2>1. CASE isTrashView
    <3>1. Call("trash") \in CallStates /\ Call("trash").kind \notin SearchKinds
      BY CallsAre DEF SearchKinds
    <3> QED BY <1>5, <1>11, <2>1, <3>1 DEF refresh, mode
  <2>2. CASE isSearchMode /\ ~isTrashView
    BY <1>4, <1>11, <2>2 DEF refresh, mode
  <2>3. CASE ~isSearchMode
    BY <1>3, <1>11, <2>3 DEF refresh, mode
  <2> QED BY <2>1, <2>2, <2>3
<1>12. ASSUME NEW f \in Files, selectFile(f) PROVE SearchInv'
  <2>1. [Call("meta") EXCEPT !.files = {f}] \in CallStates
        /\ [Call("meta") EXCEPT !.files = {f}].kind \notin SearchKinds
    BY CallsAre DEF SearchKinds
  <2> QED BY <1>5, <1>12, <2>1 DEF selectFile, mode
<1>13. CASE deleteSelected
  <2>1. {selectedFile} \in SUBSET Files
    BY <1>13 DEF deleteSelected, BrowserInv, Window, Shown
  <2>2. [Call("delete") EXCEPT !.files = {selectedFile}] \in CallStates
        /\ [Call("delete") EXCEPT !.files = {selectedFile}].kind \notin SearchKinds
    BY <2>1, CallsAre DEF SearchKinds
  <2> QED BY <1>5, <1>13, <2>2 DEF deleteSelected, mode
<1> QED BY <1>6, <1>7, <1>8, <1>9, <1>10, <1>11, <1>12, <1>13 DEF User, goBack, goForward

\* The daemon finds what matches.
LEMMA SearchedByAnswer ==
  ASSUME BrowserInv, SearchInv, NEW id \in asked, Answer(id)
  PROVE  SearchInv'
<1>1. id \in DOMAIN pending /\ pending[id] \in CallStates /\ faults \in Nat /\ present \subseteq Files
  BY DEF BrowserInv, Registered, Window, Stored, Bounded
<1>2. PICK ok \in BOOLEAN :
        /\ faults' = (IF ok THEN faults ELSE faults + 1) /\ faults' <= MaxFaults
        /\ wire' = Append(wire, [Message("answer") EXCEPT
                     !.id = id, !.ok = ok, !.call = pending[id],
                     !.entries = IF ok THEN Found(pending[id]) ELSE NoEntries])
        /\ present' = IF ok /\ pending[id].kind = "delete" THEN present \ pending[id].files ELSE present
  BY DEF Answer
<1>3. Found(pending[id]) \in Entries /\ NoEntries \in Entries /\ id \in Nat
  BY <1>1, Finding, Nothing DEF BrowserInv, Registered, Window
<1>4. PICK m \in Messages : /\ wire' = Append(wire, m) /\ m.kind = "answer" /\ m.id = id
                            /\ m.entries = IF ok THEN Found(pending[id]) ELSE NoEntries
  <2> DEFINE a == [Message("answer") EXCEPT
                     !.id = id, !.ok = ok, !.call = pending[id],
                     !.entries = IF ok THEN Found(pending[id]) ELSE NoEntries]
  <2>1. a \in Messages /\ a.kind = "answer" /\ a.id = id
        /\ a.entries = IF ok THEN Found(pending[id]) ELSE NoEntries
    BY <1>1, <1>3, Messaging DEF Messages
  <2>2. wire' = Append(wire, a)
    BY <1>2
  <2> HIDE DEF a
  <2> QED BY <2>1, <2>2
<1>5. /\ DOMAIN wire' = DOMAIN wire \cup {Len(wire) + 1}
      /\ wire'[Len(wire) + 1] = m /\ \A i \in DOMAIN wire : wire'[i] = wire[i]
  BY <1>4, Sending DEF BrowserInv
<1>6. UNCHANGED <<pending, tagsOf, showHidden, isSearchMode, searchChips, searchResults, newest, late, events>>
  BY DEF Answer, mode, observed, bounds
<1>7. (faults' = 0 => faults = 0 /\ ok) /\ (present' = Files => present = Files)
  <2>1. faults' = 0 => faults = 0 /\ ok
    BY <1>1, <1>2
  <2>2. present' \subseteq present
    BY <1>2
  <2> QED BY <1>1, <2>1, <2>2
<1>8. CASE pending[id].kind \notin SearchKinds
  BY <1>4, <1>5, <1>6, <1>7, <1>8, SearchAside
<1>9. CASE pending[id].kind \in SearchKinds
  <2> SUFFICES ASSUME Searched'
               PROVE  /\ \A k \in DOMAIN pending' : Latest(k, SearchKinds, "search")' => LatestSearches(k)'
                      /\ SearchShown'
    BY DEF SearchInv
  <2>1. Searched /\ present' = present /\ ok /\ present = Files
    BY <1>6, <1>7 DEF Searched
  <2>2. Matches(searchChips)' = Matches(searchChips) /\ Expected' = Expected
        /\ \A kind : Hits(kind)' = Hits(kind)
    BY <1>6, <2>1 DEF Matches, Expected, Hits
  <2>3. ASSUME LatestSearches(id) PROVE DOMAIN m.entries = Hits(pending[id].kind)
    <3>1. CASE pending[id].kind = "search"
      BY <1>4, <2>1, <2>3, <3>1 DEF LatestSearches, Found, Tagged, Hits, Matches
    <3>2. CASE pending[id].kind = "glob"
      <4>1. m.entries = [f \in {g \in present \cap Globbed : g \in Hidden => pending[id].hid} |-> {}]
        BY <1>4, <2>1, <3>2 DEF Found
      <4>2. present \cap Globbed = Globbed
        BY <2>1, BrowserAssumption
      <4>3. DOMAIN m.entries = {g \in Globbed : g \in Hidden => pending[id].hid}
        BY <4>1, <4>2
      <4> QED BY <2>3, <3>2, <4>3 DEF LatestSearches, Hits
    <3> QED BY <1>9, <3>1, <3>2 DEF SearchKinds
  <2>4. ASSUME NEW k \in DOMAIN pending, LatestSearches(k) PROVE LatestSearches(k)'
    <3>1. ASSUME NEW i \in DOMAIN wire', wire'[i].kind = "answer", wire'[i].id = k
          PROVE  DOMAIN wire'[i].entries = Hits(pending[k].kind)
      <4>1. CASE i \in DOMAIN wire
        BY <1>5, <2>4, <3>1, <4>1 DEF LatestSearches
      <4>2. CASE i = Len(wire) + 1
        BY <1>4, <1>5, <2>3, <2>4, <3>1, <4>2
      <4> QED BY <1>5, <4>1, <4>2
    <3> QED BY <1>6, <2>2, <2>4, <3>1 DEF LatestSearches
  <2>5. SearchShown => SearchShown'
    BY <1>6, <2>2 DEF SearchShown, Awaiting
  <2>6. \A k : Latest(k, SearchKinds, "search")' => Latest(k, SearchKinds, "search") /\ k \in DOMAIN pending
    BY <1>6 DEF Latest
  <2> QED BY <1>6, <2>1, <2>4, <2>5, <2>6 DEF SearchInv
<1> QED BY <1>8, <1>9

\* A callback of another kind returns, or makes a call of another kind.
LEMMA SearchedByOther ==
  ASSUME BrowserInv, SearchInv, NEW i, NEW kind, Answered(i, kind), kind \notin SearchKinds,
         UNCHANGED <<isSearchMode, searchChips, searchResults>>,
         newest'["search"] = newest["search"], "search" \in late => "search" \in late',
         \A k \in DOMAIN pending' :
           \/ k \in DOMAIN pending \ {wire[i].id} /\ pending'[k] = pending[k]
           \/ pending'[k].kind \notin SearchKinds,
         \A k \in DOMAIN pending \ {wire[i].id} : k \in DOMAIN pending' /\ pending'[k] = pending[k]
  PROVE  SearchInv'
<1> DEFINE id == wire[i].id
<1>1. Handle(i) /\ id \in DOMAIN pending /\ pending[id].kind = kind
  BY Answering
<1>2. NothingNew /\ UNCHANGED <<faults, events, present, tagsOf, showHidden>>
  BY <1>1, Handling
<1>3. /\ \A k \in DOMAIN pending' : pending'[k].kind \in SearchKinds => k \in DOMAIN pending /\ pending'[k] = pending[k]
      /\ \A k \in DOMAIN pending : pending[k].kind \in SearchKinds => k \in DOMAIN pending' /\ pending'[k] = pending[k]
  BY <1>1
<1> QED BY <1>2, <1>3, SearchAside DEF NothingNew

\* An answer is shown as what was found.
LEMMA SearchedByResults ==
  ASSUME BrowserInv, SearchInv, NEW i, NEW kind \in SearchKinds, Answered(i, kind),
         ~(kind = "search" /\ DOMAIN wire[i].entries = {} /\ pending[wire[i].id].chips.glob),
         ReturnOnly(wire[i].id), Applied("search", pending[wire[i].id].load),
         searchResults' = wire[i].entries, UNCHANGED <<isSearchMode, searchChips>>
  PROVE  SearchInv'
<1> DEFINE id == wire[i].id
           c == pending[id]
<1>1. /\ Handle(i) /\ id \in DOMAIN pending \ asked /\ c.kind = kind /\ wire[i].kind = "answer"
      /\ i \in DOMAIN wire
  BY Answering, Handling
<1>2. NothingNew /\ UNCHANGED <<faults, events, present, tagsOf, showHidden>>
  BY <1>1, Handling
<1>3. newest \in [Lists -> 0 .. loads] /\ "search" \in Lists /\ \A k \in DOMAIN pending : pending[k].load \in Nat
  BY DEF BrowserInv, Registered, CallStates, Window, Bounded, Lists
<1>4. newest'["search"] = c.load /\ ("search" \notin late' => "search" \notin late /\ newest["search"] <= c.load)
  BY <1>1, <1>3 DEF Applied
<1>5. /\ DOMAIN pending' = DOMAIN pending \ {id}
      /\ \A k \in DOMAIN pending \ {id} : pending'[k] = pending[k]
  <2>1. pending' = [k \in DOMAIN pending \ {id} |-> pending[k]]
    BY DEF ReturnOnly, Others
  <2> QED BY <2>1
<1> SUFFICES ASSUME Searched'
             PROVE  /\ \A k \in DOMAIN pending' : Latest(k, SearchKinds, "search")' => LatestSearches(k)'
                    /\ SearchShown'
  BY DEF SearchInv
<1>6. Searched /\ newest["search"] <= c.load
  BY <1>2, <1>4 DEF Searched
<1>7. Matches(searchChips)' = Matches(searchChips) /\ Expected' = Expected
      /\ \A x : Hits(x)' = Hits(x)
  BY <1>2 DEF Matches, Expected, Hits
<1> HIDE DEF c, id
<1>8. ASSUME NEW k \in DOMAIN pending', Latest(k, SearchKinds, "search")' PROVE LatestSearches(k)'
  <2>1. /\ k \in DOMAIN pending /\ k # id /\ pending'[k] = pending[k]
        /\ pending[k].kind \in SearchKinds /\ pending[k].load >= c.load
        /\ \A l \in DOMAIN pending' : pending'[l].kind \in SearchKinds => pending'[l].load <= pending[k].load
    BY <1>4, <1>5, <1>8 DEF Latest
  <2>2. \A l \in DOMAIN pending : pending[l].kind \in SearchKinds => pending[l].load <= pending[k].load
    <3>1. ASSUME NEW l \in DOMAIN pending, pending[l].kind \in SearchKinds PROVE pending[l].load <= pending[k].load
      <4>1. CASE l = id
        BY <1>3, <2>1, <4>1 DEF c
      <4>2. CASE l # id
        BY <1>5, <2>1, <3>1, <4>2
      <4> QED BY <4>1, <4>2
    <3> QED BY <3>1
  <2>3. pending[k].load >= newest["search"]
    <3>1. pending[k].load \in Nat /\ c.load \in Nat /\ newest["search"] \in Nat
      BY <1>1, <1>3, <2>1 DEF c
    <3> QED BY <1>6, <2>1, <3>1
  <2>4. LatestSearches(k)
    BY <1>6, <2>1, <2>2, <2>3 DEF Latest, SearchInv
  <2> QED BY <1>2, <1>7, <2>1, <2>4 DEF LatestSearches, NothingNew
<1>9. SearchShown'
  <2> SUFFICES ASSUME ~Awaiting(SearchKinds, "search")' PROVE DOMAIN wire[i].entries = Expected
    BY <1>7 DEF SearchShown
  <2>1. \A k \in DOMAIN pending : pending[k].kind \in SearchKinds => pending[k].load <= c.load
    <3>1. ASSUME NEW k \in DOMAIN pending, pending[k].kind \in SearchKinds PROVE pending[k].load <= c.load
      <4>1. CASE k = id
        BY <1>3, <4>1 DEF c
      <4>2. CASE k # id
        <5>1. k \in DOMAIN pending' /\ pending'[k] = pending[k]
          BY <1>5, <4>2
        <5>2. ~(pending'[k].load > newest'["search"])
          BY <3>1, <5>1 DEF Awaiting
        <5>3. pending[k].load \in Nat /\ c.load \in Nat
          BY <1>1, <1>3 DEF c
        <5> QED BY <1>4, <5>1, <5>2, <5>3
      <4> QED BY <4>1, <4>2
    <3> QED BY <3>1
  <2>2. Latest(id, SearchKinds, "search")
    <3>1. c.load >= newest["search"]
      BY <1>1, <1>3, <1>6 DEF c
    <3> QED BY <1>1, <2>1, <3>1 DEF Latest, c
  <2>3. LatestSearches(id)
    BY <1>1, <1>6, <2>2 DEF SearchInv
  <2>4. DOMAIN wire[i].entries = Hits(kind)
    BY <1>1, <2>3 DEF LatestSearches, c, id
  <2>5. CASE kind = "search"
    <3>1. DOMAIN wire[i].entries = Matches(searchChips)
      BY <2>4, <2>5 DEF Hits
    <3>2. Matches(searchChips) # {} \/ ~searchChips.glob
      BY <2>3, <2>5, <3>1 DEF LatestSearches, id
    <3> QED BY <3>1, <3>2 DEF Expected
  <2>6. CASE kind = "glob"
    <3>1. Matches(searchChips) = {} /\ searchChips.glob
      BY <1>1, <2>3, <2>6 DEF LatestSearches, c
    <3> QED BY <2>4, <2>6, <3>1 DEF Expected
  <2> QED BY <2>5, <2>6 DEF SearchKinds
<1> QED BY <1>8, <1>9

\* A search by tags that has found nothing goes on with the pattern: the new
\* call takes the place of the old one.
LEMMA SearchedByFallingBack ==
  ASSUME BrowserInv, SearchInv, NEW i, SearchAnswered(i), DOMAIN wire[i].entries = {},
         pending[wire[i].id].chips.glob
  PROVE  SearchInv'
<1> DEFINE id == wire[i].id
           c == pending[id]
           g == [c EXCEPT !.kind = "glob"]
<1>1. /\ Register(Others(id), g, asked) /\ Answered(i, "search")
      /\ UNCHANGED <<loads, newest, late, searchResults, isSearchMode, searchChips>>
  BY DEF SearchAnswered, observed, mode
<1>2. Handle(i) /\ i \in DOMAIN wire /\ wire[i].kind = "answer" /\ id \in DOMAIN pending \ asked
      /\ c \in CallStates /\ c.kind = "search"
  BY <1>1, Answering, Handling
<1>3. NothingNew /\ UNCHANGED <<faults, events, present, tagsOf, showHidden>>
  BY <1>2, Handling
<1>4. g \in CallStates /\ g.kind = "glob" /\ g.load = c.load /\ g.chips = c.chips /\ g.hid = c.hid
      /\ c.load <= loads /\ loads \in Nat
  BY <1>2, Calling DEF CallStates, BrowserInv, Registered
<1>5. Beside(Others(id)) /\ DOMAIN Others(id) = DOMAIN pending \ {id} /\ connected \in BOOLEAN
  BY <1>2, Alongside DEF BrowserInv, Window, Stored
<1> HIDE DEF g
<1>6. Adds(Others(id), g, c.load)
  <2>1. g.load <= loads' /\ loads' \in Nat /\ loads <= loads'
    BY <1>1, <1>4
  <2> QED BY <1>1, <1>4, <1>5, <2>1, Registering DEF BrowserInv
<1>7. /\ DOMAIN pending' = (DOMAIN pending \ {id}) \cup {nextID}
      /\ \A k \in DOMAIN pending \ {id} : pending'[k] = pending[k]
      /\ pending'[nextID].kind = "glob" /\ pending'[nextID].load = c.load
      /\ pending'[nextID].chips = c.chips /\ pending'[nextID].hid = c.hid
      /\ nextID \notin DOMAIN pending \ {id}
  BY <1>4, <1>5, <1>6 DEF Adds, Beside
<1> HIDE DEF c, id
<1> SUFFICES ASSUME Searched'
             PROVE  /\ \A k \in DOMAIN pending' : Latest(k, SearchKinds, "search")' => LatestSearches(k)'
                    /\ SearchShown'
  BY DEF SearchInv
<1>8. Searched
  BY <1>1, <1>3 DEF Searched
<1>9. Matches(searchChips)' = Matches(searchChips) /\ Expected' = Expected
      /\ \A x : Hits(x)' = Hits(x)
  BY <1>1, <1>3 DEF Matches, Expected, Hits
<1>10. ASSUME NEW k \in DOMAIN pending', Latest(k, SearchKinds, "search")' PROVE LatestSearches(k)'
  <2>1. /\ pending'[k].kind \in SearchKinds /\ pending'[k].load >= newest["search"]
        /\ \A l \in DOMAIN pending' : pending'[l].kind \in SearchKinds => pending'[l].load <= pending'[k].load
    BY <1>1, <1>10 DEF Latest
  <2>2. c.load <= pending'[k].load
    BY <1>7, <2>1 DEF SearchKinds
  <2>3. \A l \in DOMAIN pending : pending[l].kind \in SearchKinds => pending[l].load <= pending'[k].load
    <3>1. ASSUME NEW l \in DOMAIN pending, pending[l].kind \in SearchKinds PROVE pending[l].load <= pending'[k].load
      <4>1. CASE l = id
        BY <2>2, <4>1 DEF c
      <4>2. CASE l # id
        BY <1>7, <2>1, <3>1, <4>2
      <4> QED BY <4>1, <4>2
    <3> QED BY <3>1
  <2>4. CASE k \in DOMAIN pending \ {id}
    <3>1. Latest(k, SearchKinds, "search") /\ pending'[k] = pending[k]
      BY <1>7, <2>1, <2>3, <2>4 DEF Latest
    <3>2. LatestSearches(k)
      BY <1>8, <2>4, <3>1 DEF SearchInv
    <3> QED BY <1>1, <1>3, <1>9, <3>1, <3>2 DEF LatestSearches, NothingNew
  <2>5. CASE k = nextID
    <3>1. Latest(id, SearchKinds, "search")
      BY <1>2, <1>7, <2>1, <2>3, <2>5 DEF Latest, SearchKinds, c
    <3>2. LatestSearches(id)
      BY <1>2, <1>8, <3>1 DEF SearchInv
    <3>3. Matches(searchChips) = {} /\ searchChips.glob
      BY <1>2, <3>2 DEF LatestSearches, Hits, c, id
    <3>4. \A j \in DOMAIN wire' : wire'[j].kind = "answer" => wire'[j].id # nextID
      <4>1. \A j \in DOMAIN wire : wire[j].kind = "answer" => wire[j].id # nextID
        BY DEF BrowserInv, OnWire, Registered
      <4> QED BY <1>3, <4>1 DEF NothingNew
    <3> QED BY <1>1, <1>3, <1>7, <1>9, <2>5, <3>2, <3>3, <3>4 DEF LatestSearches, c
  <2> QED BY <1>7, <2>4, <2>5
<1>11. SearchShown'
  <2>1. Awaiting(SearchKinds, "search") => Awaiting(SearchKinds, "search")'
    <3>1. ASSUME NEW k \in DOMAIN pending, pending[k].kind \in SearchKinds, pending[k].load > newest["search"]
          PROVE  Awaiting(SearchKinds, "search")'
      <4>1. CASE k = id
        BY <1>1, <1>7, <3>1, <4>1 DEF Awaiting, SearchKinds, c
      <4>2. CASE k # id
        BY <1>1, <1>7, <3>1, <4>2 DEF Awaiting
      <4> QED BY <4>1, <4>2
    <3> QED BY <3>1 DEF Awaiting
  <2> QED BY <1>1, <1>8, <1>9, <2>1 DEF SearchInv, SearchShown
<1> QED BY <1>10, <1>11

LEMMA SearchedByDelivery ==
  ASSUME BrowserInv, SearchInv, Deliver
  PROVE  SearchInv'
<1> PICK i \in DOMAIN wire :
      \/ ListAnswered(i) \/ HydrateAnswered(i) \/ SearchAnswered(i) \/ GlobAnswered(i)
      \/ TrashAnswered(i) \/ MetaAnswered(i) \/ DeleteAnswered(i)
      \/ onFileTagged(i) \/ onIndexUpdated(i) \/ onShowWindow(i)
  BY DEF Deliver
<1> DEFINE id == wire[i].id
           c == pending[id]
<1>1. CASE ListAnswered(i)
  <2>1. Answered(i, "list") /\ Applied("list", c.load) /\ UNCHANGED <<isSearchMode, searchChips, searchResults>>
    BY <1>1 DEF ListAnswered, mode
  <2>2. newest'["search"] = newest["search"] /\ ("search" \in late => "search" \in late')
    BY <2>1 DEF Applied, BrowserInv, Window, Bounded, Lists
  <2> QED BY <1>1, <2>1, <2>2, HydrateFollows, SearchedByOther DEF SearchKinds
<1>2. ASSUME NEW kind, Answered(i, kind), kind \notin SearchKinds, ReturnOnly(id),
             UNCHANGED <<isSearchMode, searchChips, searchResults>>,
             newest'["search"] = newest["search"], "search" \in late => "search" \in late'
      PROVE  SearchInv'
  <2>1. pending' = [k \in DOMAIN pending \ {id} |-> pending[k]]
    BY <1>2 DEF ReturnOnly, Others
  <2> QED BY <1>2, <2>1, SearchedByOther
<1>3. CASE HydrateAnswered(i)
  <2>1. Answered(i, "hydrate") /\ Applied("hydrate", c.load)
    BY <1>3 DEF HydrateAnswered
  <2>2. newest'["search"] = newest["search"] /\ ("search" \in late => "search" \in late')
    BY <2>1 DEF Applied, BrowserInv, Window, Bounded, Lists
  <2> QED BY <1>2, <1>3, <2>1, <2>2 DEF HydrateAnswered, mode, SearchKinds
<1>4. CASE TrashAnswered(i) \/ MetaAnswered(i)
  BY <1>2, <1>4 DEF TrashAnswered, MetaAnswered, mode, observed, SearchKinds
<1>5. CASE SearchAnswered(i)
  BY <1>5, SearchedByFallingBack, SearchedByResults DEF SearchAnswered, mode, SearchKinds
<1>6. CASE GlobAnswered(i)
  BY <1>6, SearchedByResults DEF GlobAnswered, mode, SearchKinds
<1>7. CASE DeleteAnswered(i)
  <2>1. Answered(i, "delete") /\ UNCHANGED <<isSearchMode, searchChips, searchResults, newest, late>>
    BY <1>7 DEF DeleteAnswered, mode
  <2>2. CASE wire[i].ok
    <3> DEFINE l == IF isTrashView THEN Call("trash") ELSE ListDir(currentPath)
    <3>1. Load(Others(id), l) /\ id \in DOMAIN pending \ asked
      BY <1>7, <2>1, <2>2, Answering DEF DeleteAnswered
    <3>2. l \in CallStates /\ l.kind \in {"trash", "list"}
      BY CallsAre, ListingIs DEF BrowserInv, Window, Placed, Shown
    <3>3. Beside(Others(id)) /\ DOMAIN Others(id) = DOMAIN pending \ {id} /\ connected \in BOOLEAN
      BY <3>1, Alongside DEF BrowserInv, Window, Stored
    <3> HIDE DEF l
    <3>4. Adds(Others(id), l, loads + 1)
      BY <3>1, <3>2, <3>3, Loading DEF BrowserInv
    <3> QED BY <2>1, <3>2, <3>3, <3>4, SearchedByOther DEF Adds, Beside, SearchKinds
  <2>3. CASE ~wire[i].ok
    BY <1>2, <1>7, <2>1, <2>3 DEF DeleteAnswered, SearchKinds
  <2> QED BY <2>2, <2>3
<1>8. CASE onFileTagged(i)
  <2>1. Handle(i) /\ UNCHANGED <<pending, newest, late, isSearchMode, searchChips>>
    BY <1>8 DEF onFileTagged, client, observed, mode
  <2>2. wire[i] \in Messages /\ NothingNew /\ UNCHANGED <<faults, events, present, tagsOf, showHidden>>
    BY <2>1, Handling
  <2>3. DOMAIN searchResults' = DOMAIN searchResults
    BY <1>8, <2>2, Patching DEF onFileTagged, BrowserInv, Window, Shown
  <2> QED BY <2>1, <2>2, <2>3, SearchAside DEF NothingNew
<1>9. CASE onIndexUpdated(i)
  <2>1. Handle(i) /\ UNCHANGED <<isSearchMode, searchChips>> /\ searchChips \in Searches \cup {NoChips}
    BY <1>9 DEF onIndexUpdated, mode, BrowserInv, Window, Shown
  <2>2. NothingNew /\ UNCHANGED <<faults, present, tagsOf, showHidden>> /\ showHidden \in BOOLEAN
        /\ connected \in BOOLEAN
    BY <2>1, Handling DEF BrowserInv, Window, Shown, Stored
  <2>3. CASE ~isSearchMode
    BY <2>1, <2>3 DEF SearchInv, Searched
  <2>4. CASE isSearchMode /\ Searchable(searchChips)
    <3>1. Load(pending, SearchCall(searchChips, showHidden)) /\ newest' = newest
      BY <1>9, <2>4 DEF onIndexUpdated
    <3>2. LET s == SearchCall(searchChips, showHidden) IN
            /\ s \in CallStates /\ s.chips = searchChips /\ s.hid = (showHidden \/ searchChips.any)
            /\ s.kind = IF searchChips.tags # {} THEN "search" ELSE "glob"
      BY <2>1, <2>2, SearchCalls
    <3>3. Adds(pending, SearchCall(searchChips, showHidden), loads + 1) /\ Beside(pending)
      BY <2>2, <3>1, <3>2, Alongside, Loading DEF BrowserInv
    <3> QED BY <2>1, <2>2, <2>4, <3>1, <3>2, <3>3, SearchedAnew
  <2>5. CASE isSearchMode /\ ~Searchable(searchChips)
    BY <1>9, <2>1, <2>5, SearchedNothing DEF onIndexUpdated, Applied, client
  <2> QED BY <2>3, <2>4, <2>5
<1>10. CASE onShowWindow(i)
  BY <1>10 DEF onShowWindow, Visit, Leave, SearchInv, Searched
<1> QED BY <1>1, <1>3, <1>4, <1>5, <1>6, <1>7, <1>8, <1>9, <1>10

LEMMA SearchStep == BrowserInv /\ SearchInv /\ [Next]_vars => SearchInv'
<1> SUFFICES ASSUME BrowserInv, SearchInv, [Next]_vars PROVE SearchInv'
  OBVIOUS
<1>1. CASE User
  BY <1>1, SearchedByUser
<1>2. CASE Daemon
  <2>1. events' # 0
    <3>1. events' = events + 1
      BY <1>2 DEF Daemon, ChangeTags, UpdateIndex, ShowWindow, Event
    <3>2. events \in Nat
      BY DEF BrowserInv, Window, Bounded
    <3> QED BY <3>1, <3>2
  <2> QED BY <2>1 DEF SearchInv, Searched
<1>3. CASE Answers
  BY <1>3, SearchedByAnswer DEF Answers
<1>4. CASE Deliver
  BY <1>4, SearchedByDelivery
<1>5. CASE Disconnect
  <2>1. faults' # 0
    <3>1. faults' = faults + 1
      BY <1>5 DEF Disconnect
    <3>2. faults \in Nat
      BY DEF BrowserInv, Window, Bounded
    <3> QED BY <3>1, <3>2
  <2> QED BY <2>1 DEF SearchInv, Searched
<1>6. CASE Reconnect \/ UNCHANGED vars
  <2>1. UNCHANGED <<pending, newest, late, showHidden, isSearchMode, searchChips, searchResults,
                    faults, events, present, tagsOf, wire>>
    BY <1>6 DEF Reconnect, vars, client, link, disk, mode, bounds, observed
  <2> QED BY <2>1, SearchAside
<1> QED BY <1>1, <1>2, <1>3, <1>4, <1>5, <1>6 DEF Next

\* Whatever chips came one after the other, the results on screen are those of
\* the chips on screen (executeSearch, _executeSearch and its fall back to the
\* pattern, toggleHidden).
THEOREM TheSearchShown == Spec => []ShowsSearch
<1>1. BrowserInv /\ SearchInv => ShowsSearch
  BY DEF ShowsSearch, SearchInv, Searched, SearchShown, SearchKinds, Expected, Hits
<1>2. BrowserInv /\ SearchInv /\ [Next]_vars => (BrowserInv /\ SearchInv)'
  BY BrowserStep, SearchStep
<1>3. Init => BrowserInv /\ SearchInv
  BY BrowserBegins DEF Init, SearchInv, Searched
<1> QED BY <1>1, <1>2, <1>3, PTL DEF Spec

-----------------------------------------------------------------------------
(***************************************************************************)
(* The tags shown                                                          *)
(***************************************************************************)

\* The j-th message changes tag t of file f.  The last message that speaks of
\* a tag tells what the index has.
Mentions(j, f, t) ==
  wire[j].kind = "fileTagged" /\ wire[j].file = f /\ t \in wire[j].added \cup wire[j].removed
Silent(f, t, p) == \A l \in DOMAIN wire : l > p => ~Mentions(l, f, t)
LastSays ==
  \A j \in DOMAIN wire, f \in Files, t \in Tags :
    Mentions(j, f, t) /\ Silent(f, t, j) => (t \in wire[j].added <=> t \in tagsOf[f])
EitherWay ==
  \A j \in DOMAIN wire : wire[j].kind = "fileTagged" => wire[j].added \cap wire[j].removed = {}

\* Of the tags that no message after position p speaks of, these are those of
\* the index.
Agrees(tags, f, p) ==
  \A t \in Tags : Silent(f, t, p) => (t \in tags <=> t \in tagsOf[f])

\* Listings and hydrations have loads of their own, a hydration that of its
\* listing.
Dated(id) == id \in DOMAIN pending /\ pending[id].kind \in {"list", "hydrate"}
Ages ==
  /\ newest["hydrate"] <= newest["list"]
  /\ \A id \in DOMAIN pending : pending[id].kind = "list" => pending[id].load # newest["list"]
  /\ \A id \in DOMAIN pending : pending[id].kind = "hydrate" =>
       pending[id].load <= newest["list"] /\ pending[id].load # newest["hydrate"]
  /\ \A k, l \in DOMAIN pending : Dated(k) /\ Dated(l) /\ pending[k].load = pending[l].load => k = l

\* What is listed is empty, or its tags are asked for or on their way, or they
\* are those of the index but for events on their way.
Hydration(id) ==
  /\ id \in DOMAIN pending /\ pending[id].kind = "hydrate" /\ pending[id].load = newest["list"]
  /\ newest["hydrate"] < newest["list"] /\ pending[id].files = DOMAIN dirEntries
  /\ \A i \in DOMAIN wire : wire[i].kind = "answer" /\ wire[i].id = id =>
       \A f \in DOMAIN dirEntries : f \in DOMAIN wire[i].entries /\ Agrees(wire[i].entries[f], f, i)
TagsShown ==
  \/ DOMAIN dirEntries = {}
  \/ \E id \in DOMAIN pending : Hydration(id)
  \/ newest["hydrate"] = newest["list"] /\ \A f \in DOMAIN dirEntries : Agrees(dirEntries[f], f, 0)

InOrder == ~reordered /\ faults = 0 /\ late = {}

TagsInv == InOrder => connected /\ EitherWay /\ LastSays /\ Ages /\ TagsShown

\* The messages but the first d stay, and what agreed beside those that come
\* after it still does; so does what agreed beside them all.
Shifted(d) ==
  /\ EitherWay' /\ LastSays'
  /\ \A tags, f : f \in Files =>
       \A p \in DOMAIN wire : Agrees(tags, f, p) => Agrees(tags, f, p - d)'
TagsKept(d) ==
  Shifted(d) /\ \A tags, f : f \in Files /\ Agrees(tags, f, 0) => Agrees(tags, f, 0)'

LEMMA Staying ==
  ASSUME OnWire, EitherWay, LastSays, UNCHANGED <<wire, tagsOf>>
  PROVE  TagsKept(0)
<1>1. EitherWay' /\ LastSays'
  BY DEF EitherWay, LastSays, Silent, Mentions
<1>2. \A p \in DOMAIN wire : p - 0 = p
  BY DEF OnWire
<1>3. \A tags, f, p : Agrees(tags, f, p) => Agrees(tags, f, p)'
  BY DEF Agrees, Silent, Mentions
<1> QED BY <1>1, <1>2, <1>3 DEF TagsKept, Shifted

\* The first message is handled.
LEMMA Shifting ==
  ASSUME OnWire, EitherWay, LastSays, 1 \in DOMAIN wire, wire' = RemoveAt(wire, 1), UNCHANGED tagsOf
  PROVE  Shifted(1) /\ \A f, t : Silent(f, t, 0)' => Silent(f, t, 1)
<1>1. /\ DOMAIN wire = 1 .. Len(wire) /\ DOMAIN wire' = 1 .. Len(wire) - 1 /\ Len(wire) \in Nat
      /\ \A k \in DOMAIN wire' : k + 1 \in DOMAIN wire /\ wire'[k] = wire[k + 1]
  <2>1. DOMAIN wire = 1 .. Len(wire) /\ Len(wire) \in Nat
    BY DEF OnWire
  <2>2. /\ DOMAIN wire' = 1 .. Len(wire) - 1
        /\ \A k \in DOMAIN wire' : wire'[k] = IF k < 1 THEN wire[k] ELSE wire[k + 1]
    BY Removing
  <2> QED BY <2>1, <2>2
<1>2. ASSUME NEW f, NEW t, NEW q \in Nat, Silent(f, t, q)' PROVE Silent(f, t, q + 1)
  <2>1. ASSUME NEW l \in DOMAIN wire, l > q + 1 PROVE ~Mentions(l, f, t)
    <3>1. l - 1 \in DOMAIN wire' /\ l - 1 > q /\ wire'[l - 1] = wire[l]
      BY <1>1, <2>1
    <3> QED BY <1>2, <3>1 DEF Silent, Mentions
  <2> QED BY <2>1 DEF Silent
<1>3. EitherWay'
  BY <1>1 DEF EitherWay
<1>4. LastSays'
  <2> SUFFICES ASSUME NEW j \in DOMAIN wire', NEW f \in Files, NEW t \in Tags, Mentions(j, f, t)', Silent(f, t, j)'
               PROVE  t \in wire'[j].added <=> t \in tagsOf'[f]
    BY DEF LastSays
  <2>1. Silent(f, t, j + 1) /\ Mentions(j + 1, f, t)
    BY <1>1, <1>2 DEF Mentions
  <2> QED BY <1>1, <2>1 DEF LastSays
<1>5. ASSUME NEW tags, NEW f, NEW p \in DOMAIN wire, Agrees(tags, f, p)
      PROVE  Agrees(tags, f, p - 1)'
  <2>1. p - 1 \in Nat /\ (p - 1) + 1 = p
    BY <1>1
  <2>2. \A t : Silent(f, t, p - 1)' => Silent(f, t, p)
    BY <1>2, <2>1
  <2> QED BY <1>5, <2>2 DEF Agrees
<1>6. \A f, t : Silent(f, t, 0)' => Silent(f, t, 1)
  BY <1>2
<1> QED BY <1>3, <1>4, <1>5, <1>6 DEF Shifted

\* ... and says nothing of tags.
LEMMA Passing ==
  ASSUME OnWire, EitherWay, LastSays, 1 \in DOMAIN wire, wire' = RemoveAt(wire, 1),
         wire[1].kind # "fileTagged", UNCHANGED tagsOf
  PROVE  TagsKept(1)
<1>1. Shifted(1) /\ \A f, t : Silent(f, t, 0)' => Silent(f, t, 1)
  BY Shifting
<1>2. ASSUME NEW f, NEW t, Silent(f, t, 0)' PROVE Silent(f, t, 0)
  <2>1. ASSUME NEW l \in DOMAIN wire PROVE ~Mentions(l, f, t)
    <3>1. l = 1 \/ l > 1
      BY DEF OnWire
    <3>2. Silent(f, t, 1)
      BY <1>1, <1>2
    <3> QED BY <3>1, <3>2 DEF Silent, Mentions
  <2> QED BY <2>1 DEF Silent
<1>3. \A tags, f : Agrees(tags, f, 0) => Agrees(tags, f, 0)'
  BY <1>2 DEF Agrees
<1> QED BY <1>1, <1>3 DEF TagsKept

\* A message comes last: it speaks of no tag, or of those that have changed.
LEMMA Telling ==
  ASSUME OnWire, EitherWay, LastSays, NEW m \in Messages, wire' = Append(wire, m),
         m.kind = "fileTagged" => m.added \cap m.removed = {},
         \A f \in Files, t \in Tags :
           IF m.kind = "fileTagged" /\ m.file = f /\ t \in m.added \cup m.removed
           THEN t \in m.added <=> t \in tagsOf'[f]
           ELSE t \in tagsOf[f] <=> t \in tagsOf'[f]
  PROVE  TagsKept(0)
<1> DEFINE n == Len(wire) + 1
           Says(f, t) == m.kind = "fileTagged" /\ m.file = f /\ t \in m.added \cup m.removed
<1>1. /\ DOMAIN wire = 1 .. Len(wire) /\ Len(wire) \in Nat
      /\ DOMAIN wire' = DOMAIN wire \cup {n} /\ wire'[n] = m
      /\ \A i \in DOMAIN wire : wire'[i] = wire[i]
  BY Sending DEF OnWire
<1>2. n \in Nat /\ \A i \in DOMAIN wire : n > i /\ ~(i > n)
  BY <1>1
<1> HIDE DEF n, Says
<1>3. EitherWay'
  BY <1>1 DEF EitherWay
<1>4. ASSUME NEW f, NEW t, NEW p \in DOMAIN wire \cup {0}
      PROVE  Silent(f, t, p)' <=> Silent(f, t, p) /\ ~Says(f, t)
  <2>1. n > p
    BY <1>2, <1>1 DEF n
  <2> QED BY <1>1, <2>1 DEF Silent, Mentions, Says
<1>5. LastSays'
  <2> SUFFICES ASSUME NEW j \in DOMAIN wire', NEW f \in Files, NEW t \in Tags, Mentions(j, f, t)', Silent(f, t, j)'
               PROVE  t \in wire'[j].added <=> t \in tagsOf'[f]
    BY DEF LastSays
  <2>1. CASE j \in DOMAIN wire
    <3>1. Mentions(j, f, t) /\ Silent(f, t, j) /\ ~Says(f, t)
      BY <1>1, <1>4, <2>1 DEF Mentions
    <3> QED BY <1>1, <2>1, <3>1 DEF LastSays, Says
  <2>2. CASE j = n
    BY <1>1, <2>2 DEF Mentions
  <2> QED BY <1>1, <2>1, <2>2
<1>6. ASSUME NEW tags, NEW f \in Files, NEW p \in DOMAIN wire \cup {0}, Agrees(tags, f, p)
      PROVE  Agrees(tags, f, p)'
  BY <1>4, <1>6 DEF Agrees, Says
<1>7. \A p \in DOMAIN wire : p - 0 = p
  BY <1>1
<1> QED BY <1>3, <1>5, <1>6, <1>7 DEF TagsKept, Shifted

\* An answer that brings the tags there are.
Freshly(i) ==
  \A f \in pending[wire[i].id].files :
    f \in DOMAIN wire[i].entries /\ Agrees(wire[i].entries[f], f, i)

LEMMA StillHydrating ==
  ASSUME BrowserInv, NEW id, Hydration(id), NEW d \in {0, 1}, Shifted(d), wire' \in Seq(Messages),
         id \in DOMAIN pending', pending'[id] = pending[id],
         DOMAIN dirEntries' = DOMAIN dirEntries,
         newest'["list"] = newest["list"], newest'["hydrate"] < newest'["list"],
         \A i \in DOMAIN wire' : wire'[i].kind = "answer" /\ wire'[i].id = id =>
           \/ i + d \in DOMAIN wire /\ wire'[i] = wire[i + d]
           \/ Freshly(i)'
  PROVE  Hydration(id)'
<1>1. ASSUME NEW i \in DOMAIN wire', wire'[i].kind = "answer", wire'[i].id = id, NEW f \in DOMAIN dirEntries
      PROVE  f \in DOMAIN wire'[i].entries /\ Agrees(wire[i].entries[f], f, i)'
  <2>1. CASE Freshly(i)'
    BY <1>1, <2>1 DEF Freshly, Hydration
  <2>2. CASE ~Freshly(i)'
    <3>1. i \in Nat \ {0}
      BY <1>1
    <3>2. i + d \in DOMAIN wire /\ wire'[i] = wire[i + d] /\ (i + d) - d = i
      BY <1>1, <2>2, <3>1
    <3>3. f \in DOMAIN wire[i + d].entries /\ Agrees(wire[i + d].entries[f], f, i + d) /\ f \in Files
      BY <1>1, <3>2, EntriesAre DEF Hydration, BrowserInv, Window, Shown
    <3>4. PICK tags : tags = wire[i + d].entries[f]
      OBVIOUS
    <3>5. Agrees(tags, f, i)'
      BY <3>2, <3>3, <3>4 DEF Shifted
    <3> QED BY <3>2, <3>3, <3>4, <3>5
  <2> QED BY <2>1, <2>2
<1> QED BY <1>1 DEF Hydration

\* The step asks for a listing or nothing, and leaves alone what is listed.
LEMMA TagsAside ==
  ASSUME BrowserInv, InOrder, TagsInv, NEW d \in {0, 1}, TagsKept(d), connected', wire' \in Seq(Messages),
         dirEntries' = dirEntries,
         newest'["list"] = newest["list"], newest'["hydrate"] = newest["hydrate"],
         \A k \in DOMAIN pending' :
           \/ k \in DOMAIN pending /\ pending'[k] = pending[k]
           \/ pending'[k].kind \notin {"list", "hydrate"}
           \/ k = nextID /\ pending'[k].kind = "list" /\ pending'[k].load = loads + 1,
         \A k \in DOMAIN pending : pending[k].kind = "hydrate" => k \in DOMAIN pending' /\ pending'[k] = pending[k],
         \A i \in DOMAIN wire' : wire'[i].kind = "answer" /\ wire'[i].id \in DOMAIN pending
                                 /\ pending[wire'[i].id].kind = "hydrate" =>
           \/ i + d \in DOMAIN wire /\ wire'[i] = wire[i + d]
           \/ Freshly(i)'
  PROVE  TagsInv'
<1>1. EitherWay' /\ LastSays' /\ Ages /\ TagsShown
  BY DEF TagsKept, Shifted, TagsInv
<1>2. /\ nextID \notin DOMAIN pending /\ loads \in Nat
      /\ newest["list"] \in 0 .. loads /\ newest["hydrate"] \in 0 .. loads
      /\ \A k \in DOMAIN pending : pending[k].load \in 0 .. loads
  BY DEF BrowserInv, Registered, CallStates, Window, Bounded, Lists
<1>3. Ages'
  <2>1. \A k \in DOMAIN pending' : pending'[k].kind = "list" => pending'[k].load # newest["list"]
    BY <1>1, <1>2 DEF Ages
  <2>2. \A k \in DOMAIN pending' : pending'[k].kind = "hydrate" =>
          pending'[k].load <= newest["list"] /\ pending'[k].load # newest["hydrate"]
    BY <1>1 DEF Ages
  <2>3. ASSUME NEW k \in DOMAIN pending', NEW l \in DOMAIN pending', Dated(k)', Dated(l)',
               pending'[k].load = pending'[l].load
        PROVE  k = l
    BY <1>1, <1>2, <2>3 DEF Ages, Dated
  <2> QED BY <1>1, <2>1, <2>2, <2>3 DEF Ages
<1>4. TagsShown'
  <2>1. CASE DOMAIN dirEntries = {}
    BY <2>1 DEF TagsShown
  <2>2. ASSUME NEW id \in DOMAIN pending, Hydration(id) PROVE TagsShown'
    <3>1. id \in DOMAIN pending' /\ pending'[id] = pending[id] /\ pending[id].kind = "hydrate"
      BY <2>2 DEF Hydration
    <3>2. Hydration(id)'
      BY <2>2, <3>1, StillHydrating DEF TagsKept, Hydration
    <3> QED BY <3>1, <3>2 DEF TagsShown
  <2>3. CASE newest["hydrate"] = newest["list"] /\ \A f \in DOMAIN dirEntries : Agrees(dirEntries[f], f, 0)
    <3>1. ASSUME NEW f \in DOMAIN dirEntries PROVE Agrees(dirEntries[f], f, 0)'
      <4>1. f \in Files
        BY EntriesAre DEF BrowserInv, Window, Shown
      <4>2. PICK tags : tags = dirEntries[f]
        OBVIOUS
      <4>3. Agrees(tags, f, 0)'
        BY <2>3, <4>1, <4>2 DEF TagsKept
      <4> QED BY <4>2, <4>3
    <3> QED BY <2>3, <3>1 DEF TagsShown
  <2> QED BY <1>1, <2>1, <2>2, <2>3 DEF TagsShown
<1> QED BY <1>1, <1>3, <1>4 DEF TagsInv

LEMMA TaggedByUser ==
  ASSUME BrowserInv, TagsInv, User, InOrder'
  PROVE  TagsInv'
<1>1. /\ OnWire /\ wire \in Seq(Messages) /\ showHidden \in BOOLEAN /\ currentPath \in Dirs
      /\ searchChips \in Searches \cup {NoChips} /\ Beside(pending)
  BY Alongside DEF BrowserInv, OnWire, Window, Shown, Placed
<1>2. ASSUME UNCHANGED <<wire, tagsOf, connected, dirEntries, faults, reordered>>, late \subseteq late',
             newest'["list"] = newest["list"], newest'["hydrate"] = newest["hydrate"],
             \A k \in DOMAIN pending' :
               \/ k \in DOMAIN pending /\ pending'[k] = pending[k]
               \/ pending'[k].kind \notin {"list", "hydrate"}
               \/ k = nextID /\ pending'[k].kind = "list" /\ pending'[k].load = loads + 1,
             \A k \in DOMAIN pending : k \in DOMAIN pending' /\ pending'[k] = pending[k]
      PROVE  TagsInv'
  <2>1. InOrder /\ connected'
    BY <1>2 DEF InOrder, TagsInv
  <2>2. TagsKept(0)
    BY <1>1, <1>2, <2>1, Staying DEF TagsInv
  <2>3. \A i \in DOMAIN wire' : i + 0 \in DOMAIN wire /\ wire'[i] = wire[i + 0]
    BY <1>1, <1>2
  <2>4. 0 \in {0, 1} /\ wire' \in Seq(Messages)
    BY <1>1, <1>2
  <2> QED BY <1>2, <2>1, <2>2, <2>3, <2>4, TagsAside
<1>3. ASSUME NEW c \in CallStates, c.kind # "hydrate", Ask(c), dirEntries' = dirEntries PROVE TagsInv'
  <2>1. Adds(pending, c, loads + 1) /\ UNCHANGED <<wire, tagsOf, connected, faults, reordered, late, newest>>
    BY <1>3, Asking DEF Ask, link, disk
  <2>2. /\ DOMAIN pending' = DOMAIN pending \cup {nextID}
        /\ \A k \in DOMAIN pending : pending'[k] = pending[k]
        /\ pending'[nextID].kind = c.kind /\ pending'[nextID].load = loads + 1
    BY <2>1 DEF Adds
  <2> QED BY <1>2, <1>3, <2>1, <2>2
<1>4. ASSUME NEW chips \in Searches \cup {NoChips}, NEW hid \in BOOLEAN, ExecuteSearch(chips, hid),
             dirEntries' = dirEntries
      PROVE  TagsInv'
  <2>1. CASE Searchable(chips)
    <3>1. Ask(SearchCall(chips, hid))
      BY <1>4, <2>1 DEF ExecuteSearch
    <3>2. SearchCall(chips, hid) \in CallStates /\ SearchCall(chips, hid).kind \in {"search", "glob"}
      BY SearchCalls
    <3> QED BY <1>3, <1>4, <3>1, <3>2
  <2>2. CASE ~Searchable(chips)
    <3>1. /\ UNCHANGED <<wire, tagsOf, connected, faults, reordered, pending>>
          /\ newest' = [newest EXCEPT !["search"] = loads + 1] /\ late \subseteq late'
      BY <1>4, <2>2 DEF ExecuteSearch, Applied, client, link, disk
    <3>2. newest'["list"] = newest["list"] /\ newest'["hydrate"] = newest["hydrate"]
      BY <3>1 DEF BrowserInv, Window, Bounded, Lists
    <3> QED BY <1>2, <1>4, <3>1, <3>2
  <2> QED BY <2>1, <2>2
<1>5. ASSUME NEW d \in Dirs, navigateTo(d) PROVE TagsInv'
  BY <1>1, <1>3, <1>5, ListingIs DEF navigateTo
<1>6. ASSUME NEW i, GoTo(i) PROVE TagsInv'
  <2>1. hist[i] \in Dirs
    BY <1>6 DEF GoTo, BrowserInv, Window, Placed
  <2> QED BY <1>1, <1>3, <1>6, <2>1, ListingIs DEF GoTo
<1>7. CASE navigateToTrash
  BY <1>3, <1>7, CallsAre DEF navigateToTrash
<1>8. ASSUME NEW chips \in Searches, executeSearch(chips) PROVE TagsInv'
  BY <1>1, <1>4, <1>8 DEF executeSearch
<1>9. CASE toggleHidden
  <2>1. (~showHidden) \in BOOLEAN /\ dirEntries' = dirEntries
    BY <1>9 DEF toggleHidden
  <2>2. CASE isSearchMode
    BY <1>1, <1>4, <1>9, <2>1, <2>2 DEF toggleHidden
  <2>3. CASE ~isSearchMode /\ ~isTrashView
    BY <1>1, <1>3, <1>9, <2>1, <2>3, ListingIs DEF toggleHidden
  <2>4. CASE ~isSearchMode /\ isTrashView
    BY <1>2, <1>9, <2>1, <2>4 DEF toggleHidden, client, link, disk, observed
  <2> QED BY <2>2, <2>3, <2>4
<1>10. CASE refresh
  <2>1. dirEntries' = dirEntries
    BY <1>10 DEF refresh
  <2>2. CASE isTrashView
    BY <1>3, <1>10, <2>1, <2>2, CallsAre DEF refresh
  <2>3. CASE isSearchMode /\ ~isTrashView
    BY <1>1, <1>4, <1>10, <2>1, <2>3 DEF refresh
  <2>4. CASE ~isSearchMode /\ ~isTrashView
    BY <1>1, <1>3, <1>10, <2>1, <2>4, ListingIs DEF refresh
  <2> QED BY <2>2, <2>3, <2>4
<1>11. ASSUME NEW f \in Files, selectFile(f) PROVE TagsInv'
  BY <1>3, <1>11, CallsAre DEF selectFile
<1>12. CASE deleteSelected
  <2>1. {selectedFile} \in SUBSET Files
    BY <1>12 DEF deleteSelected, BrowserInv, Window, Shown
  <2> QED BY <1>3, <1>12, <2>1, CallsAre DEF deleteSelected
<1> QED BY <1>5, <1>6, <1>7, <1>8, <1>9, <1>10, <1>11, <1>12 DEF User, goBack, goForward

LEMMA TaggedByDaemon ==
  ASSUME BrowserInv, TagsInv, Daemon, InOrder'
  PROVE  TagsInv'
<1>1. OnWire /\ Stored /\ Window'
  BY KeptByDaemon DEF BrowserInv, Window, Kept
<1>2. ASSUME NEW m \in Messages, m.kind # "answer", Event(m),
             m.kind = "fileTagged" => m.added \cap m.removed = {},
             \A f \in Files, t \in Tags :
               IF m.kind = "fileTagged" /\ m.file = f /\ t \in m.added \cup m.removed
               THEN t \in m.added <=> t \in tagsOf'[f]
               ELSE t \in tagsOf[f] <=> t \in tagsOf'[f]
      PROVE  TagsInv'
  <2>1. UNCHANGED <<connected, dirEntries, faults, reordered, late, newest, pending>>
    BY <1>2 DEF Event, client, link, observed
  <2>2. InOrder /\ connected
    BY <2>1 DEF InOrder, TagsInv
  <2>3. wire' = Append(wire, m)
    BY <1>2, <2>2 DEF Event
  <2>4. TagsKept(0)
    BY <1>1, <1>2, <2>2, <2>3, Telling DEF TagsInv
  <2>5. /\ wire' \in Seq(Messages)
        /\ \A i \in DOMAIN wire' : wire'[i].kind = "answer" => i + 0 \in DOMAIN wire /\ wire'[i] = wire[i + 0]
    <3>1. /\ wire' \in Seq(Messages) /\ DOMAIN wire' = DOMAIN wire \cup {Len(wire) + 1}
          /\ wire'[Len(wire) + 1] = m /\ \A i \in DOMAIN wire : wire'[i] = wire[i]
      BY <1>1, <2>3, Sending
    <3>2. \A i \in DOMAIN wire : i + 0 = i
      BY <1>1 DEF OnWire
    <3> QED BY <1>2, <3>1, <3>2
  <2> QED BY <2>1, <2>2, <2>4, <2>5, TagsAside
<1>3. ASSUME NEW f \in Files, NEW tags \in SUBSET Tags, ChangeTags(f, tags) PROVE TagsInv'
  <2> DEFINE m == [Message("fileTagged") EXCEPT !.file = f, !.added = tags \ tagsOf[f],
                                                !.removed = tagsOf[f] \ tags]
  <2>1. /\ m \in Messages /\ m.kind = "fileTagged" /\ m.file = f /\ m.added = tags \ tagsOf[f]
        /\ m.removed = tagsOf[f] \ tags
    BY <1>1, Messaging DEF Messages, Stored
  <2>2. Event(m) /\ tagsOf' = [tagsOf EXCEPT ![f] = tags] /\ tagsOf \in [Files -> SUBSET Tags]
    BY <1>1, <1>3 DEF ChangeTags, Stored
  <2> HIDE DEF m
  <2>3. \A g \in Files, t \in Tags :
          IF m.kind = "fileTagged" /\ m.file = g /\ t \in m.added \cup m.removed
          THEN t \in m.added <=> t \in tagsOf'[g]
          ELSE t \in tagsOf[g] <=> t \in tagsOf'[g]
    BY <2>1, <2>2
  <2> QED BY <1>2, <2>1, <2>2, <2>3
<1>4. CASE UpdateIndex
  BY <1>2, <1>4, Messaging DEF UpdateIndex
<1>5. ASSUME NEW d \in Dirs, ShowWindow(d) PROVE TagsInv'
  <2> DEFINE m == [Message("showWindow") EXCEPT !.dir = d]
  <2>1. m \in Messages /\ m.kind = "showWindow"
    BY Messaging DEF Messages
  <2>2. Event(m) /\ tagsOf' = tagsOf
    BY <1>5 DEF ShowWindow
  <2> HIDE DEF m
  <2> QED BY <1>2, <2>1, <2>2
<1> QED BY <1>3, <1>4, <1>5 DEF Daemon

\* The daemon reads the tags when it answers.
LEMMA TaggedByAnswer ==
  ASSUME BrowserInv, TagsInv, NEW id \in asked, Answer(id), InOrder'
  PROVE  TagsInv'
<1>1. id \in DOMAIN pending /\ pending[id] \in CallStates /\ faults \in Nat /\ id \in Nat /\ OnWire
  BY DEF BrowserInv, Registered, Window, Bounded
<1>2. UNCHANGED <<connected, pending, tagsOf, dirEntries, newest, late, reordered>>
  BY DEF Answer, observed
<1>3. PICK ok \in BOOLEAN :
        /\ faults' = (IF ok THEN faults ELSE faults + 1)
        /\ wire' = Append(wire, [Message("answer") EXCEPT
                     !.id = id, !.ok = ok, !.call = pending[id],
                     !.entries = IF ok THEN Found(pending[id]) ELSE NoEntries])
  BY DEF Answer
<1>4. ok /\ InOrder /\ connected
  <2>1. ok /\ faults = 0
    BY <1>1, <1>3 DEF InOrder
  <2> QED BY <1>2, <2>1 DEF InOrder, TagsInv
<1>5. PICK m \in Messages : /\ wire' = Append(wire, m) /\ m.kind = "answer" /\ m.id = id
                            /\ m.entries = Found(pending[id])
  <2> DEFINE a == [Message("answer") EXCEPT
                     !.id = id, !.ok = ok, !.call = pending[id],
                     !.entries = IF ok THEN Found(pending[id]) ELSE NoEntries]
  <2>1. Found(pending[id]) \in Entries
    BY <1>1, Finding DEF BrowserInv, Window
  <2>2. a \in Messages /\ a.kind = "answer" /\ a.id = id /\ a.entries = Found(pending[id])
    BY <1>1, <1>4, <2>1, Messaging DEF Messages
  <2>3. wire' = Append(wire, a)
    BY <1>3
  <2> HIDE DEF a
  <2> QED BY <2>2, <2>3
<1> PICK n : n = Len(wire) + 1
  OBVIOUS
<1>6. /\ wire' \in Seq(Messages) /\ DOMAIN wire' = DOMAIN wire \cup {n}
      /\ wire'[n] = m /\ \A i \in DOMAIN wire : wire'[i] = wire[i] /\ i + 0 = i
  <2>1. \A i \in DOMAIN wire : i + 0 = i
    BY <1>1 DEF OnWire
  <2> QED BY <1>1, <1>5, <2>1, Sending
<1>7. TagsKept(0)
  BY <1>1, <1>2, <1>4, <1>5, Telling DEF TagsInv
<1>8. pending[id].kind = "hydrate" => Freshly(n)'
  <2> SUFFICES ASSUME pending[id].kind = "hydrate" PROVE Freshly(n)'
    OBVIOUS
  <2>1. m.entries = [g \in pending[id].files |-> tagsOf[g]]
    BY <1>5 DEF Found, Tagged
  <2>2. pending'[wire'[n].id].files = pending[id].files /\ wire'[n].entries = m.entries
    BY <1>2, <1>5, <1>6
  <2>3. ASSUME NEW f \in pending[id].files PROVE f \in DOMAIN wire'[n].entries /\ Agrees(wire[n].entries[f], f, n)'
    <3>1. wire'[n].entries[f] = tagsOf'[f] /\ f \in DOMAIN wire'[n].entries
      BY <1>2, <2>1, <2>2
    <3> QED BY <3>1 DEF Agrees
  <2> QED BY <2>2, <2>3 DEF Freshly
<1>9. ASSUME NEW i \in DOMAIN wire', wire'[i].kind = "answer", wire'[i].id \in DOMAIN pending,
             pending[wire'[i].id].kind = "hydrate"
      PROVE  \/ i + 0 \in DOMAIN wire /\ wire'[i] = wire[i + 0]
             \/ Freshly(i)'
  <2>1. CASE i \in DOMAIN wire
    BY <1>6, <2>1
  <2>2. CASE i = n
    BY <1>5, <1>6, <1>8, <1>9, <2>2
  <2> QED BY <1>6, <2>1, <2>2
<1> QED BY <1>2, <1>4, <1>6, <1>7, <1>9, TagsAside

\* In order, it is the first message that is handled.
LEMMA InTurn ==
  ASSUME BrowserInv, TagsInv, NEW i, Handle(i), InOrder', late \subseteq late'
  PROVE  /\ i = 1 /\ InOrder /\ connected /\ connected' /\ faults = 0 /\ EitherWay /\ LastSays /\ Ages /\ TagsShown
         /\ 1 \in DOMAIN wire /\ wire' = RemoveAt(wire, 1) /\ tagsOf' = tagsOf /\ wire' \in Seq(Messages)
         /\ \A j \in DOMAIN wire' : j + 1 \in DOMAIN wire /\ wire'[j] = wire[j + 1]
<1>1. UNCHANGED <<connected, faults, tagsOf>> /\ i \in DOMAIN wire /\ wire' = RemoveAt(wire, i)
  BY DEF Handle, link, disk
<1>2. i = 1 /\ InOrder
  BY <1>1 DEF Handle, InOrder
<1>3. wire' \in Seq(Messages) /\ DOMAIN wire' = 1 .. Len(wire) - 1
      /\ \A j \in DOMAIN wire' : wire'[j] = IF j < 1 THEN wire[j] ELSE wire[j + 1]
  BY <1>1, <1>2, Removing DEF BrowserInv, NothingNew
<1>4. \A j \in DOMAIN wire' : j + 1 \in DOMAIN wire /\ wire'[j] = wire[j + 1]
  BY <1>3 DEF BrowserInv, OnWire
<1> QED BY <1>1, <1>2, <1>3, <1>4 DEF TagsInv, InOrder

\* A message is handled that is about no tags.
LEMMA TaggedByOther ==
  ASSUME BrowserInv, TagsInv, NEW i, Handle(i), wire[i].kind # "fileTagged", InOrder', late \subseteq late',
         dirEntries' = dirEntries,
         newest'["list"] = newest["list"], newest'["hydrate"] = newest["hydrate"],
         \A k \in DOMAIN pending' :
           \/ k \in DOMAIN pending /\ pending'[k] = pending[k]
           \/ pending'[k].kind \notin {"list", "hydrate"}
           \/ k = nextID /\ pending'[k].kind = "list" /\ pending'[k].load = loads + 1,
         \A k \in DOMAIN pending : pending[k].kind = "hydrate" => k \in DOMAIN pending' /\ pending'[k] = pending[k]
  PROVE  TagsInv'
<1>1. i = 1 /\ InOrder /\ connected'
      /\ EitherWay /\ LastSays /\ 1 \in DOMAIN wire /\ wire' = RemoveAt(wire, 1) /\ tagsOf' = tagsOf
      /\ wire' \in Seq(Messages) /\ \A j \in DOMAIN wire' : j + 1 \in DOMAIN wire /\ wire'[j] = wire[j + 1]
  BY InTurn
<1>2. TagsKept(1)
  BY <1>1, Passing DEF BrowserInv
<1> QED BY <1>1, <1>2, TagsAside

LEMMA TaggedByRest ==
  ASSUME BrowserInv, TagsInv, NEW i, InOrder',
         \/ SearchAnswered(i) \/ GlobAnswered(i) \/ TrashAnswered(i) \/ MetaAnswered(i) \/ DeleteAnswered(i)
         \/ onIndexUpdated(i) \/ onShowWindow(i)
  PROVE  TagsInv'
<1> DEFINE id == wire[i].id
           c == pending[id]
<1>1. ASSUME NEW kind, Answered(i, kind), kind # "hydrate", late \subseteq late', dirEntries' = dirEntries,
             newest'["list"] = newest["list"], newest'["hydrate"] = newest["hydrate"],
             \A k \in DOMAIN pending' :
               \/ k \in DOMAIN pending /\ pending'[k] = pending[k]
               \/ pending'[k].kind \notin {"list", "hydrate"}
               \/ k = nextID /\ pending'[k].kind = "list" /\ pending'[k].load = loads + 1,
             \A k \in DOMAIN pending \ {id} : k \in DOMAIN pending' /\ pending'[k] = pending[k]
      PROVE  TagsInv'
  <2>1. Handle(i) /\ wire[i].kind = "answer" /\ pending[id].kind = kind
    BY <1>1, Answering
  <2> QED BY <1>1, <2>1, TaggedByOther
<1>2. ASSUME NEW kind, Answered(i, kind), kind # "hydrate", ReturnOnly(id), late \subseteq late',
             dirEntries' = dirEntries,
             newest'["list"] = newest["list"], newest'["hydrate"] = newest["hydrate"]
      PROVE  TagsInv'
  <2>1. pending' = [k \in DOMAIN pending \ {id} |-> pending[k]]
    BY <1>2 DEF ReturnOnly, Others
  <2> QED BY <1>1, <1>2, <2>1
<1>3. \A n : Applied("search", n) =>
        late \subseteq late' /\ newest'["list"] = newest["list"] /\ newest'["hydrate"] = newest["hydrate"]
  BY DEF Applied, BrowserInv, Window, Bounded, Lists
<1>4. CASE SearchAnswered(i)
  <2>1. Answered(i, "search") /\ dirEntries' = dirEntries
    BY <1>4 DEF SearchAnswered
  <2>2. CASE DOMAIN wire[i].entries = {} /\ c.chips.glob
    <3> DEFINE g == [c EXCEPT !.kind = "glob"]
    <3>1. Register(Others(id), g, asked) /\ id \in DOMAIN pending \ asked /\ c \in CallStates
          /\ UNCHANGED <<loads, newest, late>>
      BY <1>4, <2>1, <2>2, Answering DEF SearchAnswered, observed
    <3>2. g \in CallStates /\ g.kind = "glob" /\ g.load = c.load /\ c.load <= loads /\ loads \in Nat
      BY <3>1, Calling DEF CallStates, BrowserInv, Registered
    <3>3. Beside(Others(id)) /\ DOMAIN Others(id) = DOMAIN pending \ {id} /\ connected \in BOOLEAN
      BY <3>1, Alongside DEF BrowserInv, Window, Stored
    <3> HIDE DEF g
    <3>4. Adds(Others(id), g, c.load)
      <4>1. g.load <= loads' /\ loads' \in Nat /\ loads <= loads'
        BY <3>1, <3>2
      <4> QED BY <3>1, <3>2, <3>3, <4>1, Registering DEF BrowserInv
    <3> QED BY <1>1, <2>1, <3>1, <3>2, <3>3, <3>4 DEF Adds, Beside
  <2>3. CASE ~(DOMAIN wire[i].entries = {} /\ c.chips.glob)
    <3>1. Applied("search", c.load) /\ ReturnOnly(id)
      BY <1>4, <2>3 DEF SearchAnswered
    <3> QED BY <1>2, <1>3, <2>1, <3>1
  <2> QED BY <2>2, <2>3
<1>5. CASE GlobAnswered(i)
  BY <1>2, <1>3, <1>5 DEF GlobAnswered
<1>6. CASE TrashAnswered(i) \/ MetaAnswered(i)
  BY <1>2, <1>6 DEF TrashAnswered, MetaAnswered, observed
<1>7. CASE DeleteAnswered(i)
  <2>1. Answered(i, "delete") /\ UNCHANGED <<dirEntries, newest, late>>
    BY <1>7 DEF DeleteAnswered
  <2>2. CASE wire[i].ok
    <3> DEFINE l == IF isTrashView THEN Call("trash") ELSE ListDir(currentPath)
    <3>1. Load(Others(id), l) /\ id \in DOMAIN pending \ asked
      BY <1>7, <2>1, <2>2, Answering DEF DeleteAnswered
    <3>2. l \in CallStates /\ l.kind \in {"trash", "list"}
      BY CallsAre, ListingIs DEF BrowserInv, Window, Placed, Shown
    <3>3. Beside(Others(id)) /\ DOMAIN Others(id) = DOMAIN pending \ {id} /\ connected \in BOOLEAN
      BY <3>1, Alongside DEF BrowserInv, Window, Stored
    <3> HIDE DEF l
    <3>4. Adds(Others(id), l, loads + 1)
      BY <3>1, <3>2, <3>3, Loading DEF BrowserInv
    <3> QED BY <1>1, <2>1, <3>2, <3>3, <3>4 DEF Adds, Beside
  <2>3. CASE ~wire[i].ok
    BY <1>2, <1>7, <2>1, <2>3 DEF DeleteAnswered
  <2> QED BY <2>2, <2>3
<1>8. CASE onIndexUpdated(i)
  <2>1. Handle(i) /\ wire[i].kind = "indexUpdated" /\ dirEntries' = dirEntries
        /\ searchChips \in Searches \cup {NoChips} /\ showHidden \in BOOLEAN /\ connected \in BOOLEAN
    BY <1>8 DEF onIndexUpdated, BrowserInv, Window, Shown, Stored
  <2>2. CASE isSearchMode /\ Searchable(searchChips)
    <3> DEFINE s == SearchCall(searchChips, showHidden)
    <3>1. Load(pending, s) /\ newest' = newest /\ late' = late
      BY <1>8, <2>2 DEF onIndexUpdated
    <3>2. s \in CallStates /\ s.kind \in {"search", "glob"}
      BY <2>1, SearchCalls
    <3> HIDE DEF s
    <3>3. Adds(pending, s, loads + 1)
      BY <2>1, <3>1, <3>2, Alongside, Loading DEF BrowserInv
    <3> QED BY <2>1, <3>1, <3>2, <3>3, TaggedByOther DEF Adds
  <2>3. CASE isSearchMode /\ ~Searchable(searchChips)
    <3>1. Applied("search", loads + 1) /\ pending' = pending
      BY <1>8, <2>3 DEF onIndexUpdated, client
    <3> QED BY <1>3, <2>1, <3>1, TaggedByOther
  <2>4. CASE ~isSearchMode
    BY <1>8, <2>1, <2>4, TaggedByOther DEF onIndexUpdated, client, observed
  <2> QED BY <2>2, <2>3, <2>4
<1>9. CASE onShowWindow(i)
  <2> DEFINE d == wire[i].dir
  <2>1. Handle(i) /\ wire[i].kind = "showWindow" /\ Load(pending, ListDir(d))
        /\ UNCHANGED <<dirEntries, newest, late>>
    BY <1>9 DEF onShowWindow
  <2>2. d \in Dirs
    BY <2>1, Handling DEF Messages
  <2> HIDE DEF d
  <2>3. ListDir(d) \in CallStates /\ ListDir(d).kind = "list" /\ connected \in BOOLEAN
    BY <2>2, ListingIs DEF BrowserInv, Window, Shown, Stored
  <2>4. Adds(pending, ListDir(d), loads + 1)
    BY <2>1, <2>3, Alongside, Loading DEF BrowserInv
  <2> QED BY <2>1, <2>3, <2>4, TaggedByOther DEF Adds
<1> QED BY <1>4, <1>5, <1>6, <1>7, <1>8, <1>9

\* An event is applied to what is listed: what agreed but for it agrees.
LEMMA TaggedByEvent ==
  ASSUME BrowserInv, TagsInv, NEW i, onFileTagged(i), InOrder'
  PROVE  TagsInv'
<1>1. Handle(i) /\ wire[i].kind = "fileTagged" /\ dirEntries' = Patched(dirEntries, wire[i])
      /\ UNCHANGED <<pending, newest, late>>
  BY DEF onFileTagged, client, observed
<1>2. i = 1 /\ connected' /\ EitherWay /\ LastSays /\ Ages /\ TagsShown
      /\ 1 \in DOMAIN wire /\ wire' = RemoveAt(wire, 1) /\ tagsOf' = tagsOf /\ wire' \in Seq(Messages)
      /\ \A j \in DOMAIN wire' : j + 1 \in DOMAIN wire /\ wire'[j] = wire[j + 1]
  BY <1>1, InTurn
<1> PICK m : m = wire[1]
  OBVIOUS
<1>3. m \in Messages /\ dirEntries \in Entries /\ m.kind = "fileTagged"
  BY <1>1, <1>2, Handling DEF BrowserInv, Window, Shown
<1>4. DOMAIN dirEntries' = DOMAIN dirEntries /\ DOMAIN dirEntries \in SUBSET Files
      /\ dirEntries \in [DOMAIN dirEntries -> SUBSET Tags]
  BY <1>1, <1>2, <1>3, Patching, EntriesAre
<1>5. Shifted(1) /\ \A f, t : Silent(f, t, 0)' => Silent(f, t, 1)
  BY <1>2, Shifting DEF BrowserInv
<1>6. Ages'
  BY <1>1, <1>2 DEF Ages, Dated
<1>7. ASSUME NEW f \in DOMAIN dirEntries, Agrees(dirEntries[f], f, 0) PROVE Agrees(dirEntries[f], f, 0)'
  <2> SUFFICES ASSUME NEW t \in Tags, Silent(f, t, 0)' PROVE t \in dirEntries'[f] <=> t \in tagsOf'[f]
    BY DEF Agrees
  <2>1. dirEntries'[f] = IF f = m.file THEN (dirEntries[f] \cup m.added) \ m.removed ELSE dirEntries[f]
    BY <1>1, <1>2, <1>4 DEF Patched
  <2>2. Silent(f, t, 1)
    BY <1>5
  <2>3. CASE Mentions(1, f, t)
    <3>1. m.file = f /\ t \in m.added \cup m.removed /\ m.added \cap m.removed = {}
      BY <1>2, <1>3, <2>3 DEF Mentions, EitherWay
    <3>2. t \in m.added <=> t \in tagsOf[f]
      BY <1>2, <1>4, <2>2, <2>3 DEF LastSays
    <3> QED BY <1>2, <2>1, <3>1, <3>2
  <2>4. CASE ~Mentions(1, f, t)
    <3>1. Silent(f, t, 0)
      <4>1. \A l \in DOMAIN wire : l = 1 \/ l > 1
        BY DEF BrowserInv, OnWire
      <4> QED BY <2>2, <2>4, <4>1 DEF Silent
    <3>2. t \in dirEntries[f] <=> t \in tagsOf[f]
      BY <1>7, <3>1 DEF Agrees
    <3>3. m.file = f => t \notin m.added \cup m.removed
      BY <1>3, <2>4 DEF Mentions
    <3> QED BY <1>2, <2>1, <3>2, <3>3
  <2> QED BY <2>3, <2>4
<1>8. ASSUME NEW id \in DOMAIN pending, Hydration(id) PROVE Hydration(id)'
  BY <1>1, <1>2, <1>4, <1>5, <1>8, StillHydrating DEF Hydration
<1>9. TagsShown'
  BY <1>1, <1>2, <1>4, <1>7, <1>8 DEF TagsShown
<1> QED BY <1>2, <1>5, <1>6, <1>9 DEF TagsInv, Shifted

\* The tags have come: those of what is listed now, or of what was.
LEMMA TaggedByHydration ==
  ASSUME BrowserInv, TagsInv, NEW i, HydrateAnswered(i), InOrder'
  PROVE  TagsInv'
<1> PICK id : id = wire[i].id
  OBVIOUS
<1> PICK n : n = pending[id].load
  OBVIOUS
<1>1. Answered(i, "hydrate") /\ Applied("hydrate", n) /\ ReturnOnly(id)
      /\ dirEntries' = IF wire[i].ok THEN Hydrated(dirEntries, wire[i].entries) ELSE dirEntries
  BY DEF HydrateAnswered
<1>2. Handle(i) /\ id \in DOMAIN pending /\ pending[id].kind = "hydrate" /\ wire[i].kind = "answer"
      /\ n \in 0 .. loads /\ wire[i].entries \in Entries /\ (~wire[i].ok => faults # 0)
  BY <1>1, Answering
<1>3. i = 1 /\ connected' /\ faults = 0 /\ EitherWay /\ LastSays /\ Ages /\ TagsShown
      /\ 1 \in DOMAIN wire /\ wire' = RemoveAt(wire, 1) /\ tagsOf' = tagsOf /\ wire' \in Seq(Messages)
      /\ \A j \in DOMAIN wire' : j + 1 \in DOMAIN wire /\ wire'[j] = wire[j + 1]
  <2>1. late \subseteq late'
    BY <1>1 DEF Applied
  <2> QED BY <1>2, <2>1, InTurn
<1>4. /\ newest["list"] \in Nat /\ newest["hydrate"] \in Nat /\ n \in Nat
      /\ newest'["list"] = newest["list"] /\ newest'["hydrate"] = n /\ ~(n < newest["hydrate"])
  <2>1. newest \in [Lists -> 0 .. loads] /\ loads \in Nat
    BY DEF BrowserInv, Window, Bounded, Registered
  <2>2. late' = {}
    BY DEF InOrder
  <2> QED BY <1>1, <1>2, <2>1, <2>2 DEF Applied, Lists
<1>5. n <= newest["list"] /\ n > newest["hydrate"]
  BY <1>2, <1>3, <1>4 DEF Ages
<1>6. /\ DOMAIN pending' = DOMAIN pending \ {id}
      /\ \A k \in DOMAIN pending' : pending'[k] = pending[k]
  BY <1>1 DEF ReturnOnly, Others
<1>7. Ages'
  <2>1. \A k \in DOMAIN pending' : pending'[k].kind = "hydrate" => pending'[k].load # n
    BY <1>2, <1>3, <1>6 DEF Ages, Dated
  <2> QED BY <1>3, <1>4, <1>5, <1>6, <2>1 DEF Ages, Dated
<1>8. Shifted(1)
  BY <1>3, Shifting DEF BrowserInv
<1>9. dirEntries \in Entries /\ dirEntries' = Hydrated(dirEntries, wire[1].entries)
      /\ DOMAIN dirEntries' = DOMAIN dirEntries /\ DOMAIN dirEntries \in SUBSET Files
  BY <1>1, <1>2, <1>3, Hydrating, EntriesAre DEF BrowserInv, Window, Shown
<1>10. TagsShown'
  <2>1. CASE DOMAIN dirEntries = {}
    BY <1>9, <2>1 DEF TagsShown
  <2>2. CASE Hydration(id)
    <3>1. newest'["hydrate"] = newest'["list"]
      BY <1>4, <2>2 DEF Hydration
    <3>2. ASSUME NEW f \in DOMAIN dirEntries PROVE Agrees(dirEntries[f], f, 0)'
      <4>1. PICK tags : tags = wire[1].entries[f]
        OBVIOUS
      <4>2. f \in DOMAIN wire[1].entries /\ Agrees(tags, f, 1) /\ f \in Files
        BY <1>2, <1>3, <1>9, <2>2, <4>1 DEF Hydration
      <4>3. Agrees(tags, f, 0)'
        <5>1. 1 - 1 = 0
          OBVIOUS
        <5> QED BY <1>3, <1>8, <4>2, <5>1 DEF Shifted
      <4>4. dirEntries'[f] = tags
        BY <1>9, <4>1, <4>2 DEF Hydrated
      <4> QED BY <4>3, <4>4
    <3> QED BY <1>9, <3>1, <3>2 DEF TagsShown
  <2>3. ASSUME NEW h \in DOMAIN pending, Hydration(h), h # id PROVE TagsShown'
    <3>1. n # newest["list"]
      BY <1>2, <1>3, <2>3 DEF Hydration, Ages, Dated
    <3>2. newest'["hydrate"] < newest'["list"]
      BY <1>4, <1>5, <3>1
    <3>3. h \in DOMAIN pending' /\ pending'[h] = pending[h]
      BY <1>6, <2>3
    <3>4. Hydration(h)'
      BY <1>3, <1>4, <1>8, <1>9, <2>3, <3>2, <3>3, StillHydrating
    <3> QED BY <3>3, <3>4 DEF TagsShown
  <2>4. newest["hydrate"] # newest["list"]
    BY <1>4, <1>5
  <2> QED BY <1>3, <2>1, <2>2, <2>3, <2>4 DEF TagsShown
<1> QED BY <1>3, <1>7, <1>8, <1>10 DEF TagsInv, Shifted

\* A listing has come: its tags are asked for.
LEMMA TaggedByListing ==
  ASSUME BrowserInv, TagsInv, NEW i, ListAnswered(i), InOrder'
  PROVE  TagsInv'
<1> PICK id : id = wire[i].id
  OBVIOUS
<1> PICK n : n = pending[id].load
  OBVIOUS
<1>1. Answered(i, "list") /\ Applied("list", n) /\ loads' = loads /\ dirEntries' = wire[i].entries
  BY DEF ListAnswered
<1>2. Handle(i) /\ id \in DOMAIN pending \ asked /\ pending[id].kind = "list" /\ n \in 0 .. loads
      /\ wire[i].entries \in Entries
  BY <1>1, Answering
<1>3. connected' /\ EitherWay /\ LastSays /\ Ages
      /\ 1 \in DOMAIN wire /\ wire' = RemoveAt(wire, 1) /\ tagsOf' = tagsOf /\ wire' \in Seq(Messages)
      /\ \A j \in DOMAIN wire' : j + 1 \in DOMAIN wire /\ wire'[j] = wire[j + 1]
  <2>1. late \subseteq late'
    BY <1>1 DEF Applied
  <2> QED BY <1>2, <2>1, InTurn
<1>4. /\ newest["list"] \in Nat /\ newest["hydrate"] \in Nat /\ n \in Nat /\ loads \in Nat
      /\ newest'["list"] = n /\ newest'["hydrate"] = newest["hydrate"] /\ ~(n < newest["list"])
  <2>1. newest \in [Lists -> 0 .. loads] /\ loads \in Nat
    BY DEF BrowserInv, Window, Bounded, Registered
  <2>2. late' = {}
    BY DEF InOrder
  <2> QED BY <1>1, <1>2, <2>1, <2>2 DEF Applied, Lists
<1>5. n > newest["list"] /\ newest["hydrate"] < n
  BY <1>2, <1>3, <1>4 DEF Ages
<1> PICK new : new = nextID
  OBVIOUS
<1>6. /\ \A k \in DOMAIN pending' :
           \/ k \in DOMAIN pending \ {id} /\ pending'[k] = pending[k]
           \/ k = new /\ pending'[k].kind = "hydrate" /\ pending'[k].load = n
      /\ DOMAIN dirEntries' # {} =>
           /\ new \in DOMAIN pending' /\ pending'[new].kind = "hydrate" /\ pending'[new].load = n
           /\ pending'[new].files = DOMAIN dirEntries'
  <2>1. CASE DOMAIN wire[i].entries = {}
    BY <1>1, <2>1 DEF ListAnswered, ReturnOnly, Others
  <2>2. CASE DOMAIN wire[i].entries # {}
    <3> DEFINE h == [Call("hydrate") EXCEPT !.load = n, !.files = DOMAIN wire[i].entries]
    <3>1. Call("hydrate") \in CallStates /\ Call("hydrate").kind = "hydrate"
          /\ DOMAIN wire[i].entries \in SUBSET Files
      BY <1>2, Calling, EntriesAre DEF CallKinds
    <3>2. h \in CallStates /\ h.kind = "hydrate" /\ h.load = n /\ h.files = DOMAIN dirEntries'
      BY <1>1, <1>4, <3>1 DEF CallStates
    <3>3. Register(Others(id), h, asked)
      BY <2>2 DEF ListAnswered
    <3> HIDE DEF h
    <3>4. Beside(Others(id)) /\ DOMAIN Others(id) = DOMAIN pending \ {id} /\ connected \in BOOLEAN
      BY <1>2, Alongside DEF BrowserInv, Window, Stored
    <3>5. h.load <= loads' /\ loads' \in Nat /\ loads <= loads'
      BY <1>1, <1>2, <1>4, <3>2
    <3>6. Adds(Others(id), h, h.load)
      BY <3>2, <3>3, <3>4, <3>5, Registering DEF BrowserInv
    <3> QED BY <1>1, <3>2, <3>4, <3>6 DEF Adds, Beside
  <2> QED BY <2>1, <2>2
<1>7. Ages'
  <2>1. \A k \in DOMAIN pending \ {id} : pending[k].kind \in {"list", "hydrate"} => pending[k].load # n
    BY <1>2, <1>3 DEF Ages, Dated
  <2>2. \A k \in DOMAIN pending' : pending'[k].kind = "list" => pending'[k].load # newest'["list"]
    BY <1>4, <1>6, <2>1
  <2>3. \A k \in DOMAIN pending : pending[k].load \in Nat
    BY DEF BrowserInv, Registered, CallStates
  <2>4. \A k \in DOMAIN pending' : pending'[k].kind = "hydrate" =>
          pending'[k].load <= newest'["list"] /\ pending'[k].load # newest'["hydrate"]
    BY <1>3, <1>4, <1>5, <1>6, <2>3 DEF Ages
  <2>5. \A k, l \in DOMAIN pending' : Dated(k)' /\ Dated(l)' /\ pending'[k].load = pending'[l].load => k = l
    BY <1>3, <1>6, <2>1 DEF Ages, Dated
  <2> QED BY <1>4, <1>5, <2>2, <2>4, <2>5 DEF Ages
<1>8. Shifted(1)
  BY <1>3, Shifting DEF BrowserInv
<1>9. TagsShown'
  <2>1. CASE DOMAIN dirEntries' = {}
    BY <2>1 DEF TagsShown
  <2>2. CASE DOMAIN dirEntries' # {}
    <3>1. ASSUME NEW j \in DOMAIN wire', wire'[j].kind = "answer" PROVE wire'[j].id # new
      <4>1. wire'[j].id \in 1 .. new - 1 /\ new \in Nat
        BY <1>3, <3>1 DEF BrowserInv, OnWire, Registered
      <4> QED BY <4>1
    <3>2. Hydration(new)'
      BY <1>4, <1>5, <1>6, <2>2, <3>1 DEF Hydration
    <3> QED BY <1>6, <2>2, <3>2 DEF TagsShown
  <2> QED BY <2>1, <2>2
<1> QED BY <1>3, <1>7, <1>8, <1>9 DEF TagsInv, Shifted

LEMMA TagsStep == BrowserInv /\ TagsInv /\ [Next]_vars => TagsInv'
<1> SUFFICES ASSUME BrowserInv, TagsInv, [Next]_vars, InOrder' PROVE TagsInv'
  BY DEF TagsInv
<1>1. CASE User
  BY <1>1, TaggedByUser
<1>2. CASE Daemon
  BY <1>2, TaggedByDaemon
<1>3. CASE Answers
  BY <1>3, TaggedByAnswer DEF Answers
<1>4. CASE Deliver
  BY <1>4, TaggedByListing, TaggedByHydration, TaggedByRest, TaggedByEvent DEF Deliver
<1>5. CASE Disconnect
  <2>1. faults' = faults + 1
    BY <1>5 DEF Disconnect
  <2>2. faults \in Nat
    BY DEF BrowserInv, Window, Bounded
  <2> QED BY <2>1, <2>2 DEF InOrder
<1>6. CASE Reconnect
  BY <1>6 DEF Reconnect, observed, InOrder, TagsInv
<1>7. CASE UNCHANGED vars
  <2>1. UNCHANGED <<connected, faults, wire, tagsOf, pending, dirEntries, newest, late, reordered>>
    BY <1>7 DEF vars, client, link, disk, observed
  <2>2. InOrder
    BY <2>1 DEF InOrder
  <2>3. EitherWay' /\ LastSays'
    BY <2>1, <2>2 DEF TagsInv, EitherWay, LastSays, Silent, Mentions
  <2>4. Ages'
    BY <2>1, <2>2 DEF TagsInv, Ages, Dated
  <2>5. TagsShown'
    BY <2>1, <2>2 DEF TagsInv, TagsShown, Hydration, Agrees, Silent, Mentions
  <2> QED BY <2>1, <2>2, <2>3, <2>4, <2>5 DEF TagsInv
<1> QED BY <1>1, <1>2, <1>3, <1>4, <1>5, <1>6, <1>7 DEF Next

LEMMA TagsBegin == Init => TagsInv
<1> SUFFICES ASSUME Init PROVE TagsInv
  OBVIOUS
<1> DEFINE c == [Call("list") EXCEPT !.dir = Root, !.load = 1]
<1>1. c.kind = "list" /\ c.load = 1
  BY DEF Call
<1>2. pending = [id \in {1} |-> c] /\ newest = [l \in Lists |-> 0] /\ wire = <<>> /\ connected = TRUE
      /\ dirEntries = NoEntries
  BY DEF Init
<1> HIDE DEF c
<1>3. Ages
  BY <1>1, <1>2 DEF Ages, Dated, Lists
<1>4. EitherWay /\ LastSays
  BY <1>2 DEF EitherWay, LastSays
<1>5. TagsShown
  BY <1>2, Nothing DEF TagsShown
<1> QED BY <1>2, <1>3, <1>4, <1>5 DEF TagsInv

\* As long as nothing overtakes and nothing fails, a directory ends up with the
\* tags of the index, whatever changed between the two requests that load it
\* (the callbacks of _loadDirectory, _patchEntryTags).
THEOREM TheTagsShown == Spec => []TagsCurrent
<1>1. BrowserInv /\ TagsInv => TagsCurrent
  <2> SUFFICES ASSUME BrowserInv, TagsInv, InOrder, wire = <<>>, ~Awaiting({"hydrate"}, "hydrate"),
                      NEW f \in DOMAIN dirEntries
               PROVE  dirEntries[f] = tagsOf[f]
    BY DEF TagsCurrent, InOrder
  <2>1. f \in Files /\ dirEntries[f] \in SUBSET Tags /\ tagsOf[f] \in SUBSET Tags
    BY EntriesAre DEF BrowserInv, Window, Shown, Stored
  <2>2. ~\E id \in DOMAIN pending : Hydration(id)
    BY DEF Hydration, Awaiting, BrowserInv, Registered, CallStates, Window, Bounded, Lists
  <2>3. Agrees(dirEntries[f], f, 0)
    BY <2>2 DEF TagsInv, TagsShown
  <2>4. \A t \in Tags : Silent(f, t, 0)
    BY DEF Silent
  <2> QED BY <2>1, <2>3, <2>4 DEF Agrees
<1>2. BrowserInv /\ TagsInv /\ [Next]_vars => (BrowserInv /\ TagsInv)'
  BY BrowserStep, TagsStep
<1>3. Init => BrowserInv /\ TagsInv
  BY BrowserBegins, TagsBegin
<1> QED BY <1>1, <1>2, <1>3, PTL DEF Spec

-----------------------------------------------------------------------------
(***************************************************************************)
(* Every callback is called                                                *)
(***************************************************************************)
OnItsWay(id) == \E i \in DOMAIN wire : wire[i].kind = "answer" /\ wire[i].id = id

\* A call that was sent is with the daemon or its answer is on its way; an
\* answer has a callback that waits for it and no second answer beside it; and
\* with the connection go the calls and the answers.
CallbackDue ==
  /\ \A id \in DOMAIN pending : pending[id].sent => id \in asked \/ OnItsWay(id)
  /\ \A i \in DOMAIN wire : wire[i].kind = "answer" =>
       /\ wire[i].id \in DOMAIN pending
       /\ \A j \in DOMAIN wire : wire[j].kind = "answer" /\ wire[j].id = wire[i].id => i = j
  /\ wire # <<>> \/ asked # {} => connected

\* A call that was sent stays registered until its own answer is handled, and
\* that takes the answer off the wire, or until the connection is lost.
StaysRegistered ==
  \A id \in DOMAIN pending : pending[id].sent =>
    \/ id \in DOMAIN pending' /\ pending'[id] = pending[id]
    \/ \E i \in DOMAIN wire : wire[i].kind = "answer" /\ wire[i].id = id /\ wire' = RemoveAt(wire, i)
    \/ connected /\ ~connected'

\* New calls join those that wait, and are with the daemon if they were sent.
Joined(waiting) ==
  /\ asked \subseteq asked'
  /\ \A id \in DOMAIN waiting : id \in DOMAIN pending' /\ pending'[id] = waiting[id]
  /\ \A n \in DOMAIN pending' : n \in DOMAIN waiting \/ (pending'[n].sent => n \in asked')
  /\ connected' = connected /\ (~connected => asked' = asked)

LEMMA JoinedByCall ==
  ASSUME BrowserInv, NEW waiting, Beside(waiting), NEW c \in CallStates,
         Register(waiting, c, asked), connected' = connected
  PROVE  Joined(waiting)
<1> DEFINE e == [c EXCEPT !.sent = connected]
<1>1. e.sent = connected
  BY DEF CallStates
<1>2. pending' = [id \in DOMAIN waiting \cup {nextID} |-> IF id = nextID THEN e ELSE waiting[id]]
      /\ asked' = IF connected THEN asked \cup {nextID} ELSE asked
  BY DEF Register
<1>3. nextID \notin DOMAIN waiting
  BY DEF BrowserInv, Registered, Beside
<1> HIDE DEF e
<1> QED BY <1>1, <1>2, <1>3 DEF Joined

LEMMA JoinedByLoad ==
  ASSUME BrowserInv, NEW waiting, Beside(waiting), NEW c \in CallStates,
         Load(waiting, c), connected' = connected
  PROVE  Joined(waiting)
<1>1. loads + 1 \in Nat
  BY DEF BrowserInv, Registered
<1>2. [c EXCEPT !.load = loads + 1] \in CallStates
  BY <1>1, Calling
<1> QED BY <1>2, JoinedByCall DEF Load

LEMMA JoinedByNone ==
  ASSUME UNCHANGED client, connected' = connected
  PROVE  Joined(pending)
BY DEF client, Joined

LEMMA JoinedByReturn ==
  ASSUME NEW id, ReturnOnly(id), connected' = connected
  PROVE  Joined(Others(id))
BY DEF ReturnOnly, Joined

LEMMA JoinedByAsk ==
  ASSUME BrowserInv, NEW c \in CallStates, Ask(c)
  PROVE  Joined(pending) /\ wire' = wire
<1>1. Load(pending, c) /\ connected' = connected /\ wire' = wire
  BY DEF Ask, link
<1> QED BY <1>1, Alongside, JoinedByLoad DEF BrowserInv

LEMMA JoinedBySearch ==
  ASSUME BrowserInv, NEW chips \in Searches \cup {NoChips}, NEW hid \in BOOLEAN,
         ExecuteSearch(chips, hid)
  PROVE  Joined(pending) /\ wire' = wire
<1>1. CASE Searchable(chips)
  BY <1>1, SearchCalls, JoinedByAsk DEF ExecuteSearch
<1>2. CASE ~Searchable(chips)
  BY <1>2, JoinedByNone DEF ExecuteSearch, link
<1> QED BY <1>1, <1>2

LEMMA JoinedByUser ==
  ASSUME BrowserInv, User
  PROVE  Joined(pending) /\ wire' = wire
<1> USE DEF BrowserInv, Window, Shown, Placed
<1>1. ASSUME NEW d \in Dirs, navigateTo(d) PROVE Joined(pending) /\ wire' = wire
  BY <1>1, ListingIs, JoinedByAsk DEF navigateTo
<1>2. ASSUME NEW i, GoTo(i) PROVE Joined(pending) /\ wire' = wire
  <2>1. Ask(ListDir(hist[i])) /\ hist[i] \in Dirs
    BY <1>2 DEF GoTo
  <2> QED BY <2>1, ListingIs, JoinedByAsk
<1>3. CASE navigateToTrash
  BY <1>3, CallsAre, JoinedByAsk DEF navigateToTrash
<1>4. ASSUME NEW chips \in Searches, executeSearch(chips) PROVE Joined(pending) /\ wire' = wire
  BY <1>4, JoinedBySearch DEF executeSearch
<1>5. CASE toggleHidden
  <2>0. (~showHidden) \in BOOLEAN /\ currentPath \in Dirs
    OBVIOUS
  <2>1. CASE isSearchMode
    <3>1. ExecuteSearch(searchChips, ~showHidden)
      BY <1>5, <2>1 DEF toggleHidden
    <3> QED BY <2>0, <3>1, JoinedBySearch
  <2>2. CASE ~isSearchMode /\ ~isTrashView
    <3>1. Ask([ListDir(currentPath) EXCEPT !.hid = ~showHidden])
      BY <1>5, <2>2 DEF toggleHidden
    <3> QED BY <2>0, <3>1, ListingIs, JoinedByAsk
  <2>3. CASE ~isSearchMode /\ isTrashView
    <3>1. UNCHANGED <<client, link, wire>>
      BY <1>5, <2>3 DEF toggleHidden
    <3> QED BY <3>1, JoinedByNone DEF link
  <2> QED BY <2>1, <2>2, <2>3
<1>6. CASE refresh
  <2>1. CASE isTrashView
    BY <1>6, <2>1, CallsAre, JoinedByAsk DEF refresh
  <2>2. CASE isSearchMode /\ ~isTrashView
    <3>1. ExecuteSearch(searchChips, showHidden)
      BY <1>6, <2>2 DEF refresh
    <3> QED BY <3>1, JoinedBySearch
  <2>3. CASE ~isSearchMode /\ ~isTrashView
    <3>1. Ask(ListDir(currentPath)) /\ currentPath \in Dirs
      BY <1>6, <2>3 DEF refresh
    <3> QED BY <3>1, ListingIs, JoinedByAsk
  <2> QED BY <2>1, <2>2, <2>3
<1>7. ASSUME NEW f \in Files, selectFile(f) PROVE Joined(pending) /\ wire' = wire
  BY <1>7, CallsAre, JoinedByAsk DEF selectFile
<1>8. CASE deleteSelected
  BY <1>8, CallsAre, JoinedByAsk DEF deleteSelected
<1> QED BY <1>1, <1>2, <1>3, <1>4, <1>5, <1>6, <1>7, <1>8 DEF User, goBack, goForward

\* An answer is handled: the other calls wait on, and its callback may call.
LEMMA JoinedByDelivery ==
  ASSUME BrowserInv, NEW i \in DOMAIN wire,
         \/ ListAnswered(i) \/ HydrateAnswered(i) \/ SearchAnswered(i) \/ GlobAnswered(i)
         \/ TrashAnswered(i) \/ MetaAnswered(i) \/ DeleteAnswered(i)
  PROVE  Handle(i) /\ wire[i].kind = "answer" /\ Joined(Others(wire[i].id))
<1> DEFINE id == wire[i].id
<1>1. ASSUME NEW kind \in CallKinds, Answered(i, kind)
      PROVE  /\ Handle(i) /\ wire[i].kind = "answer" /\ connected' = connected
             /\ pending[id] \in CallStates /\ pending[id].load \in Nat
             /\ Beside(Others(id)) /\ wire[i].entries \in Entries
  <2>1. /\ Handle(i) /\ id \in DOMAIN pending \ asked /\ pending[id] \in CallStates
        /\ wire[i].kind = "answer" /\ wire[i].entries \in Entries
    BY <1>1, Answering
  <2>2. connected' = connected
    BY <2>1 DEF Handle, link
  <2>3. Beside(Others(id))
    BY <2>1, Alongside DEF BrowserInv
  <2>4. pending[id].load \in Nat
    BY <2>1 DEF CallStates
  <2> QED BY <2>1, <2>2, <2>3, <2>4
<1>2. ASSUME ReturnOnly(id), connected' = connected PROVE Joined(Others(id))
  BY <1>2, JoinedByReturn
<1>3. CASE HydrateAnswered(i)
  BY <1>1, <1>2, <1>3 DEF HydrateAnswered, CallKinds
<1>4. CASE GlobAnswered(i)
  BY <1>1, <1>2, <1>4 DEF GlobAnswered, CallKinds
<1>5. CASE TrashAnswered(i)
  BY <1>1, <1>2, <1>5 DEF TrashAnswered, CallKinds
<1>6. CASE MetaAnswered(i)
  BY <1>1, <1>2, <1>6 DEF MetaAnswered, CallKinds
<1>7. CASE ListAnswered(i)
  <2> DEFINE e == [Call("hydrate") EXCEPT !.load = pending[id].load, !.files = DOMAIN wire[i].entries]
  <2>1. /\ Handle(i) /\ wire[i].kind = "answer" /\ connected' = connected
        /\ pending[id].load \in Nat /\ Beside(Others(id)) /\ wire[i].entries \in Entries
    BY <1>1, <1>7 DEF ListAnswered, CallKinds
  <2>2. ReturnOnly(id) \/ Register(Others(id), e, asked)
    BY <1>7 DEF ListAnswered
  <2>3. e \in CallStates
    <3>1. Call("hydrate") \in CallStates
      BY Calling DEF CallKinds
    <3>2. DOMAIN wire[i].entries \in SUBSET Files
      BY <2>1, EntriesAre
    <3> QED BY <2>1, <3>1, <3>2 DEF CallStates
  <2> HIDE DEF e
  <2> QED BY <1>2, <2>1, <2>2, <2>3, JoinedByCall
<1>8. CASE SearchAnswered(i)
  <2> DEFINE e == [pending[id] EXCEPT !.kind = "glob"]
  <2>1. /\ Handle(i) /\ wire[i].kind = "answer" /\ connected' = connected
        /\ pending[id] \in CallStates /\ Beside(Others(id))
    BY <1>1, <1>8 DEF SearchAnswered, CallKinds
  <2>2. ReturnOnly(id) \/ Register(Others(id), e, asked)
    BY <1>8 DEF SearchAnswered
  <2>3. e \in CallStates
    BY <2>1, Calling
  <2> HIDE DEF e
  <2> QED BY <1>2, <2>1, <2>2, <2>3, JoinedByCall
<1>9. CASE DeleteAnswered(i)
  <2> DEFINE e == IF isTrashView THEN Call("trash") ELSE ListDir(currentPath)
  <2>1. /\ Handle(i) /\ wire[i].kind = "answer" /\ connected' = connected /\ Beside(Others(id))
    BY <1>1, <1>9 DEF DeleteAnswered, CallKinds
  <2>2. ReturnOnly(id) \/ Load(Others(id), e)
    BY <1>9 DEF DeleteAnswered
  <2>3. e \in CallStates
    BY CallsAre, ListingIs DEF BrowserInv, Window, Placed, Shown
  <2> HIDE DEF e
  <2> QED BY <1>2, <2>1, <2>2, <2>3, JoinedByLoad
<1> QED BY <1>3, <1>4, <1>5, <1>6, <1>7, <1>8, <1>9

LEMMA JoinedByHandling ==
  ASSUME BrowserInv, NEW i \in DOMAIN wire,
         onFileTagged(i) \/ onIndexUpdated(i) \/ onShowWindow(i)
  PROVE  Handle(i) /\ wire[i].kind # "answer" /\ Joined(pending)
<1>1. Handle(i) => connected' = connected /\ wire[i] \in Messages
  BY Handling
<1>2. CASE onFileTagged(i)
  BY <1>1, <1>2, JoinedByNone DEF onFileTagged
<1>3. CASE onIndexUpdated(i)
  <2>1. Handle(i) /\ wire[i].kind = "indexUpdated"
    BY <1>3 DEF onIndexUpdated
  <2>2. UNCHANGED client \/ Load(pending, SearchCall(searchChips, showHidden))
    BY <1>3 DEF onIndexUpdated
  <2>3. SearchCall(searchChips, showHidden) \in CallStates
    BY SearchCalls DEF BrowserInv, Window, Shown
  <2> QED BY <1>1, <2>1, <2>2, <2>3, JoinedByNone, JoinedByLoad, Alongside DEF BrowserInv
<1>4. CASE onShowWindow(i)
  <2> DEFINE e == ListDir(wire[i].dir)
  <2>1. Handle(i) /\ wire[i].kind = "showWindow" /\ Load(pending, e)
    BY <1>4 DEF onShowWindow
  <2>2. e \in CallStates
    BY <1>1, <2>1, ListingIs DEF Messages, BrowserInv, Window, Shown
  <2> HIDE DEF e
  <2> QED BY <1>1, <2>1, <2>2, JoinedByLoad, Alongside DEF BrowserInv
<1> QED BY <1>2, <1>3, <1>4

\* The wire is as it was, or an event is added to it.
LEMMA DueByJoining ==
  ASSUME BrowserInv, CallbackDue, Joined(pending), wire' = wire
  PROVE  CallbackDue' /\ StaysRegistered
<1>1. \A id \in DOMAIN pending' : pending'[id].sent => id \in asked' \/ OnItsWay(id)
  BY DEF Joined, CallbackDue
<1>2. \A id : OnItsWay(id)' <=> OnItsWay(id)
  BY DEF OnItsWay
<1>3. wire' # <<>> \/ asked' # {} => connected'
  BY DEF Joined, CallbackDue, BrowserInv, Window, Stored
<1>4. \A i \in DOMAIN wire : wire[i].kind = "answer" => wire[i].id \in DOMAIN pending'
  BY DEF Joined, CallbackDue
<1>5. CallbackDue'
  BY <1>1, <1>2, <1>3, <1>4 DEF CallbackDue
<1> QED BY <1>5 DEF StaysRegistered, Joined

LEMMA DueByEvent ==
  ASSUME BrowserInv, CallbackDue, NEW m \in Messages, m.kind # "answer", Event(m)
  PROVE  CallbackDue' /\ StaysRegistered
<1>1. UNCHANGED client /\ connected' = connected
  BY DEF Event, link
<1>2. CASE ~connected
  BY <1>1, <1>2, JoinedByNone, DueByJoining DEF Event
<1>3. CASE connected
  <2>1. /\ DOMAIN wire' = DOMAIN wire \cup {Len(wire) + 1}
        /\ wire'[Len(wire) + 1] = m /\ \A i \in DOMAIN wire : wire'[i] = wire[i]
    BY <1>3, Sending DEF Event, BrowserInv
  <2>2. \A i \in DOMAIN wire' : wire'[i].kind = "answer" => i \in DOMAIN wire
    BY <2>1
  <2>3. \A id : OnItsWay(id) => OnItsWay(id)'
    BY <2>1 DEF OnItsWay
  <2>4. CallbackDue'
    BY <1>1, <1>3, <2>1, <2>2, <2>3 DEF CallbackDue, client
  <2> QED BY <1>1, <2>4 DEF StaysRegistered, client
<1> QED BY <1>2, <1>3

\* What the daemon answers.
LEMMA AnswerIs ==
  ASSUME BrowserInv, NEW id \in asked, Answer(id)
  PROVE  \E m \in Messages : m.kind = "answer" /\ m.id = id /\ wire' = Append(wire, m)
<1>1. id \in DOMAIN pending /\ pending[id] \in CallStates /\ id \in Nat
  BY DEF BrowserInv, Registered
<1>2. PICK ok \in BOOLEAN :
        wire' = Append(wire, [Message("answer") EXCEPT
                  !.id = id, !.ok = ok, !.call = pending[id],
                  !.entries = IF ok THEN Found(pending[id]) ELSE NoEntries])
  BY DEF Answer
<1> DEFINE m == [Message("answer") EXCEPT
                   !.id = id, !.ok = ok, !.call = pending[id],
                   !.entries = IF ok THEN Found(pending[id]) ELSE NoEntries]
<1>3. Found(pending[id]) \in Entries /\ NoEntries \in Entries
  BY <1>1, Finding, Nothing DEF BrowserInv, Window
<1>4. m \in Messages /\ m.kind = "answer" /\ m.id = id
  BY <1>1, <1>3, Messaging DEF Messages
<1> HIDE DEF m
<1> QED BY <1>2, <1>4 DEF m

LEMMA DueByAnswer ==
  ASSUME BrowserInv, CallbackDue, NEW id \in asked, Answer(id)
  PROVE  CallbackDue' /\ StaysRegistered
<1>1. /\ id \in DOMAIN pending /\ connected /\ connected' = connected /\ pending' = pending
      /\ asked' = asked \ {id}
  BY DEF BrowserInv, Registered, CallbackDue, Answer
<1>2. PICK m \in Messages : m.kind = "answer" /\ m.id = id /\ wire' = Append(wire, m)
  BY AnswerIs
<1>3. /\ DOMAIN wire' = DOMAIN wire \cup {Len(wire) + 1}
      /\ wire'[Len(wire) + 1] = m /\ \A i \in DOMAIN wire : wire'[i] = wire[i]
  BY <1>2, Sending DEF BrowserInv
<1>4. \A i \in DOMAIN wire : wire[i].kind = "answer" => wire[i].id # id
  BY DEF BrowserInv, OnWire
<1>5. ASSUME NEW k \in DOMAIN pending', pending'[k].sent PROVE k \in asked' \/ OnItsWay(k)'
  BY <1>1, <1>2, <1>3, <1>5 DEF OnItsWay, CallbackDue
<1>6. ASSUME NEW i \in DOMAIN wire', wire'[i].kind = "answer"
      PROVE  /\ wire'[i].id \in DOMAIN pending'
             /\ \A j \in DOMAIN wire' : wire'[j].kind = "answer" /\ wire'[j].id = wire'[i].id => i = j
  <2>1. CASE i \in DOMAIN wire
    BY <1>1, <1>2, <1>3, <1>4, <1>6, <2>1 DEF CallbackDue
  <2>2. CASE i = Len(wire) + 1
    BY <1>1, <1>2, <1>3, <1>4, <1>6, <2>2
  <2> QED BY <1>3, <1>6, <2>1, <2>2
<1>7. CallbackDue'
  BY <1>1, <1>5, <1>6 DEF CallbackDue
<1> QED BY <1>1, <1>7 DEF StaysRegistered

\* A message is handled, and what waits besides the call it answers waits on.
LEMMA DueByHandling ==
  ASSUME BrowserInv, CallbackDue, NEW i \in DOMAIN wire, Handle(i), NEW waiting,
         Joined(waiting), Beside(waiting),
         \A id \in DOMAIN pending \ DOMAIN waiting : wire[i].kind = "answer" /\ wire[i].id = id,
         wire[i].kind = "answer" => wire[i].id \notin DOMAIN waiting
  PROVE  CallbackDue' /\ StaysRegistered
<1>1. /\ wire' = RemoveAt(wire, i) /\ connected /\ connected' = connected /\ Len(wire) \in Nat
      /\ DOMAIN wire = 1 .. Len(wire)
  BY DEF Handle, link, BrowserInv, OnWire
<1>2. /\ DOMAIN wire' = 1 .. Len(wire) - 1
      /\ \A k \in DOMAIN wire' : wire'[k] = IF k < i THEN wire[k] ELSE wire[k + 1]
  BY <1>1, Removing DEF BrowserInv
<1> DEFINE old(k) == IF k < i THEN k ELSE k + 1
<1>3. \A k \in DOMAIN wire' : old(k) \in DOMAIN wire \ {i} /\ wire'[k] = wire[old(k)]
  BY <1>1, <1>2
<1>4. \A j, k \in DOMAIN wire' : old(j) = old(k) => j = k
  BY <1>1, <1>2
<1>5. \A j \in DOMAIN wire \ {i} : \E k \in DOMAIN wire' : old(k) = j
  <2> SUFFICES ASSUME NEW j \in DOMAIN wire \ {i} PROVE \E k \in DOMAIN wire' : old(k) = j
    OBVIOUS
  <2>1. CASE j < i
    BY <1>1, <1>2, <2>1
  <2>2. CASE j > i
    <3>1. j - 1 \in DOMAIN wire' /\ old(j - 1) = j
      BY <1>1, <1>2, <2>2
    <3> QED BY <3>1
  <2> QED BY <1>1, <2>1, <2>2
<1> HIDE DEF old
<1>6. ASSUME NEW id \in DOMAIN pending', pending'[id].sent PROVE id \in asked' \/ OnItsWay(id)'
  <2>1. CASE id \in DOMAIN waiting
    <3>1. pending[id].sent /\ id \in DOMAIN pending
      BY <1>6, <2>1 DEF Joined, Beside
    <3>2. CASE OnItsWay(id)
      <4>1. PICK j \in DOMAIN wire : wire[j].kind = "answer" /\ wire[j].id = id
        BY <3>2 DEF OnItsWay
      <4>2. j # i
        BY <2>1, <4>1
      <4> QED BY <1>3, <1>5, <4>1, <4>2 DEF OnItsWay
    <3> QED BY <3>1, <3>2 DEF CallbackDue, Joined
  <2> QED BY <1>6, <2>1 DEF Joined
<1>7. ASSUME NEW k \in DOMAIN wire', wire'[k].kind = "answer"
      PROVE  /\ wire'[k].id \in DOMAIN pending'
             /\ \A j \in DOMAIN wire' : wire'[j].kind = "answer" /\ wire'[j].id = wire'[k].id => k = j
  <2>1. wire[old(k)].kind = "answer" /\ wire[old(k)].id \in DOMAIN pending /\ old(k) # i
    BY <1>3, <1>7 DEF CallbackDue
  <2>2. wire[old(k)].id \in DOMAIN waiting
    BY <1>3, <1>7, <2>1 DEF CallbackDue
  <2> QED BY <1>3, <1>4, <1>7, <2>1, <2>2 DEF CallbackDue, Joined
<1>8. CallbackDue'
  BY <1>1, <1>6, <1>7 DEF CallbackDue
<1> QED BY <1>1, <1>8 DEF StaysRegistered, Joined, Beside

LEMMA DueByUser ==
  ASSUME BrowserInv, CallbackDue, User
  PROVE  CallbackDue' /\ StaysRegistered
BY JoinedByUser, DueByJoining

LEMMA DueByDaemon ==
  ASSUME BrowserInv, CallbackDue, Daemon
  PROVE  CallbackDue' /\ StaysRegistered
<1>1. ASSUME NEW f \in Files, NEW tags \in SUBSET Tags, ChangeTags(f, tags)
      PROVE  CallbackDue' /\ StaysRegistered
  <2> DEFINE m == [Message("fileTagged") EXCEPT !.file = f, !.added = tags \ tagsOf[f],
                                                !.removed = tagsOf[f] \ tags]
  <2>1. m \in Messages /\ m.kind = "fileTagged"
    BY Messaging DEF Messages, BrowserInv, Window, Stored
  <2>2. Event(m)
    BY <1>1 DEF ChangeTags
  <2> QED BY <2>1, <2>2, DueByEvent
<1>2. CASE UpdateIndex
  BY <1>2, Messaging, DueByEvent DEF UpdateIndex
<1>3. ASSUME NEW d \in Dirs, ShowWindow(d) PROVE CallbackDue' /\ StaysRegistered
  <2> DEFINE m == [Message("showWindow") EXCEPT !.dir = d]
  <2>1. m \in Messages /\ m.kind = "showWindow"
    BY Messaging DEF Messages
  <2>2. Event(m)
    BY <1>3 DEF ShowWindow
  <2> QED BY <2>1, <2>2, DueByEvent
<1> QED BY <1>1, <1>2, <1>3 DEF Daemon

LEMMA DueByDelivery ==
  ASSUME BrowserInv, CallbackDue, Deliver
  PROVE  CallbackDue' /\ StaysRegistered
<1>1. PICK i \in DOMAIN wire :
        \/ ListAnswered(i) \/ HydrateAnswered(i) \/ SearchAnswered(i) \/ GlobAnswered(i)
        \/ TrashAnswered(i) \/ MetaAnswered(i) \/ DeleteAnswered(i)
        \/ onFileTagged(i) \/ onIndexUpdated(i) \/ onShowWindow(i)
  BY DEF Deliver
<1>2. CASE onFileTagged(i) \/ onIndexUpdated(i) \/ onShowWindow(i)
  <2>1. Handle(i) /\ wire[i].kind # "answer" /\ Joined(pending)
    BY <1>2, JoinedByHandling
  <2> QED BY <2>1, Alongside, DueByHandling DEF BrowserInv
<1>3. CASE ~(onFileTagged(i) \/ onIndexUpdated(i) \/ onShowWindow(i))
  <2> DEFINE id == wire[i].id
  <2>1. Handle(i) /\ wire[i].kind = "answer" /\ Joined(Others(id))
    BY <1>1, <1>3, JoinedByDelivery
  <2>2. id \in DOMAIN pending \ asked
    BY <2>1 DEF CallbackDue, BrowserInv, OnWire
  <2>3. Beside(Others(id)) /\ DOMAIN Others(id) = DOMAIN pending \ {id}
    BY <2>2, Alongside DEF BrowserInv, Others
  <2> QED BY <2>1, <2>3, DueByHandling
<1> QED BY <1>2, <1>3

LEMMA DueStep == BrowserInv /\ CallbackDue /\ [Next]_vars => CallbackDue' /\ StaysRegistered
<1> SUFFICES ASSUME BrowserInv, CallbackDue, [Next]_vars PROVE CallbackDue' /\ StaysRegistered
  OBVIOUS
<1>1. CASE User
  BY <1>1, DueByUser
<1>2. CASE Daemon
  BY <1>2, DueByDaemon
<1>3. CASE Answers
  BY <1>3, DueByAnswer DEF Answers
<1>4. CASE Deliver
  BY <1>4, DueByDelivery
<1>5. CASE Disconnect
  <2>1. wire' = <<>> /\ asked' = {} /\ \A id \in DOMAIN pending' : pending'[id].sent = FALSE
    BY <1>5, Dropping
  <2>2. connected /\ ~connected'
    BY <1>5 DEF Disconnect
  <2> QED BY <2>1, <2>2 DEF CallbackDue, OnItsWay, StaysRegistered
<1>6. CASE Reconnect
  BY <1>6 DEF Reconnect, client, CallbackDue, OnItsWay, StaysRegistered
<1>7. CASE UNCHANGED vars
  BY <1>7 DEF vars, client, link, CallbackDue, OnItsWay, StaysRegistered
<1> QED BY <1>1, <1>2, <1>3, <1>4, <1>5, <1>6, <1>7 DEF Next

LEMMA DueBegins == Init => CallbackDue
BY DEF Init, CallbackDue, OnItsWay

\* No callback is forgotten (_call, _handleLine, onConnectionStateChanged): a
\* call that was sent is with the daemon or its one answer is on its way, with
\* the callback still registered for it; and only that answer or the loss of
\* the connection takes it away.
THEOREM NoCallbackLost == Spec => []CallbackDue /\ [][StaysRegistered]_vars
<1>1. Init => BrowserInv /\ CallbackDue
  BY BrowserBegins, DueBegins
<1>2. BrowserInv /\ CallbackDue /\ [Next]_vars => (BrowserInv /\ CallbackDue)' /\ [StaysRegistered]_vars
  BY BrowserStep, DueStep
<1> QED BY <1>1, <1>2, PTL DEF Spec
=============================================================================
