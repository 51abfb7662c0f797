---------------------------- MODULE RulesProofs ----------------------------
(***************************************************************************)
(* What the rule engine holds after reloads, whom it credits with a tag,   *)
(* what a sweep leaves, and what pins save, for any rules, priorities,     *)
(* files and pins and any number of jobs at once.                          *)
(***************************************************************************)
EXTENDS Rules, FiniteSetTheorems, WellFoundedInduction, TLAPS

-----------------------------------------------------------------------------
(***************************************************************************)
(* The engine's list                                                       *)
(***************************************************************************)

\* A set of naturals that is not empty has a least member.
LEMMA Least ==
  ASSUME NEW S, S \subseteq Nat, S # {}
  PROVE  \E m \in S : \A k \in S : m <= k
<1> DEFINE Below == {ss \in Nat \X Nat : ss[1] < ss[2]}
<1>1. IsWellFoundedOn(Below, Nat)
  BY NatLessThanWellFounded DEF OpToRel
<1> HIDE DEF Below
<1>2. PICK m \in S : \A k \in S : <<k, m>> \notin Below
  BY <1>1, WFMin
<1>3. \A k \in S : ~(k < m)
  BY <1>2 DEF Below
<1> QED BY <1>3

\* Max of a set of positions is one of them, and none is larger.
LEMMA Largest ==
  ASSUME NEW n \in Nat, NEW S, S \subseteq 1 .. n, S # {}
  PROVE  Max(S) \in S /\ \A k \in S : k <= Max(S)
<1> DEFINE T == {n - k : k \in S}
<1>1. T \subseteq Nat /\ T # {}
  <2>1. \A k \in S : n - k \in Nat
    OBVIOUS
  <2>2. PICK x \in S : TRUE
    OBVIOUS
  <2>3. n - x \in T
    BY <2>2
  <2> QED BY <2>1, <2>3
<1>2. PICK m \in T : \A k \in T : m <= k
  BY <1>1, Least
<1>3. PICK x \in S : m = n - x
  OBVIOUS
<1>4. ASSUME NEW k \in S PROVE k <= x
  <2>1. n - k \in T
    OBVIOUS
  <2>2. n - x <= n - k
    BY <2>1, <1>2, <1>3
  <2> QED BY <2>2
<1>5. x \in S /\ \A y \in S : x >= y
  BY <1>4
<1>6. Max(S) \in S /\ \A y \in S : Max(S) >= y
  BY <1>5 DEF Max
<1> QED BY <1>6

\* Positions that hold with every earlier one are the first few.
LEMMA FirstFew ==
  ASSUME NEW n \in Nat, NEW D, D \subseteq 1 .. n,
         \A k \in D : \A i \in 1 .. k : i \in D
  PROVE  Cardinality(D) \in 0 .. n /\ D = 1 .. Cardinality(D)
<1>1. CASE D = {}
  BY <1>1, FS_EmptySet
<1>2. CASE D # {}
  <2> DEFINE m == Max(D)
  <2>1. m \in D /\ \A k \in D : k <= m
    BY <1>2, Largest
  <2> HIDE DEF m
  <2>2. D = 1 .. m /\ m \in 1 .. n
    <3>1. m \in 1 .. n
      BY <2>1
    <3>2. \A k \in D : k \in 1 .. m
      BY <2>1, <3>1
    <3> QED BY <2>1, <3>1, <3>2
  <2>3. Cardinality(1 .. m) = m
    BY <2>2, FS_Interval
  <2> QED BY <2>2, <2>3
<1> QED BY <1>1, <1>2

\* Register keeps the order by priority, adds the rule and drops none.
LEMMA Registering ==
  ASSUME NEW rules \in Seq(Rules), NEW r \in Rules, Ascending(rules)
  PROVE  /\ Registered(rules, r) \in Seq(Rules)
         /\ Ascending(Registered(rules, r))
         /\ ToSet(Registered(rules, r)) = ToSet(rules) \cup {r}
<1> DEFINE D == {i \in DOMAIN rules : Priority[rules[i]] <= Priority[r]}
           n == Len(rules)
           new == Registered(rules, r)
<1>1. n \in Nat /\ DOMAIN rules = 1 .. n /\ \A i \in 1 .. n : rules[i] \in Rules
  OBVIOUS
<1>2. \A s \in Rules : Priority[s] \in Int
  BY RulesAssumption
<1>3. ASSUME NEW k \in D, NEW i \in 1 .. k PROVE i \in D
  <2>1. k \in 1 .. n /\ i \in 1 .. n /\ i <= k /\ Priority[rules[k]] <= Priority[r]
    BY <1>1
  <2>2. Priority[rules[i]] <= Priority[rules[k]]
    BY <1>1, <2>1 DEF Ascending
  <2> QED BY <1>1, <1>2, <2>1, <2>2
<1>4. PICK c \in 0 .. n : c = Cardinality(D) /\ D = 1 .. c
  <2>1. D \subseteq 1 .. n
    BY <1>1
  <2> HIDE DEF D
  <2> QED BY <1>1, <1>3, <2>1, FirstFew
<1> DEFINE before == SubSeq(rules, 1, c)
           after == SubSeq(rules, c + 1, n)
<1>5. new = (before \o <<r>>) \o after
  <2>1. new = InsertAt(rules, c + 1, r)
    BY <1>4 DEF Registered
  <2>2. (c + 1) - 1 = c
    OBVIOUS
  <2> QED BY <2>1, <2>2 DEF InsertAt
<1> HIDE DEF D, new
<1>6. /\ before \in Seq(Rules) /\ Len(before) = c
      /\ \A i \in 1 .. c : before[i] = rules[i]
  BY <1>1, <1>4
<1>7. /\ after \in Seq(Rules) /\ Len(after) = n - c
      /\ \A i \in 1 .. (n - c) : after[i] = rules[c + i]
  BY <1>1, <1>4
<1> HIDE DEF before, after
<1>8. new \in Seq(Rules) /\ Len(new) = n + 1
  <2>1. before \o <<r>> \in Seq(Rules) /\ Len(before \o <<r>>) = c + 1
    BY <1>6
  <2> HIDE DEF before, after
  <2> DEFINE head == before \o <<r>>
  <2> HIDE DEF head
  <2>2. Len(head \o after) = n + 1 /\ head \o after \in Seq(Rules)
    BY <2>1, <1>1, <1>7 DEF head
  <2> QED BY <2>2, <1>5 DEF head
<1>9. ASSUME NEW i \in 1 .. n + 1
      PROVE  new[i] = IF i <= c THEN rules[i] ELSE IF i = c + 1 THEN r ELSE rules[i - 1]
  <2> DEFINE head == before \o <<r>>
  <2>1. /\ head \in Seq(Rules) /\ Len(head) = c + 1
        /\ \A k \in 1 .. c + 1 : head[k] = IF k <= c THEN rules[k] ELSE r
    BY <1>6
  <2>2. new = head \o after
    BY <1>5
  <2> HIDE DEF head
  <2>3. CASE i <= c + 1
    BY <2>1, <2>2, <2>3, <1>1, <1>7
  <2>4. CASE i > c + 1
    <3>1. i - (c + 1) \in 1 .. (n - c) /\ c + (i - (c + 1)) = i - 1
      BY <2>4, <1>1
    <3>2. new[i] = after[i - (c + 1)]
      BY <2>1, <2>2, <2>4, <3>1, <1>1, <1>7
    <3>3. after[i - (c + 1)] = rules[i - 1]
      BY <3>1, <1>7
    <3> QED BY <2>4, <3>2, <3>3
  <2> QED BY <2>3, <2>4, <1>1
<1>10. Ascending(new)
  <2> SUFFICES ASSUME NEW i \in 1 .. n + 1, NEW k \in 1 .. n + 1, i <= k
               PROVE  Priority[new[i]] <= Priority[new[k]]
    BY <1>8 DEF Ascending
  <2>1. \A h \in 1 .. n : h <= c <=> Priority[rules[h]] <= Priority[r]
    BY <1>1, <1>4 DEF D
  <2>2. \A g, h \in 1 .. n : g <= h => Priority[rules[g]] <= Priority[rules[h]]
    BY <1>1 DEF Ascending
  <2>3. \A h \in 1 .. n : Priority[rules[h]] \in Int
    BY <1>1, <1>2
  <2>4. Priority[r] \in Int
    BY <1>2
  <2> DEFINE at(h) == IF h <= c THEN rules[h] ELSE IF h = c + 1 THEN r ELSE rules[h - 1]
  <2>5. new[i] = at(i) /\ new[k] = at(k)
    BY <1>9
  <2>6. CASE k <= c
    BY <2>2, <2>5, <2>6, <1>1
  <2>7. CASE k = c + 1
    BY <2>1, <2>4, <2>5, <2>7, <1>1
  <2>8. CASE k > c + 1 /\ i <= c
    BY <2>2, <2>5, <2>8, <1>1
  <2>9. CASE k > c + 1 /\ i = c + 1
    <3>1. k - 1 \in 1 .. n /\ ~(k - 1 <= c)
      BY <2>9, <1>1
    <3>2. ~(Priority[rules[k - 1]] <= Priority[r])
      BY <3>1, <2>1
    <3>3. Priority[rules[k - 1]] \in Int
      BY <3>1, <2>3
    <3> QED BY <2>4, <2>5, <2>9, <3>2, <3>3
  <2>10. CASE k > c + 1 /\ i > c + 1
    <3>1. i - 1 \in 1 .. n /\ k - 1 \in 1 .. n /\ i - 1 <= k - 1
      BY <2>10, <1>1
    <3> QED BY <2>2, <2>5, <2>10, <3>1
  <2> QED BY <2>6, <2>7, <2>8, <2>9, <2>10, <1>1
<1>11. ToSet(new) = ToSet(rules) \cup {r}
  <2>1. ASSUME NEW i \in 1 .. n + 1 PROVE new[i] \in ToSet(rules) \cup {r}
    BY <1>1, <1>9 DEF ToSet
  <2>2. ASSUME NEW i \in 1 .. n PROVE \E k \in 1 .. n + 1 : new[k] = rules[i]
    <3>1. CASE i <= c
      BY <3>1, <1>9
    <3>2. CASE i > c
      <4>1. i + 1 \in 1 .. n + 1 /\ new[i + 1] = rules[i]
        BY <3>2, <1>9
      <4> QED BY <4>1
    <3> QED BY <3>1, <3>2
  <2>3. \E k \in 1 .. n + 1 : new[k] = r
    BY <1>9
  <2>4. DOMAIN new = 1 .. n + 1 /\ DOMAIN rules = 1 .. n
    BY <1>1, <1>8
  <2> QED BY <2>1, <2>2, <2>3, <2>4 DEF ToSet
<1> QED BY <1>8, <1>10, <1>11 DEF new

\* A sequence of all the elements of a set has them all.
LEMMA AllInOrder ==
  ASSUME NEW S, IsFiniteSet(S), NEW order \in SetToSeqs(S)
  PROVE  order \in Seq(S) /\ ToSet(order) = S
<1> DEFINE D == 1 .. Cardinality(S)
<1>1. Cardinality(S) \in Nat
  BY FS_CardinalityType
<1>2. order \in [D -> S] /\ \A i, k \in D : i # k => order[i] # order[k]
  BY DEF SetToSeqs
<1>3. IsFiniteSet(D) /\ Cardinality(D) = Cardinality(S)
  BY <1>1, FS_Interval
<1>4. order \in Seq(S)
  BY <1>1, <1>2
<1> HIDE DEF D
<1>5. order \in Injection(D, S)
  BY <1>2 DEF Injection, IsInjective
<1>6. order \in Surjection(D, S)
  BY <1>3, <1>5, FS_Injection
<1>7. ToSet(order) = S
  BY <1>2, <1>6 DEF Surjection, ToSet
<1> QED BY <1>4, <1>7

\* registerDefs, one definition at a time.
LEMMA UsableRest ==
  ASSUME NEW list \in Seq(Rules), list # << >>
  PROVE  /\ Head(list) \in Rules /\ Tail(list) \in Seq(Rules)
         /\ Head(list) \in Broken => Usable(list) = {}
         /\ Head(list) \notin Broken =>
              Usable(list) = {r \in {Head(list)} : Tagged(r)} \cup Usable(Tail(list))
<1> DEFINE n == Len(list)
           rest == Tail(list)
<1>1. /\ n \in Nat \ {0} /\ DOMAIN list = 1 .. n /\ \A i \in 1 .. n : list[i] \in Rules
      /\ Head(list) = list[1]
  OBVIOUS
<1>2. /\ rest \in Seq(Rules) /\ DOMAIN rest = 1 .. n - 1
      /\ \A i \in 1 .. n - 1 : rest[i] = list[i + 1]
  OBVIOUS
<1> HIDE DEF n, rest
<1>3. ASSUME Head(list) \in Broken PROVE Usable(list) = {}
  <2>1. \A k \in DOMAIN list : 1 \in 1 .. k
    BY <1>1
  <2> QED BY <1>1, <1>3, <2>1 DEF Usable
<1>4. ASSUME Head(list) \notin Broken
      PROVE  Usable(list) = {r \in {Head(list)} : Tagged(r)} \cup Usable(rest)
  <2>1. ASSUME NEW r \in Usable(list), r # list[1] PROVE r \in Usable(rest)
    <3>1. PICK k \in 1 .. n : /\ r = list[k] /\ Tagged(list[k])
                            /\ \A h \in 1 .. k : list[h] \notin Broken
      BY <1>1 DEF Usable
    <3>2. k - 1 \in 1 .. n - 1 /\ rest[k - 1] = list[k]
      <4>1. k # 1
        BY <2>1, <3>1
      <4>2. k - 1 \in 1 .. n - 1 /\ (k - 1) + 1 = k
        BY <4>1, <1>1
      <4> QED BY <4>2, <1>2
    <3>3. ASSUME NEW h \in 1 .. k - 1 PROVE rest[h] \notin Broken
      <4>1. h \in 1 .. n - 1 /\ h + 1 \in 1 .. k
        BY <1>1
      <4> QED BY <1>2, <3>1, <4>1
    <3> QED BY <1>2, <3>1, <3>2, <3>3 DEF Usable
  <2>2. ASSUME NEW r \in Usable(list), r = list[1] PROVE Tagged(r)
    BY <2>2 DEF Usable
  <2>3. ASSUME Tagged(list[1]) PROVE list[1] \in Usable(list)
    <3>1. 1 \in DOMAIN list /\ \A h \in 1 .. 1 : list[h] \notin Broken
      BY <1>1, <1>4
    <3> QED BY <2>3, <3>1 DEF Usable
  <2>4. ASSUME NEW r \in Usable(rest) PROVE r \in Usable(list)
    <3>1. PICK k \in 1 .. n - 1 : /\ r = rest[k] /\ Tagged(rest[k])
                                /\ \A h \in 1 .. k : rest[h] \notin Broken
      BY <1>2 DEF Usable
    <3>2. k + 1 \in DOMAIN list /\ list[k + 1] = r
      BY <1>1, <1>2, <3>1
    <3>3. ASSUME NEW h \in 1 .. k + 1 PROVE list[h] \notin Broken
      <4>1. CASE h = 1
        BY <1>1, <1>4, <4>1
      <4>2. CASE h # 1
        <5>1. h - 1 \in 1 .. k /\ h - 1 \in 1 .. n - 1 /\ (h - 1) + 1 = h
          BY <4>2, <1>1
        <5>2. rest[h - 1] = list[h]
          BY <1>2, <5>1
        <5> QED BY <3>1, <5>1, <5>2
      <4> QED BY <4>1, <4>2
    <3> QED BY <3>1, <3>2, <3>3 DEF Usable
  <2> QED BY <1>1, <2>1, <2>2, <2>3, <2>4
<1> QED BY <1>1, <1>2, <1>3, <1>4 DEF rest

LEMMA NothingUsable == Usable(<< >>) = {}
  BY DEF Usable

\* What Eval credits with a tag has fired, and no rule that gave the tag too
\* is of a higher priority.
LEMMA Attribution ==
  ASSUME NEW rules \in Seq(Rules), Ascending(rules), NEW has, NEW failing
  PROVE  LET source == Sources(rules, has, failing) IN
         /\ source \in Attributions
         /\ \A t : t \in DOMAIN source <=>
              t \notin has /\ \E r \in ToSet(rules) \ failing : t \in Gives[r]
         /\ \A t \in DOMAIN source, r \in ToSet(rules) \ failing :
              t \in Gives[r] => Priority[r] <= Priority[source[t]]
<1> DEFINE firing == {i \in DOMAIN rules : rules[i] \notin failing}
           added == (UNION {Gives[rules[i]] : i \in firing}) \ has
           giving(t) == {i \in firing : t \in Gives[rules[i]]}
           source == Sources(rules, has, failing)
<1>1. DOMAIN rules = 1 .. Len(rules) /\ \A i \in DOMAIN rules : rules[i] \in Rules
  OBVIOUS
<1>2. source = [t \in added |-> rules[Max(giving(t))]]
  BY DEF Sources
<1>3. \A t : t \in added <=> t \notin has /\ \E r \in ToSet(rules) \ failing : t \in Gives[r]
  <2>1. \A r : r \in ToSet(rules) \ failing <=> \E i \in firing : r = rules[i]
    BY DEF ToSet
  <2> HIDE DEF firing
  <2>2. \A t : t \in added <=> t \notin has /\ \E i \in firing : t \in Gives[rules[i]]
    OBVIOUS
  <2> HIDE DEF added
  <2> QED BY <2>1, <2>2
<1>4. added \subseteq Tags
  BY <1>1, RulesAssumption
<1>5. ASSUME NEW t \in added
      PROVE  Max(giving(t)) \in giving(t) /\ \A i \in giving(t) : i <= Max(giving(t))
  <2>1. giving(t) \subseteq 1 .. Len(rules) /\ giving(t) # {} /\ Len(rules) \in Nat
    BY <1>1
  <2> HIDE DEF giving
  <2> QED BY <2>1, Largest
<1>6. source \in [added -> Rules]
  <2>1. ASSUME NEW t \in added PROVE rules[Max(giving(t))] \in Rules
    BY <1>1, <1>5
  <2> HIDE DEF source, giving, added
  <2> QED BY <1>2, <2>1
<1>7. ASSUME NEW t \in added, NEW r \in ToSet(rules) \ failing, t \in Gives[r]
      PROVE  Priority[r] <= Priority[source[t]]
  <2>1. PICK i \in DOMAIN rules : r = rules[i]
    BY DEF ToSet
  <2>2. i \in giving(t)
    BY <1>7, <2>1
  <2>3. i <= Max(giving(t)) /\ Max(giving(t)) \in DOMAIN rules
    BY <1>5, <2>2
  <2>4. source[t] = rules[Max(giving(t))]
    BY <1>2
  <2> HIDE DEF giving, source
  <2> QED BY <2>1, <2>3, <2>4 DEF Ascending
<1>8. source \in Attributions /\ DOMAIN source = added
  BY <1>4, <1>6 DEF Attributions
<1> QED BY <1>3, <1>7, <1>8

-----------------------------------------------------------------------------
(***************************************************************************)
(* The invariants                                                          *)
(***************************************************************************)

\* What a job will still register of the rules on disk, when the disk stays
\* as it is.
Remaining(j, r) ==
  \/ job[j].at = "list"
  \/ job[j].at = "files" /\ (r \in ToSet(job[j].rules) \/ r \in Usable(OnDisk.inline))
  \/ job[j].at = "inline" /\ r \in Usable(job[j].rules)

UnderWay == \E j \in Jobs : Loading(j)

\* Jobs that load the rules register none that is not on disk, ...
NothingElse ==
  UnderWay /\ ~disturbed =>
    /\ ToSet(engine) \subseteq Expected(OnDisk)
    /\ \A j \in Jobs : job[j].at = "inline" =>
         Usable(job[j].rules) \subseteq Expected(OnDisk)

\* ... and of those on disk that the engine lacks one job, the last to reset
\* it, will register every one.
Everything ==
  UnderWay /\ ~disturbed =>
    \/ Expected(OnDisk) \subseteq ToSet(engine)
    \/ \E j \in Jobs : \A r \in Expected(OnDisk) : r \in ToSet(engine) \/ Remaining(j, r)

EngineCore ==
  /\ loaded # Unknown => ~UnderWay
  /\ NothingElse /\ Everything
  /\ RulesAfterReload

EngineInv == TypeOK /\ Ascending(engine) /\ EngineCore

\* What a job read of a file's tags is still there, or the user removed it.
ReadStill ==
  ~raced => \A j \in Jobs : job[j].at \in {"eval", "write"} =>
    \A t \in job[j].was : t \in tags[job[j].path] \/ <<job[j].path, t>> \in removed

\* A job that will still give a file a tag of the rules loaded last.
Owes(j, p, t) ==
  \/ job[j].at \in {"sweep", "eval", "write"} /\ p \in job[j].paths
  \/ job[j].at = "eval" /\ job[j].path = p
  \/ job[j].at = "write" /\ job[j].path = p /\ t \in DOMAIN job[j].source

Owed ==
  loaded # Unknown /\ ~raced =>
    \A p \in Paths : \A r \in Certain : \A t \in Gives[r] :
      t \in tags[p] \/ <<p, t>> \in removed \/ \E j \in Jobs : Owes(j, p, t)

TagInv == HighestIsSource /\ ReadStill /\ Owed

\* Pins one at a time: what the request under way has read and will write.
PinInv ==
  ~crossed =>
    /\ \A j, k \in Jobs : Pinning(j) /\ Pinning(k) => j = k
    /\ cfg.pins = asked
    /\ (\A j \in Jobs : ~Pinning(j)) => config # Garbled /\ config.pins = asked
    /\ \A j \in Jobs :
         /\ job[j].at = "append" => job[j].copy.pins = asked
         /\ job[j].at = "save" => config = Empty /\ job[j].copy.pins = asked

-----------------------------------------------------------------------------
(***************************************************************************)
(* Types                                                                   *)
(***************************************************************************)

LEMMA NoneGiven == << >> \in Attributions
<1>1. << >> \in Seq(Rules) /\ Len(<< >>) = 0
  OBVIOUS
<1>2. << >> \in [{} -> Rules]
  BY <1>1
<1> QED BY <1>2 DEF Attributions

\* A configuration without pins or without rules is one; none is garbled.
LEMMA ConfigTypes ==
  /\ Empty \in Configs /\ Garbled \notin Configs
  /\ \A c \in Configs : c.inline \in Seq(Rules) /\ c.pins \subseteq Pins
<1>1. Empty \in Configs
  BY RulesAssumption DEF Empty, Configs
<1>2. ASSUME Garbled \in Configs PROVE FALSE
  <2>1. <<"garbled">> \in InlineLists
    BY <1>2 DEF Garbled, Configs
  <2>2. <<"garbled">> \in Seq(Rules)
    BY <2>1, RulesAssumption
  <2>3. <<"garbled">>[1] \in Rules
    BY <2>2
  <2> QED BY <2>3, RulesAssumption
<1>3. \A c \in Configs : c.inline \in Seq(Rules) /\ c.pins \subseteq Pins
  BY RulesAssumption DEF Configs
<1> QED BY <1>1, <1>2, <1>3

LEMMA ExpectedRules ==
  ASSUME NEW l \in [files : SUBSET FileRules, inline : InlineLists]
  PROVE  Expected(l) \subseteq Rules
<1>1. l.inline \in Seq(Rules) /\ l.files \subseteq Rules
  BY RulesAssumption
<1>2. Usable(l.inline) \subseteq Rules
  BY <1>1 DEF Usable
<1> QED BY <1>1, <1>2 DEF Expected

LEMMA Start ==
  ASSUME Init
  PROVE  TypeOK /\ ToSet(engine) = Expected(loaded) /\ Ascending(engine)
<1>1. loaded \in [files : SUBSET FileRules, inline : InlineLists]
  BY DEF Init, Configs
<1>2. Expected(loaded) \subseteq Rules /\ IsFiniteSet(Expected(loaded))
  BY <1>1, ExpectedRules, RulesAssumption, FS_Subset
<1>3. engine \in Seq(Rules) /\ ToSet(engine) = Expected(loaded) /\ Ascending(engine)
  <2>1. engine \in SetToSeqs(Expected(loaded)) /\ Ascending(engine)
    BY DEF Init
  <2>2. engine \in Seq(Expected(loaded)) /\ ToSet(engine) = Expected(loaded)
    BY <1>2, <2>1, AllInOrder
  <2> QED BY <1>2, <2>1, <2>2
<1>4. Blank \in JobStates
  BY NoneGiven, ConfigTypes DEF Blank, JobStates, AllKinds, Phases
<1>5. tags \in [Paths -> SUBSET Tags]
  <2>1. \A r \in ToSet(engine) : Gives[r] \subseteq Tags
    BY <1>2, <1>3, RulesAssumption
  <2> QED BY <2>1 DEF Init
<1>6. Blank.at = "new"
  BY DEF Blank
<1>7. TypeOK
  <2>1. job \in [Jobs -> JobStates] /\ \A j \in Jobs : job[j].at = "new"
    BY <1>4, <1>6 DEF Init
  <2>2. ruleFiles \subseteq FileRules /\ config \in Configs /\ cfg \in Configs /\ edits \in 0 .. MaxEdits
    BY JobsAssumption DEF Init
  <2> QED BY <1>1, <1>3, <1>5, <2>1, <2>2 DEF Init, TypeOK
<1> QED BY <1>3, <1>7

\* What the actions make of a job.
LEMMA Moves ==
  ASSUME NEW b \in JobStates
  PROVE  /\ \A kind \in AllKinds : [b EXCEPT !.kind = kind, !.at = "list"] \in JobStates
         /\ \A rules \in Seq(Rules) :
              /\ [b EXCEPT !.at = "files", !.rules = rules] \in JobStates
              /\ [b EXCEPT !.at = "inline", !.rules = rules] \in JobStates
              /\ [b EXCEPT !.rules = rules] \in JobStates
         /\ \A paths \in SUBSET Paths : [b EXCEPT !.at = "sweep", !.paths = paths] \in JobStates
         /\ [b EXCEPT !.at = "done"] \in JobStates /\ [b EXCEPT !.at = "truncate"] \in JobStates
         /\ \A p \in Paths, was \in SUBSET Tags :
              [b EXCEPT !.at = "eval", !.path = p, !.paths = @ \ {p}, !.was = was] \in JobStates
         /\ \A at \in Phases, source \in Attributions, fired \in SUBSET Rules :
              [b EXCEPT !.at = at, !.source = source, !.fired = fired] \in JobStates
         /\ \A kind \in AllKinds, x \in Pins, copy \in Configs :
              [b EXCEPT !.kind = kind, !.at = "append", !.pin = x, !.copy = copy] \in JobStates
         /\ \A at \in Phases, copy \in Configs : [b EXCEPT !.at = at, !.copy = copy] \in JobStates
  BY DEF JobStates, Phases

LEMMA TypeStep ==
  ASSUME TypeOK, Ascending(engine), [Next]_vars
  PROVE  TypeOK' /\ Ascending(engine)'
<1> USE DEF TypeOK, Ascending
<1>0. \A j \in Jobs : job[j] \in JobStates
  OBVIOUS
<1>1. CASE UNCHANGED vars
  BY <1>1 DEF vars
<1>2. CASE EditRules
  BY <1>2, JobsAssumption DEF EditRules, Edit, Disturbs
<1>3. CASE EditConfig
  <2>1. config' \in Configs
    BY <1>3 DEF EditConfig, Configs
  <2> QED BY <1>3, <2>1, JobsAssumption DEF EditConfig, Edit, Disturbs
<1>4. ASSUME NEW p \in Paths, NEW t \in Tags, RemoveTag(p, t) PROVE TypeOK' /\ Ascending(engine)'
  BY <1>4, JobsAssumption DEF RemoveTag, Edit, disk
<1>5. ASSUME NEW j \in Jobs, NEW kind \in {"hup", "reload"}, StartReload(j, kind)
      PROVE  TypeOK' /\ Ascending(engine)'
  <2>1. job' \in [Jobs -> JobStates]
    <3>1. [job[j] EXCEPT !.kind = kind, !.at = "list"] \in JobStates
      BY <1>0, Moves DEF AllKinds
    <3> QED BY <3>1, <1>5 DEF StartReload
  <2> QED BY <1>5, <2>1 DEF StartReload, disk, Cleared
<1>6. ASSUME NEW j \in Jobs, ListRules(j) PROVE TypeOK' /\ Ascending(engine)'
  <2>1. PICK order \in SetToSeqs(ruleFiles) :
          job' = [job EXCEPT ![j].at = "files", ![j].rules = order]
    BY <1>6 DEF ListRules
  <2>2. order \in Seq(ruleFiles) /\ ruleFiles \subseteq Rules
    BY <2>1, AllInOrder, FS_Subset, RulesAssumption
  <2>3. order \in Seq(Rules)
    BY <2>2
  <2>4. job' \in [Jobs -> JobStates]
    <3>1. [job[j] EXCEPT !.at = "files", !.rules = order] \in JobStates
      BY <1>0, Moves, <2>3
    <3> QED BY <3>1, <2>1
  <2> QED BY <1>6, <2>1, <2>4 DEF ListRules, disk, history
<1>7. ASSUME NEW j \in Jobs, LoadFile(j) PROVE TypeOK' /\ Ascending(engine)'
  <2>1. job[j].rules \in Seq(Rules) /\ job[j].rules # << >>
    BY <1>7 DEF LoadFile, JobStates
  <2>2. Head(job[j].rules) \in Rules /\ Tail(job[j].rules) \in Seq(Rules)
    BY <2>1
  <2>3. engine' \in Seq(Rules) /\ Ascending(engine)'
    BY <1>7, <2>2, Registering DEF LoadFile
  <2>4. job' \in [Jobs -> JobStates]
    <3>1. [job[j] EXCEPT !.rules = Tail(@)] \in JobStates
      BY <1>0, Moves, <2>2
    <3> QED BY <3>1, <1>7 DEF LoadFile
  <2> QED BY <1>7, <2>3, <2>4 DEF LoadFile, disk, history
<1>8. ASSUME NEW j \in Jobs, LoadConfig(j) PROVE TypeOK' /\ Ascending(engine)'
  <2> DEFINE list == IF config = Garbled THEN << >> ELSE config.inline
  <2>1. list \in Seq(Rules)
    BY ConfigTypes
  <2>2. job' = [job EXCEPT ![j].at = "inline", ![j].rules = list]
    BY <1>8 DEF LoadConfig
  <2> HIDE DEF list
  <2>3. job' \in [Jobs -> JobStates]
    <3>1. [job[j] EXCEPT !.at = "inline", !.rules = list] \in JobStates
      BY <1>0, Moves, <2>1
    <3> QED BY <3>1, <2>2
  <2> QED BY <1>8, <2>2, <2>3 DEF LoadConfig, disk, history
<1>9. ASSUME NEW j \in Jobs, LoadInline(j) PROVE TypeOK' /\ Ascending(engine)'
  <2>1. job[j].rules \in Seq(Rules) /\ job[j].rules # << >>
    BY <1>9 DEF LoadInline, JobStates
  <2>2. Head(job[j].rules) \in Rules /\ Tail(job[j].rules) \in Seq(Rules)
    BY <2>1
  <2>3. engine' \in Seq(Rules) /\ Ascending(engine)'
    BY <1>9, <2>2, Registering DEF LoadInline
  <2>4. job' \in [Jobs -> JobStates]
    <3> DEFINE rest == IF Head(job[j].rules) \in Broken THEN << >> ELSE Tail(job[j].rules)
    <3>1. rest \in Seq(Rules)
      BY <2>2
    <3>2. job' = [job EXCEPT ![j].rules = rest]
      BY <1>9 DEF LoadInline
    <3> HIDE DEF rest
    <3>3. [job[j] EXCEPT !.rules = rest] \in JobStates
      BY <1>0, Moves, <3>1
    <3> QED BY <3>2, <3>3
  <2> QED BY <1>9, <2>3, <2>4 DEF LoadInline, disk, history
<1>10. ASSUME NEW j \in Jobs, StartSweep(j) PROVE TypeOK' /\ Ascending(engine)'
  <2>1. job' \in [Jobs -> JobStates]
    <3>1. [job[j] EXCEPT !.at = "sweep", !.paths = Paths] \in JobStates
      BY <1>0, Moves
    <3> QED BY <3>1, <1>10 DEF StartSweep
  <2>2. OnDisk \in [files : SUBSET FileRules, inline : InlineLists]
    BY RulesAssumption DEF OnDisk, Configs
  <2>3. loaded' \in [files : SUBSET FileRules, inline : InlineLists] \cup {Unknown}
    BY <1>10, <2>2 DEF StartSweep
  <2> QED BY <1>10, <2>1, <2>3 DEF StartSweep, disk
<1>11. ASSUME NEW j \in Jobs, NEW p \in Paths, StartEvent(j, p)
       PROVE  TypeOK' /\ Ascending(engine)'
  <2>1. job' \in [Jobs -> JobStates]
    <3>1. [job[j] EXCEPT !.at = "sweep", !.paths = {p}] \in JobStates
      BY <1>0, Moves
    <3> QED BY <3>1, <1>11 DEF StartEvent
  <2> QED BY <1>11, <2>1 DEF StartEvent, disk, history
<1>12. ASSUME NEW j \in Jobs, ReadFile(j) PROVE TypeOK' /\ Ascending(engine)'
  <2>0. UNCHANGED <<disk, engine, cfg, tags, edits, history>>
    BY <1>12 DEF ReadFile
  <2>1. CASE job' = [job EXCEPT ![j].at = "done"]
    <3>1. job' \in [Jobs -> JobStates]
      <4>1. [job[j] EXCEPT !.at = "done"] \in JobStates
        BY <1>0, Moves
      <4> QED BY <4>1, <2>1
    <3> QED BY <2>0, <2>1, <3>1 DEF disk, history
  <2>2. ASSUME NEW p \in job[j].paths,
               job' = [job EXCEPT ![j].at = "eval", ![j].path = p,
                                  ![j].paths = @ \ {p}, ![j].was = tags[p]]
        PROVE  TypeOK' /\ Ascending(engine)'
    <3>1. p \in Paths
      BY DEF JobStates
    <3>2. job' \in [Jobs -> JobStates]
      <4>1. [job[j] EXCEPT !.at = "eval", !.path = p, !.paths = @ \ {p}, !.was = tags[p]] \in JobStates
        BY <1>0, Moves, <3>1
      <4> QED BY <4>1, <2>2
    <3> QED BY <2>0, <2>2, <3>1, <3>2 DEF disk, history
  <2> QED BY <1>12, <2>1, <2>2 DEF ReadFile
<1>13. ASSUME NEW j \in Jobs, Evaluate(j) PROVE TypeOK' /\ Ascending(engine)'
  <2>1. PICK failing \in SUBSET Flaky :
          LET source == Sources(engine, job[j].was, failing) IN
          job' = [job EXCEPT ![j].at = IF DOMAIN source = {} THEN "sweep" ELSE "write",
                             ![j].source = source,
                             ![j].fired = ToSet(engine) \ failing]
    BY <1>13 DEF Evaluate
  <2> DEFINE source == Sources(engine, job[j].was, failing)
             at == IF DOMAIN source = {} THEN "sweep" ELSE "write"
             fired == ToSet(engine) \ failing
  <2>2. source \in Attributions
    BY Attribution
  <2>3. fired \in SUBSET Rules /\ at \in Phases
    BY DEF ToSet, Phases
  <2>4. job' = [job EXCEPT ![j].at = at, ![j].source = source, ![j].fired = fired]
    BY <2>1
  <2> HIDE DEF source, at, fired
  <2>5. job' \in [Jobs -> JobStates]
    <3>1. [job[j] EXCEPT !.at = at, !.source = source, !.fired = fired] \in JobStates
      BY <1>0, Moves, <2>2, <2>3
    <3> QED BY <3>1, <2>4
  <2>6. job[j].at = "eval" /\ at \in {"sweep", "write"}
    BY <1>13 DEF Evaluate, at
  <2> QED BY <1>13, <2>4, <2>5, <2>6 DEF Evaluate, disk, history
<1>14. ASSUME NEW j \in Jobs, WriteFile(j) PROVE TypeOK' /\ Ascending(engine)'
  <2>1. job' \in [Jobs -> JobStates]
    <3>1. [job[j] EXCEPT !.at = "sweep", !.source = << >>, !.fired = {}] \in JobStates
      BY <1>0, Moves, NoneGiven DEF Phases
    <3> QED BY <3>1, <1>14 DEF WriteFile
  <2>2. DOMAIN job[j].source \subseteq Tags /\ job[j].was \subseteq Tags
    BY DEF JobStates, Attributions
  <2>3. tags' \in [Paths -> SUBSET Tags]
    BY <1>14, <2>2 DEF WriteFile, NewTags
  <2> QED BY <1>14, <2>1, <2>3 DEF WriteFile, disk
<1>15. ASSUME NEW j \in Jobs, NEW kind \in {"pin", "unpin"}, NEW x \in Pins, StartPin(j, kind, x)
       PROVE  TypeOK' /\ Ascending(engine)'
  <2>1. job' \in [Jobs -> JobStates]
    <3>1. [job[j] EXCEPT !.kind = kind, !.at = "append", !.pin = x, !.copy = cfg] \in JobStates
      BY <1>0, Moves DEF AllKinds
    <3> QED BY <3>1, <1>15 DEF StartPin
  <2> QED BY <1>15, <2>1 DEF StartPin, disk
<1>16. ASSUME NEW j \in Jobs, ChangePins(j) PROVE TypeOK' /\ Ascending(engine)'
  <2>1. job' \in [Jobs -> JobStates]
    <3>1. [job[j] EXCEPT !.at = "truncate"] \in JobStates
      BY <1>0, Moves
    <3> QED BY <3>1, <1>16 DEF ChangePins
  <2>2. job[j].pin \in Pins /\ job[j].copy.pins \subseteq Pins
    BY <1>16, ConfigTypes DEF ChangePins, JobStates
  <2>3. cfg' \in Configs /\ asked' \subseteq Pins
    BY <1>16, <2>2 DEF ChangePins, Changed, Configs
  <2> QED BY <1>16, <2>1, <2>3 DEF ChangePins, disk
<1>17. ASSUME NEW j \in Jobs, TruncateConfig(j) PROVE TypeOK' /\ Ascending(engine)'
  <2>1. job' \in [Jobs -> JobStates]
    <3>1. [job[j] EXCEPT !.at = "save", !.copy = cfg] \in JobStates
      BY <1>0, Moves DEF Phases
    <3> QED BY <3>1, <1>17 DEF TruncateConfig, SavedConfig
  <2> QED BY <1>17, <2>1, ConfigTypes DEF TruncateConfig, Disturbs
<1>18. ASSUME NEW j \in Jobs, SaveConfig(j) PROVE TypeOK' /\ Ascending(engine)'
  <2>1. job' \in [Jobs -> JobStates]
    <3>1. [job[j] EXCEPT !.at = "done", !.copy = Empty] \in JobStates
      BY <1>0, Moves, ConfigTypes DEF Phases
    <3> QED BY <3>1, <1>18 DEF SaveConfig
  <2>2. job[j].copy \in Configs
    BY DEF JobStates
  <2> QED BY <1>18, <2>1, <2>2 DEF SaveConfig, Disturbs
<1> QED
  BY <1>1, <1>2, <1>3, <1>4, <1>5, <1>6, <1>7, <1>8, <1>9, <1>10, <1>11, <1>12, <1>13,
     <1>14, <1>15, <1>16, <1>17, <1>18 DEF Next, User

-----------------------------------------------------------------------------
(***************************************************************************)
(* Reloading                                                               *)
(***************************************************************************)

LEMMA StaysOnDisk ==
  ASSUME UNCHANGED disk
  PROVE  /\ OnDisk' = OnDisk /\ Expected(OnDisk)' = Expected(OnDisk)
         /\ Usable(OnDisk.inline)' = Usable(OnDisk.inline)
  BY DEF disk, OnDisk, Expected, Usable

LEMMA DiskTypes ==
  ASSUME TypeOK
  PROVE  /\ OnDisk \in [files : SUBSET FileRules, inline : InlineLists]
         /\ OnDisk.inline \in Seq(Rules) /\ OnDisk.files = ruleFiles
         /\ ruleFiles \subseteq Rules
  BY RulesAssumption DEF TypeOK, OnDisk, Configs

\* Steps that neither load rules nor change what is on disk.
LEMMA Elsewhere ==
  ASSUME EngineCore, UNCHANGED <<disk, engine, loaded, disturbed>>,
         \A k \in Jobs : Loading(k)' <=> Loading(k),
         \A k \in Jobs : Loading(k) => job'[k] = job[k]
  PROVE  EngineCore'
<1>1. UnderWay' <=> UnderWay
  BY DEF UnderWay
<1>2. OnDisk' = OnDisk /\ Expected(OnDisk)' = Expected(OnDisk)
  BY StaysOnDisk
<1>3. ToSet(engine)' = ToSet(engine)
  OBVIOUS
<1>4. NothingElse'
  <2> SUFFICES ASSUME UnderWay', ~disturbed' PROVE NothingElse!2'
    BY DEF NothingElse
  <2>1. NothingElse!2
    BY <1>1 DEF EngineCore, NothingElse
  <2>2. ASSUME NEW k \in Jobs, job'[k].at = "inline" PROVE job'[k] = job[k]
    BY <2>2 DEF Loading
  <2> QED BY <1>2, <1>3, <2>1, <2>2 DEF Usable
<1>5. Everything'
  <2> SUFFICES ASSUME UnderWay', ~disturbed' PROVE Everything!2'
    BY DEF Everything
  <2>1. Everything!2
    BY <1>1 DEF EngineCore, Everything
  <2>2. ASSUME NEW k \in Jobs, NEW r, Remaining(k, r) PROVE Remaining(k, r)'
    <3>1. job'[k] = job[k]
      BY <2>2 DEF Remaining, Loading
    <3> QED BY <2>2, <3>1, <1>2 DEF Remaining, Usable
  <2> QED BY <1>2, <1>3, <2>1, <2>2
<1> QED BY <1>1, <1>3, <1>4, <1>5 DEF EngineCore, RulesAfterReload, Expected, Usable

\* Steps that change what is on disk.
LEMMA DiskChanges ==
  ASSUME EngineCore, Disturbs, UNCHANGED <<engine, loaded>>,
         \A k \in Jobs : Loading(k)' <=> Loading(k)
  PROVE  EngineCore'
<1>1. UnderWay' <=> UnderWay
  BY DEF UnderWay
<1>2. UnderWay' => disturbed'
  BY <1>1 DEF Disturbs, UnderWay
<1>3. RulesAfterReload'
  BY DEF EngineCore, RulesAfterReload, Expected, Usable
<1> QED BY <1>1, <1>2, <1>3 DEF EngineCore, NothingElse, Everything

\* Engine.Reset: the job that did it last will register everything.
LEMMA Resetting ==
  ASSUME TypeOK, EngineCore, NEW j \in Jobs, NEW kind, StartReload(j, kind)
  PROVE  EngineCore'
<1>1. /\ UNCHANGED disk /\ loaded' = Unknown /\ engine' = << >>
      /\ disturbed' = (disturbed /\ UnderWay)
  BY DEF StartReload, Cleared, UnderWay
<1>2. job'[j].at = "list" /\ \A k \in Jobs \ {j} : job'[k] = job[k]
  BY DEF StartReload, TypeOK, JobStates
<1>3. ToSet(engine)' = {}
  BY <1>1 DEF ToSet
<1>4. NothingElse'
  <2> SUFFICES ASSUME ~disturbed', NEW k \in Jobs, job'[k].at = "inline"
               PROVE  (Usable(job[k].rules) \subseteq Expected(OnDisk))'
    BY <1>3 DEF NothingElse
  <2>1. job'[k] = job[k] /\ Loading(k)
    BY <1>2 DEF Loading
  <2>2. UnderWay /\ ~disturbed
    BY <1>1, <2>1 DEF UnderWay
  <2>3. Usable(job[k].rules) \subseteq Expected(OnDisk)
    BY <2>1, <2>2 DEF EngineCore, NothingElse
  <2> QED BY <1>1, <2>1, <2>3, StaysOnDisk DEF Usable
<1>5. Everything'
  BY <1>2 DEF Everything, Remaining
<1> QED BY <1>1, <1>4, <1>5 DEF EngineCore, RulesAfterReload

\* A step of a job that is loading and goes on: what it registers is on disk,
\* and what it has passed over it has registered.
LEMMA LoadingStep ==
  ASSUME TypeOK, EngineCore, NEW j \in Jobs, Loading(j), NEW b,
         UNCHANGED <<disk, loaded, disturbed>>,
         job' = [job EXCEPT ![j] = b], b.at \in {"files", "inline"},
         ToSet(engine) \subseteq ToSet(engine'),
         ~disturbed =>
           /\ ToSet(engine') \subseteq ToSet(engine) \cup Expected(OnDisk)
           /\ b.at = "inline" => Usable(b.rules) \subseteq Expected(OnDisk)
           /\ \A r \in Expected(OnDisk) : Remaining(j, r) =>
                r \in ToSet(engine') \/ Remaining(j, r)'
  PROVE  EngineCore'
<1>1. job'[j] = b /\ \A k \in Jobs \ {j} : job'[k] = job[k]
  BY DEF TypeOK
<1>2. UnderWay /\ UnderWay' /\ loaded = Unknown /\ loaded' = Unknown
  BY <1>1 DEF UnderWay, Loading, EngineCore
<1>3. OnDisk' = OnDisk /\ Expected(OnDisk)' = Expected(OnDisk)
      /\ Usable(OnDisk.inline)' = Usable(OnDisk.inline)
  BY StaysOnDisk
<1>4. NothingElse'
  <2> SUFFICES ASSUME ~disturbed
               PROVE  /\ ToSet(engine') \subseteq Expected(OnDisk)'
                      /\ \A k \in Jobs : job'[k].at = "inline" =>
                           Usable(job'[k].rules) \subseteq Expected(OnDisk)'
    BY DEF NothingElse
  <2>1. /\ ToSet(engine) \subseteq Expected(OnDisk)
        /\ \A k \in Jobs : job[k].at = "inline" => Usable(job[k].rules) \subseteq Expected(OnDisk)
    BY <1>2 DEF EngineCore, NothingElse
  <2> QED BY <1>1, <1>3, <2>1
<1>5. Everything'
  <2> SUFFICES ASSUME ~disturbed
               PROVE  \/ Expected(OnDisk)' \subseteq ToSet(engine')
                      \/ \E k \in Jobs : \A r \in Expected(OnDisk)' :
                           r \in ToSet(engine') \/ Remaining(k, r)'
    BY DEF Everything
  <2>1. CASE Expected(OnDisk) \subseteq ToSet(engine)
    BY <1>3, <2>1
  <2>2. ASSUME NEW k \in Jobs, k # j,
               \A r \in Expected(OnDisk) : r \in ToSet(engine) \/ Remaining(k, r)
        PROVE  \A r \in Expected(OnDisk) : r \in ToSet(engine') \/ Remaining(k, r)'
    BY <1>1, <1>3, <2>2 DEF Remaining
  <2>3. ASSUME \A r \in Expected(OnDisk) : r \in ToSet(engine) \/ Remaining(j, r)
        PROVE  \A r \in Expected(OnDisk) : r \in ToSet(engine') \/ Remaining(j, r)'
    BY <2>3
  <2> QED BY <1>2, <1>3, <2>1, <2>2, <2>3 DEF EngineCore, Everything
<1> QED BY <1>2, <1>4, <1>5 DEF EngineCore, RulesAfterReload

LEMMA ListRulesKeeps ==
  ASSUME TypeOK, EngineCore, NEW j \in Jobs, ListRules(j) PROVE EngineCore'
<1>1. PICK order \in SetToSeqs(ruleFiles) :
        job' = [job EXCEPT ![j].at = "files", ![j].rules = order]
  BY DEF ListRules
<1>2. ToSet(order) = ruleFiles
  BY <1>1, AllInOrder, DiskTypes, FS_Subset, RulesAssumption
<1> DEFINE b == [job[j] EXCEPT !.at = "files", !.rules = order]
<1>3. job' = [job EXCEPT ![j] = b] /\ b.at = "files" /\ b.rules = order /\ job'[j] = b
  BY <1>1 DEF TypeOK, JobStates
<1>4. UNCHANGED <<disk, loaded, disturbed>> /\ engine' = engine /\ Loading(j)
  BY DEF ListRules, history, Loading
<1> HIDE DEF b
<1>5. \A r \in Expected(OnDisk) : Remaining(j, r)'
  BY <1>2, <1>3, <1>4, StaysOnDisk, DiskTypes DEF Expected, Remaining
<1> QED BY <1>3, <1>4, <1>5, LoadingStep

LEMMA FirstAndRest ==
  ASSUME NEW list \in Seq(Rules), list # << >>
  PROVE  /\ Head(list) \in Rules /\ Tail(list) \in Seq(Rules)
         /\ ToSet(list) = {Head(list)} \cup ToSet(Tail(list))
<1> DEFINE r == Head(list)
           rest == Tail(list)
           n == Len(list)
<1>1. r \in Rules /\ rest \in Seq(Rules) /\ n \in Nat \ {0}
  OBVIOUS
<1>2. DOMAIN list = 1 .. n /\ DOMAIN rest = 1 .. n - 1 /\ list[1] = r
  OBVIOUS
<1>3. \A k \in 1 .. n - 1 : rest[k] = list[k + 1]
  OBVIOUS
<1> HIDE DEF r, rest, n
<1>4. ASSUME NEW q \in ToSet(list), q # r PROVE q \in ToSet(rest)
  <2>1. PICK k \in 1 .. n : q = list[k]
    BY <1>2 DEF ToSet
  <2>2. k - 1 \in 1 .. n - 1 /\ (k - 1) + 1 = k
    BY <1>1, <1>2, <1>4, <2>1
  <2> QED BY <1>2, <1>3, <2>1, <2>2 DEF ToSet
<1>5. ASSUME NEW q \in ToSet(rest) PROVE q \in ToSet(list)
  <2>1. PICK k \in 1 .. n - 1 : q = rest[k]
    BY <1>2 DEF ToSet
  <2>2. k + 1 \in 1 .. n
    BY <1>1
  <2> QED BY <1>2, <1>3, <2>1, <2>2 DEF ToSet
<1>6. r \in ToSet(list)
  BY <1>1, <1>2 DEF ToSet
<1> QED BY <1>1, <1>4, <1>5, <1>6 DEF r, rest

LEMMA LoadFileKeeps ==
  ASSUME TypeOK, EngineCore, Ascending(engine), NEW j \in Jobs, LoadFile(j) PROVE EngineCore'
<1> DEFINE list == job[j].rules
           r == Head(list)
           b == [job[j] EXCEPT !.rules = Tail(@)]
<1>1. list \in Seq(Rules) /\ list # << >> /\ engine \in Seq(Rules)
  BY DEF LoadFile, TypeOK, JobStates
<1>2. r \in Rules /\ Tail(list) \in Seq(Rules) /\ ToSet(list) = {r} \cup ToSet(Tail(list))
  BY <1>1, FirstAndRest
<1>3. job' = [job EXCEPT ![j] = b] /\ b.at = "files" /\ b.rules = Tail(list) /\ job'[j] = b
  BY DEF LoadFile, TypeOK, JobStates
<1>4. UNCHANGED <<disk, loaded, disturbed>> /\ Loading(j) /\ job[j].at = "files"
  BY DEF LoadFile, history, Loading
<1>5. ToSet(engine') = ToSet(engine) \cup {q \in {r} : r \in ruleFiles /\ Valid(r)}
  BY <1>1, <1>2, Registering DEF LoadFile
<1> HIDE DEF list, r, b
<1>6. OnDisk.files = ruleFiles
  BY DiskTypes
<1>7. {q \in {r} : r \in ruleFiles /\ Valid(r)} \subseteq Expected(OnDisk)
  BY <1>6 DEF Expected
<1>8. ASSUME NEW q \in Expected(OnDisk), Remaining(j, q)
      PROVE  q \in ToSet(engine') \/ Remaining(j, q)'
  <2>1. CASE q \in Usable(OnDisk.inline)
    <3>1. Usable(OnDisk.inline)' = Usable(OnDisk.inline)
      BY <1>4, StaysOnDisk
    <3> QED BY <1>3, <2>1, <3>1 DEF Remaining
  <2>2. CASE q \notin Usable(OnDisk.inline)
    <3>1. q \in ToSet(list) /\ q \in ruleFiles /\ Valid(q)
      BY <1>4, <1>6, <1>8, <2>2 DEF Remaining, Expected, list
    <3> QED BY <1>2, <1>3, <1>5, <3>1 DEF Remaining
  <2> QED BY <2>1, <2>2
<1> QED BY <1>3, <1>4, <1>5, <1>7, <1>8, LoadingStep

LEMMA LoadConfigKeeps ==
  ASSUME TypeOK, EngineCore, NEW j \in Jobs, LoadConfig(j) PROVE EngineCore'
<1> DEFINE b == [job[j] EXCEPT !.at = "inline", !.rules = OnDisk.inline]
<1>1. job' = [job EXCEPT ![j] = b] /\ b.at = "inline" /\ b.rules = OnDisk.inline /\ job'[j] = b
  BY DEF LoadConfig, TypeOK, JobStates, OnDisk
<1>2. /\ UNCHANGED <<disk, loaded, disturbed>> /\ engine' = engine /\ Loading(j)
      /\ job[j].at = "files" /\ job[j].rules = << >>
  BY DEF LoadConfig, history, Loading
<1> HIDE DEF b
<1>3. Usable(OnDisk.inline) \subseteq Expected(OnDisk)
  BY DEF Expected
<1>4. ASSUME NEW q, Remaining(j, q) PROVE Remaining(j, q)'
  <2>1. ToSet(job[j].rules) = {}
    BY <1>2 DEF ToSet
  <2>2. q \in Usable(OnDisk.inline)
    BY <1>2, <1>4, <2>1 DEF Remaining
  <2> QED BY <1>1, <2>2 DEF Remaining
<1> QED BY <1>1, <1>2, <1>3, <1>4, LoadingStep

LEMMA LoadInlineKeeps ==
  ASSUME TypeOK, EngineCore, Ascending(engine), NEW j \in Jobs, LoadInline(j) PROVE EngineCore'
<1> DEFINE list == job[j].rules
           r == Head(list)
           rest == IF r \in Broken THEN << >> ELSE Tail(list)
           b == [job[j] EXCEPT !.rules = rest]
<1>1. list \in Seq(Rules) /\ list # << >> /\ engine \in Seq(Rules)
  BY DEF LoadInline, TypeOK, JobStates
<1>2. job' = [job EXCEPT ![j] = b] /\ b.at = "inline" /\ b.rules = rest /\ job'[j] = b
  BY DEF LoadInline, TypeOK, JobStates
<1>3. /\ UNCHANGED <<disk, loaded, disturbed>> /\ Loading(j) /\ UnderWay
      /\ job[j].at = "inline"
  BY DEF LoadInline, history, Loading, UnderWay
<1>4. ToSet(engine') = ToSet(engine) \cup {q \in {r} : Valid(r)}
  <2>1. r \in Rules
    BY <1>1, FirstAndRest
  <2>2. engine' = IF Valid(r) THEN Registered(engine, r) ELSE engine
    BY DEF LoadInline
  <2> HIDE DEF r
  <2> QED BY <1>1, <2>1, <2>2, Registering
<1>5. Usable(list) = {q \in {r} : Valid(r)} \cup Usable(rest)
  BY <1>1, UsableRest, NothingUsable DEF Valid
<1> HIDE DEF list, r, rest, b
<1>6. ~disturbed => Usable(list) \subseteq Expected(OnDisk)
  BY <1>3 DEF EngineCore, NothingElse, list
<1>7. ASSUME NEW q, Remaining(j, q) PROVE q \in ToSet(engine') \/ Remaining(j, q)'
  BY <1>2, <1>3, <1>4, <1>5, <1>7 DEF Remaining, list
<1> QED BY <1>2, <1>3, <1>4, <1>5, <1>6, <1>7, LoadingStep

\* The rules have been loaded: by the last of the jobs that were at it.
LEMMA StartSweepKeeps ==
  ASSUME TypeOK, EngineCore, NEW j \in Jobs, StartSweep(j) PROVE EngineCore'
<1>1. /\ UNCHANGED <<disk, disturbed>> /\ engine' = engine
      /\ job[j].at = "inline" /\ job[j].rules = << >> /\ Loading(j) /\ UnderWay
      /\ loaded' = IF disturbed \/ \E k \in Jobs \ {j} : Loading(k) THEN Unknown ELSE OnDisk
  BY DEF StartSweep, Loading, UnderWay
<1>2. job'[j].at = "sweep" /\ \A k \in Jobs \ {j} : job'[k] = job[k]
  BY DEF StartSweep, TypeOK, JobStates
<1>3. OnDisk' = OnDisk /\ Expected(OnDisk)' = Expected(OnDisk)
      /\ Usable(OnDisk.inline)' = Usable(OnDisk.inline)
  BY <1>1, StaysOnDisk
<1>4. \A r : ~Remaining(j, r)
  BY <1>1, NothingUsable DEF Remaining
<1>5. UnderWay' <=> \E k \in Jobs \ {j} : Loading(k)
  BY <1>2 DEF UnderWay, Loading
<1>6. loaded' # Unknown => ~UnderWay'
  BY <1>1, <1>5
<1>7. NothingElse'
  <2> SUFFICES ASSUME ~disturbed
               PROVE  /\ ToSet(engine) \subseteq Expected(OnDisk)'
                      /\ \A k \in Jobs : job'[k].at = "inline" =>
                           Usable(job'[k].rules) \subseteq Expected(OnDisk)'
    BY <1>1 DEF NothingElse
  <2>1. /\ ToSet(engine) \subseteq Expected(OnDisk)
        /\ \A k \in Jobs : job[k].at = "inline" => Usable(job[k].rules) \subseteq Expected(OnDisk)
    BY <1>1 DEF EngineCore, NothingElse
  <2> QED BY <1>2, <1>3, <2>1
<1>8. Everything'
  <2> SUFFICES ASSUME ~disturbed
               PROVE  \/ Expected(OnDisk)' \subseteq ToSet(engine)
                      \/ \E k \in Jobs : \A r \in Expected(OnDisk)' :
                           r \in ToSet(engine) \/ Remaining(k, r)'
    BY <1>1 DEF Everything
  <2>1. CASE Expected(OnDisk) \subseteq ToSet(engine)
    BY <1>3, <2>1
  <2>2. ASSUME NEW k \in Jobs, k # j,
               \A r \in Expected(OnDisk) : r \in ToSet(engine) \/ Remaining(k, r)
        PROVE  \A r \in Expected(OnDisk) : r \in ToSet(engine) \/ Remaining(k, r)'
    BY <1>2, <1>3, <2>2 DEF Remaining
  <2> QED BY <1>1, <1>3, <1>4, <2>1, <2>2 DEF EngineCore, Everything
<1>9. RulesAfterReload'
  <2> SUFFICES ASSUME loaded' # Unknown PROVE ToSet(engine) = Expected(loaded')
    BY <1>1 DEF RulesAfterReload
  <2>1. ~disturbed /\ loaded' = OnDisk /\ \A k \in Jobs : Loading(k) => k = j
    BY <1>1
  <2>2. ToSet(engine) \subseteq Expected(OnDisk)
    BY <1>1, <2>1 DEF EngineCore, NothingElse
  <2>3. \A k \in Jobs : \A r : ~Remaining(k, r)
    BY <1>4, <2>1 DEF Remaining, Loading
  <2>4. Expected(OnDisk) \subseteq ToSet(engine)
    BY <1>1, <2>1, <2>3 DEF EngineCore, Everything
  <2> QED BY <2>1, <2>2, <2>4
<1> QED BY <1>6, <1>7, <1>8, <1>9 DEF EngineCore

LEMMA EngineStep ==
  ASSUME EngineInv, [Next]_vars
  PROVE  EngineInv'
<1> SUFFICES EngineCore'
  BY TypeStep DEF EngineInv
<1>0. TypeOK /\ EngineCore /\ Ascending(engine) /\ \A j \in Jobs : job[j] \in JobStates
  BY DEF EngineInv, TypeOK
<1>1. CASE UNCHANGED vars
  BY <1>0, <1>1, Elsewhere DEF vars, disk, Loading
<1>2. CASE EditRules \/ EditConfig
  BY <1>0, <1>2, DiskChanges DEF EditRules, EditConfig, Loading
<1>3. ASSUME NEW p \in Paths, NEW t \in Tags, RemoveTag(p, t) PROVE EngineCore'
  BY <1>0, <1>3, Elsewhere DEF RemoveTag, Loading
<1>4. ASSUME NEW j \in Jobs PROVE (\E kind \in {"hup", "reload"} : StartReload(j, kind)) => EngineCore'
  BY <1>0, Resetting
<1>5. ASSUME NEW j \in Jobs PROVE ListRules(j) => EngineCore'
  BY <1>0, ListRulesKeeps
<1>6. ASSUME NEW j \in Jobs PROVE LoadFile(j) => EngineCore'
  BY <1>0, LoadFileKeeps
<1>7. ASSUME NEW j \in Jobs PROVE LoadConfig(j) => EngineCore'
  BY <1>0, LoadConfigKeeps
<1>8. ASSUME NEW j \in Jobs PROVE LoadInline(j) => EngineCore'
  BY <1>0, LoadInlineKeeps
<1>9. ASSUME NEW j \in Jobs PROVE StartSweep(j) => EngineCore'
  BY <1>0, StartSweepKeeps
<1>10. ASSUME NEW j \in Jobs, NEW p \in Paths, StartEvent(j, p) PROVE EngineCore'
  BY <1>0, <1>10, Elsewhere DEF StartEvent, Loading, JobStates, history, TypeOK
<1>11. ASSUME NEW j \in Jobs, ReadFile(j) PROVE EngineCore'
  <2>1. job[j].at = "sweep" /\ job'[j].at \in {"done", "eval"}
        /\ \A k \in Jobs \ {j} : job'[k] = job[k]
    <3>1. job[j].at = "sweep"
      BY <1>11 DEF ReadFile
    <3>2. CASE job' = [job EXCEPT ![j].at = "done"]
      BY <1>0, <3>1, <3>2 DEF JobStates, TypeOK
    <3>3. ASSUME NEW p, job' = [job EXCEPT ![j].at = "eval", ![j].path = p,
                                           ![j].paths = @ \ {p}, ![j].was = tags[p]]
          PROVE  job'[j].at = "eval" /\ \A k \in Jobs \ {j} : job'[k] = job[k]
      BY <1>0, <3>3 DEF JobStates, TypeOK
    <3> QED BY <1>11, <3>1, <3>2, <3>3 DEF ReadFile
  <2> QED BY <1>0, <1>11, <2>1, Elsewhere DEF ReadFile, Loading, history
<1>12. ASSUME NEW j \in Jobs, Evaluate(j) PROVE EngineCore'
  <2>1. job[j].at = "eval" /\ job'[j].at \in {"sweep", "write"}
        /\ \A k \in Jobs \ {j} : job'[k] = job[k]
    BY <1>0, <1>12 DEF Evaluate, JobStates, TypeOK
  <2> QED BY <1>0, <1>12, <2>1, Elsewhere DEF Evaluate, Loading, history
<1>13. ASSUME NEW j \in Jobs, WriteFile(j) PROVE EngineCore'
  BY <1>0, <1>13, Elsewhere DEF WriteFile, Loading, JobStates, TypeOK
<1>14. ASSUME NEW j \in Jobs, NEW kind, NEW x, StartPin(j, kind, x) PROVE EngineCore'
  BY <1>0, <1>14, Elsewhere DEF StartPin, Loading, JobStates, TypeOK
<1>15. ASSUME NEW j \in Jobs, ChangePins(j) PROVE EngineCore'
  BY <1>0, <1>15, Elsewhere DEF ChangePins, Loading, JobStates, TypeOK
<1>16. ASSUME NEW j \in Jobs, TruncateConfig(j) PROVE EngineCore'
  <2>1. \A k \in Jobs : Loading(k)' <=> Loading(k)
    BY <1>0, <1>16 DEF TruncateConfig, Loading, JobStates, TypeOK
  <2> QED BY <1>0, <1>16, <2>1, DiskChanges DEF TruncateConfig
<1>17. ASSUME NEW j \in Jobs, SaveConfig(j) PROVE EngineCore'
  <2>1. \A k \in Jobs : Loading(k)' <=> Loading(k)
    BY <1>0, <1>17 DEF SaveConfig, Loading, JobStates, TypeOK
  <2> QED BY <1>0, <1>17, <2>1, DiskChanges DEF SaveConfig
<1> QED
  BY <1>1, <1>2, <1>3, <1>4, <1>5, <1>6, <1>7, <1>8, <1>9, <1>10, <1>11, <1>12, <1>13,
     <1>14, <1>15, <1>16, <1>17 DEF Next, User

\* When reloads have ended with the disk at rest, the engine holds the rules
\* that are on disk and no other: reloadConfig and ReloadRules, however they
\* overlapped (engine.Reset, Registry.Load, LoadInline).
THEOREM Reloaded == Spec => []RulesAfterReload
<1>1. Init => EngineInv
  <2> SUFFICES ASSUME Init PROVE EngineInv
    OBVIOUS
  <2>1. ~UnderWay
    BY DEF Init, UnderWay, Loading, Blank
  <2> QED BY <2>1, Start
          DEF EngineInv, EngineCore, NothingElse, Everything, RulesAfterReload
<1>2. EngineInv /\ [Next]_vars => EngineInv'
  BY EngineStep
<1>3. EngineInv => RulesAfterReload
  BY DEF EngineInv, EngineCore
<1> QED BY <1>1, <1>2, <1>3, PTL DEF Spec

-----------------------------------------------------------------------------
(***************************************************************************)
(* Sweeps and processed files                                              *)
(***************************************************************************)

\* Steps that touch no job that is reading, evaluating or writing tags, and
\* no tags.
LEMMA TagsElsewhere ==
  ASSUME TagInv, UNCHANGED <<tags, raced, removed>>,
         loaded' # Unknown => loaded # Unknown /\ engine' = engine,
         \A k \in Jobs : Tagging(k)' <=> Tagging(k),
         \A k \in Jobs : Tagging(k) => job'[k] = job[k]
  PROVE  TagInv'
<1>1. HighestIsSource'
  BY DEF TagInv, HighestIsSource, Tagging
<1>2. ReadStill'
  BY DEF TagInv, ReadStill, Tagging
<1>3. \A k \in Jobs : \A p, t : Owes(k, p, t) => Owes(k, p, t)'
  BY DEF Owes, Tagging
<1>4. Owed'
  BY <1>3 DEF TagInv, Owed, Certain
<1> QED BY <1>1, <1>2, <1>4 DEF TagInv

\* A job takes up files: what was owed is owed still.
LEMMA TakesUp ==
  ASSUME TypeOK, TagInv, NEW j \in Jobs, ~Tagging(j), NEW paths,
         UNCHANGED <<tags, raced, removed>>, engine' = engine,
         job' = [job EXCEPT ![j].at = "sweep", ![j].paths = paths],
         \/ loaded' # Unknown => loaded # Unknown
         \/ paths = Paths
  PROVE  TagInv'
<1>1. /\ job'[j].at = "sweep" /\ job'[j].paths = paths
      /\ \A k \in Jobs \ {j} : job'[k] = job[k]
  BY DEF TypeOK, JobStates
<1>2. HighestIsSource'
  BY <1>1 DEF TagInv, HighestIsSource
<1>3. ReadStill'
  <2> SUFFICES ASSUME ~raced, NEW k \in Jobs, job'[k].at \in {"eval", "write"},
                      NEW t \in job'[k].was
               PROVE  t \in tags[job'[k].path] \/ <<job'[k].path, t>> \in removed
    BY DEF ReadStill
  <2>1. job'[k] = job[k]
    BY <1>1
  <2> QED BY <2>1 DEF TagInv, ReadStill
<1>4. \A k \in Jobs : \A p, t : Owes(k, p, t) => Owes(k, p, t)'
  BY <1>1 DEF Owes, Tagging
<1>5. Owed'
  <2>1. CASE loaded' # Unknown => loaded # Unknown
    BY <2>1, <1>4 DEF TagInv, Owed, Certain
  <2>2. CASE paths = Paths
    BY <2>2, <1>1 DEF Owed, Owes
  <2> QED BY <2>1, <2>2
<1> QED BY <1>2, <1>3, <1>5 DEF TagInv

LEMMA ReadFileKeeps ==
  ASSUME TypeOK, TagInv, NEW j \in Jobs, ReadFile(j) PROVE TagInv'
<1>0. UNCHANGED <<tags, raced, removed, engine, loaded>> /\ job[j].at = "sweep"
  BY DEF ReadFile, history
<1>1. CASE job[j].paths = {} /\ job' = [job EXCEPT ![j].at = "done"]
  <2>1. job'[j].at = "done" /\ \A k \in Jobs \ {j} : job'[k] = job[k]
    BY <1>1 DEF TypeOK, JobStates
  <2>2. \A k \in Jobs : \A p, t : Owes(k, p, t) => Owes(k, p, t)'
    BY <1>0, <1>1, <2>1 DEF Owes
  <2>3. HighestIsSource' /\ ReadStill'
    BY <1>0, <2>1 DEF TagInv, HighestIsSource, ReadStill
  <2>4. Owed'
    BY <1>0, <2>2 DEF TagInv, Owed, Certain
  <2> QED BY <2>3, <2>4 DEF TagInv
<1>2. ASSUME NEW p \in job[j].paths,
             job' = [job EXCEPT ![j].at = "eval", ![j].path = p,
                                ![j].paths = @ \ {p}, ![j].was = tags[p]]
      PROVE  TagInv'
  <2>1. /\ job'[j].at = "eval" /\ job'[j].path = p /\ job'[j].paths = job[j].paths \ {p}
        /\ job'[j].was = tags[p] /\ \A k \in Jobs \ {j} : job'[k] = job[k]
    BY <1>2 DEF TypeOK, JobStates
  <2>2. \A k \in Jobs : \A q, t : Owes(k, q, t) => Owes(k, q, t)'
    BY <1>0, <2>1 DEF Owes
  <2>3. HighestIsSource'
    BY <1>0, <2>1 DEF TagInv, HighestIsSource
  <2>4. ReadStill'
    BY <1>0, <2>1 DEF TagInv, ReadStill
  <2>5. Owed'
    BY <1>0, <2>2 DEF TagInv, Owed, Certain
  <2> QED BY <2>3, <2>4, <2>5 DEF TagInv
<1> QED BY <1>1, <1>2 DEF ReadFile

\* A rule that cannot fail has given its tags, or the file had them.
LEMMA EvaluateKeeps ==
  ASSUME TypeOK, TagInv, Ascending(engine), NEW j \in Jobs, Evaluate(j) PROVE TagInv'
<1>0. UNCHANGED <<tags, raced, removed, engine, loaded>> /\ job[j].at = "eval"
      /\ job[j].path \in Paths
  BY DEF Evaluate, history, TypeOK
<1>1. PICK failing \in SUBSET Flaky :
        LET source == Sources(engine, job[j].was, failing) IN
        job' = [job EXCEPT ![j].at = IF DOMAIN source = {} THEN "sweep" ELSE "write",
                           ![j].source = source,
                           ![j].fired = ToSet(engine) \ failing]
  BY DEF Evaluate
<1> DEFINE source == Sources(engine, job[j].was, failing)
           at == IF DOMAIN source = {} THEN "sweep" ELSE "write"
           fired == ToSet(engine) \ failing
<1>2. /\ \A t : t \in DOMAIN source <=> t \notin job[j].was /\ \E r \in fired : t \in Gives[r]
      /\ \A t \in DOMAIN source, r \in fired :
           t \in Gives[r] => Priority[r] <= Priority[source[t]]
  BY Attribution DEF TypeOK
<1>3. Certain \subseteq fired
  BY DEF Certain
<1>4. job' = [job EXCEPT ![j].at = at, ![j].source = source, ![j].fired = fired]
  BY <1>1
<1>5. (at = "sweep" /\ DOMAIN source = {}) \/ at = "write"
  OBVIOUS
<1> HIDE DEF source, at, fired
<1>6. /\ job'[j].at = at /\ job'[j].source = source /\ job'[j].fired = fired
      /\ job'[j].path = job[j].path /\ job'[j].paths = job[j].paths
      /\ job'[j].was = job[j].was /\ \A k \in Jobs \ {j} : job'[k] = job[k]
  BY <1>4 DEF TypeOK, JobStates
<1>7. HighestIsSource'
  BY <1>2, <1>6 DEF TagInv, HighestIsSource
<1>8. ReadStill'
  BY <1>0, <1>6 DEF TagInv, ReadStill
<1>9. ASSUME loaded # Unknown, ~raced,
             NEW p \in Paths, NEW r \in Certain, NEW t \in Gives[r]
      PROVE  t \in tags[p] \/ <<p, t>> \in removed \/ \E k \in Jobs : Owes(k, p, t)'
  <2>1. t \in tags[p] \/ <<p, t>> \in removed \/ \E k \in Jobs : Owes(k, p, t)
    BY <1>9 DEF TagInv, Owed
  <2>2. ASSUME NEW k \in Jobs \ {j}, Owes(k, p, t) PROVE Owes(k, p, t)'
    BY <1>6, <2>2 DEF Owes
  <2>3. CASE p \in job[j].paths
    BY <1>5, <1>6, <2>3 DEF Owes
  <2>4. CASE job[j].path = p
    <3>1. CASE t \in job[j].was
      BY <1>0, <1>9, <2>4, <3>1 DEF TagInv, ReadStill
    <3>2. CASE t \notin job[j].was
      <4>1. t \in DOMAIN source
        BY <1>2, <1>3, <3>2
      <4> QED BY <1>5, <1>6, <2>4, <4>1 DEF Owes
    <3> QED BY <3>1, <3>2
  <2> QED BY <1>0, <2>1, <2>2, <2>3, <2>4 DEF Owes
<1>10. Owed'
  BY <1>0, <1>9 DEF Owed, Certain
<1> QED BY <1>7, <1>8, <1>10 DEF TagInv

\* A write of a file that nobody has written since the job read it only adds.
LEMMA WriteFileKeeps ==
  ASSUME TypeOK, TagInv, NEW j \in Jobs, WriteFile(j) PROVE TagInv'
<1> DEFINE b == job[j]
<1>0. /\ UNCHANGED <<removed, engine, loaded>> /\ b.at = "write" /\ b.path \in Paths
      /\ raced' = (raced \/ tags[b.path] # b.was)
  BY DEF WriteFile, TypeOK
<1>1. /\ tags'[b.path] = b.was \cup DOMAIN b.source
      /\ \A p \in Paths \ {b.path} : tags'[p] = tags[p]
  BY <1>0 DEF WriteFile, NewTags, TypeOK
<1>2. /\ job'[j].at = "sweep" /\ job'[j].paths = b.paths
      /\ \A k \in Jobs \ {j} : job'[k] = job[k]
  BY DEF WriteFile, TypeOK, JobStates
<1>3. ASSUME ~raced' PROVE ~raced /\ \A p \in Paths : tags[p] \subseteq tags'[p]
  BY <1>0, <1>1, <1>3
<1>4. \A k \in Jobs : job[k].at \in {"eval", "write"} => job[k].path \in Paths
  BY DEF TypeOK
<1> HIDE DEF b
<1>5. HighestIsSource'
  BY <1>2 DEF TagInv, HighestIsSource
<1>6. ReadStill'
  BY <1>0, <1>2, <1>3, <1>4 DEF TagInv, ReadStill
<1>7. ASSUME NEW k \in Jobs, NEW p \in Paths, NEW t, Owes(k, p, t)
      PROVE  Owes(k, p, t)' \/ t \in tags'[p]
  BY <1>0, <1>1, <1>2, <1>7 DEF Owes, b
<1>8. Owed'
  BY <1>0, <1>3, <1>7 DEF TagInv, Owed, Certain
<1> QED BY <1>5, <1>6, <1>8 DEF TagInv

LEMMA RemoveTagKeeps ==
  ASSUME TypeOK, TagInv, NEW p \in Paths, NEW t \in Tags, RemoveTag(p, t) PROVE TagInv'
<1>1. /\ UNCHANGED <<engine, loaded, raced, job>> /\ removed' = removed \cup {<<p, t>>}
      /\ tags'[p] = tags[p] \ {t} /\ \A q \in Paths \ {p} : tags'[q] = tags[q]
  BY DEF RemoveTag, TypeOK
<1>2. \A q \in Paths : \A u :
        u \in tags[q] \/ <<q, u>> \in removed => u \in tags'[q] \/ <<q, u>> \in removed'
  BY <1>1
<1>3. HighestIsSource'
  BY <1>1 DEF TagInv, HighestIsSource
<1>4. ReadStill'
  BY <1>1, <1>2 DEF TagInv, ReadStill, TypeOK
<1>5. \A k \in Jobs : \A q, u : Owes(k, q, u) => Owes(k, q, u)'
  BY <1>1 DEF Owes
<1>6. Owed'
  BY <1>1, <1>2, <1>5 DEF TagInv, Owed, Certain
<1> QED BY <1>3, <1>4, <1>6 DEF TagInv

LEMMA TagStep ==
  ASSUME EngineInv, TagInv, [Next]_vars
  PROVE  TagInv'
<1>0. /\ TypeOK /\ Ascending(engine) /\ \A j \in Jobs : job[j] \in JobStates
      /\ \A j \in Jobs : Loading(j) => loaded = Unknown
  BY DEF EngineInv, TypeOK, EngineCore, UnderWay
<1>1. CASE UNCHANGED vars
  BY <1>1, TagsElsewhere DEF vars, Tagging
<1>2. CASE EditRules \/ EditConfig
  BY <1>2, TagsElsewhere DEF EditRules, EditConfig, Tagging
<1>3. ASSUME NEW p \in Paths, NEW t \in Tags, RemoveTag(p, t) PROVE TagInv'
  BY <1>0, <1>3, RemoveTagKeeps
<1>4. ASSUME NEW j \in Jobs, NEW kind, StartReload(j, kind) PROVE TagInv'
  BY <1>0, <1>4, TagsElsewhere DEF StartReload, Tagging, JobStates, TypeOK
<1>5. ASSUME NEW j \in Jobs, ListRules(j) PROVE TagInv'
  BY <1>0, <1>5, TagsElsewhere DEF ListRules, Tagging, JobStates, TypeOK, history
<1>6. ASSUME NEW j \in Jobs, LoadFile(j) PROVE TagInv'
  <2>1. loaded = Unknown /\ loaded' = Unknown
    BY <1>0, <1>6 DEF LoadFile, Loading, history
  <2> QED BY <1>0, <1>6, <2>1, TagsElsewhere DEF LoadFile, Tagging, JobStates, TypeOK, history
<1>7. ASSUME NEW j \in Jobs, LoadConfig(j) PROVE TagInv'
  BY <1>0, <1>7, TagsElsewhere DEF LoadConfig, Tagging, JobStates, TypeOK, history
<1>8. ASSUME NEW j \in Jobs, LoadInline(j) PROVE TagInv'
  <2>1. loaded = Unknown /\ loaded' = Unknown
    BY <1>0, <1>8 DEF LoadInline, Loading, history
  <2> QED BY <1>0, <1>8, <2>1, TagsElsewhere DEF LoadInline, Tagging, JobStates, TypeOK, history
<1>9. ASSUME NEW j \in Jobs, StartSweep(j) PROVE TagInv'
  BY <1>0, <1>9, TakesUp DEF StartSweep, Tagging
<1>10. ASSUME NEW j \in Jobs, NEW p \in Paths, StartEvent(j, p) PROVE TagInv'
  BY <1>0, <1>10, TakesUp DEF StartEvent, Tagging, history
<1>11. ASSUME NEW j \in Jobs PROVE ReadFile(j) \/ Evaluate(j) \/ WriteFile(j) => TagInv'
  BY <1>0, ReadFileKeeps, EvaluateKeeps, WriteFileKeeps
<1>12. ASSUME NEW j \in Jobs, NEW kind, NEW x, StartPin(j, kind, x) PROVE TagInv'
  BY <1>0, <1>12, TagsElsewhere DEF StartPin, Tagging, JobStates, TypeOK
<1>13. ASSUME NEW j \in Jobs, ChangePins(j) PROVE TagInv'
  BY <1>0, <1>13, TagsElsewhere DEF ChangePins, Tagging, JobStates, TypeOK
<1>14. ASSUME NEW j \in Jobs, TruncateConfig(j) PROVE TagInv'
  BY <1>0, <1>14, TagsElsewhere DEF TruncateConfig, Tagging, JobStates, TypeOK
<1>15. ASSUME NEW j \in Jobs, SaveConfig(j) PROVE TagInv'
  BY <1>0, <1>15, TagsElsewhere DEF SaveConfig, Tagging, JobStates, TypeOK
<1> QED
  BY <1>1, <1>2, <1>3, <1>4, <1>5, <1>6, <1>7, <1>8, <1>9, <1>10, <1>11, <1>12, <1>13,
     <1>14, <1>15 DEF Next, User

LEMMA Swept == Spec => [](EngineInv /\ TagInv)
<1>1. Init => EngineInv /\ TagInv
  <2> SUFFICES ASSUME Init PROVE EngineInv /\ TagInv
    OBVIOUS
  <2>1. \A j \in Jobs : job[j].at = "new"
    BY DEF Init, Blank
  <2>2. EngineInv
    BY <2>1, Start DEF EngineInv, EngineCore, NothingElse, Everything, RulesAfterReload,
                       UnderWay, Loading
  <2>3. \A p \in Paths : \A r \in Certain : Gives[r] \subseteq tags[p]
    BY DEF Init, Certain
  <2>4. Owed
    BY <2>3 DEF Owed
  <2> QED BY <2>1, <2>2, <2>4 DEF TagInv, HighestIsSource, ReadStill
<1>2. EngineInv /\ TagInv /\ [Next]_vars => EngineInv' /\ TagInv'
  BY EngineStep, TagStep
<1> QED BY <1>1, <1>2, PTL DEF Spec

\* The source of a tag is a rule of the highest priority among those that gave
\* it (Register, Eval), whatever reloads do to the engine meanwhile.
THEOREM HighestWins == Spec => []HighestIsSource
<1>1. EngineInv /\ TagInv => HighestIsSource
  BY DEF TagInv
<1> QED BY <1>1, Swept, PTL

\* When nothing runs every file has the tags of the rules loaded last, those
\* the user removed excepted, unless two wrote a file's tags at once
\* (sweepFile, processFile, startBackgroundSweep).
THEOREM SweepReaches == Spec => []SweptUpToDate
<1>1. ASSUME EngineInv, TagInv PROVE SweptUpToDate
  <2> SUFFICES ASSUME Idle, loaded # Unknown, ~raced, NEW p \in Paths,
                      NEW r \in Certain, NEW t \in Gives[r]
               PROVE  t \in tags[p] \/ <<p, t>> \in removed
    BY DEF SweptUpToDate
  <2>1. \A k \in Jobs : ~Owes(k, p, t)
    BY DEF Idle, Owes
  <2> QED BY <1>1, <2>1 DEF TagInv, Owed
<1> QED BY <1>1, Swept, PTL

-----------------------------------------------------------------------------
(***************************************************************************)
(* Pins                                                                    *)
(***************************************************************************)

\* Steps that touch neither a pin's job nor the configuration.
LEMMA PinsElsewhere ==
  ASSUME PinInv, UNCHANGED <<config, cfg, crossed, asked>>,
         \A k \in Jobs : Pinning(k)' <=> Pinning(k),
         \A k \in Jobs : Pinning(k) => job'[k] = job[k]
  PROVE  PinInv'
<1> SUFFICES ASSUME ~crossed PROVE PinInv'
  BY DEF PinInv
<1>1. \A j, k \in Jobs : Pinning(j)' /\ Pinning(k)' => j = k
  BY DEF PinInv
<1>2. (\A j \in Jobs : ~Pinning(j))' => config # Garbled /\ config.pins = asked
  BY DEF PinInv
<1>3. ASSUME NEW j \in Jobs
      PROVE  /\ job'[j].at = "append" => job'[j].copy.pins = asked
             /\ job'[j].at = "save" => config = Empty /\ job'[j].copy.pins = asked
  BY DEF PinInv, Pinning
<1> QED BY <1>1, <1>2, <1>3 DEF PinInv

LEMMA PinStep ==
  ASSUME TypeOK, PinInv, [Next]_vars
  PROVE  PinInv'
<1>0. \A j \in Jobs : job[j] \in JobStates
  BY DEF TypeOK
<1>1. CASE UNCHANGED vars
  BY <1>1, PinsElsewhere DEF vars, Pinning
<1>2. CASE EditRules
  BY <1>2, PinsElsewhere DEF EditRules, Pinning
<1>3. CASE EditConfig
  <2> SUFFICES ASSUME ~crossed' PROVE PinInv'
    BY DEF PinInv
  <2>1. ~crossed /\ (\A j \in Jobs : ~Pinning(j)) /\ UNCHANGED <<cfg, job, asked>>
    BY <1>3 DEF EditConfig
  <2>2. config \in Configs /\ config' \in Configs /\ config'.pins = config.pins
    BY <1>3 DEF EditConfig, TypeOK, Configs
  <2>3. config' # Garbled
    BY <2>2, ConfigTypes
  <2> QED BY <2>1, <2>2, <2>3 DEF PinInv, Pinning
<1>4. ASSUME NEW p \in Paths, NEW t \in Tags, RemoveTag(p, t) PROVE PinInv'
  BY <1>4, PinsElsewhere DEF RemoveTag, Pinning, disk
<1>5. ASSUME NEW j \in Jobs, NEW kind, StartReload(j, kind) PROVE PinInv'
  BY <1>0, <1>5, PinsElsewhere DEF StartReload, Pinning, JobStates, TypeOK, disk
<1>6. ASSUME NEW j \in Jobs, ListRules(j) PROVE PinInv'
  BY <1>0, <1>6, PinsElsewhere DEF ListRules, Pinning, JobStates, TypeOK, disk, history
<1>7. ASSUME NEW j \in Jobs, LoadFile(j) \/ LoadConfig(j) \/ LoadInline(j) PROVE PinInv'
  <2>1. /\ Loading(j) /\ Loading(j)' /\ \A k \in Jobs \ {j} : job'[k] = job[k]
        /\ UNCHANGED <<config, cfg, crossed, asked>>
    BY <1>0, <1>7
       DEF LoadFile, LoadConfig, LoadInline, Loading, JobStates, TypeOK, disk, history
  <2> QED BY <2>1, PinsElsewhere DEF Loading, Pinning
<1>8. ASSUME NEW j \in Jobs, StartSweep(j) PROVE PinInv'
  BY <1>0, <1>8, PinsElsewhere DEF StartSweep, Pinning, JobStates, TypeOK, disk
<1>9. ASSUME NEW j \in Jobs, NEW p \in Paths, StartEvent(j, p) PROVE PinInv'
  BY <1>0, <1>9, PinsElsewhere DEF StartEvent, Pinning, JobStates, TypeOK, disk, history
<1>10. ASSUME NEW j \in Jobs, ReadFile(j) PROVE PinInv'
  <2>1. job[j].at = "sweep" /\ UNCHANGED <<config, cfg, crossed, asked>>
    BY <1>10 DEF ReadFile, disk, history
  <2>2. CASE job' = [job EXCEPT ![j].at = "done"]
    BY <1>0, <2>1, <2>2, PinsElsewhere DEF Pinning, JobStates, TypeOK
  <2>3. ASSUME NEW p, job' = [job EXCEPT ![j].at = "eval", ![j].path = p,
                                         ![j].paths = @ \ {p}, ![j].was = tags[p]]
        PROVE  PinInv'
    BY <1>0, <2>1, <2>3, PinsElsewhere DEF Pinning, JobStates, TypeOK
  <2> QED BY <1>10, <2>2, <2>3 DEF ReadFile
<1>11. ASSUME NEW j \in Jobs, Evaluate(j) PROVE PinInv'
  <2>1. job[j].at = "eval" /\ job'[j].at \in {"sweep", "write"}
        /\ \A k \in Jobs \ {j} : job'[k] = job[k]
    BY <1>0, <1>11 DEF Evaluate, JobStates, TypeOK
  <2> QED BY <1>11, <2>1, PinsElsewhere DEF Evaluate, Pinning, disk, history
<1>12. ASSUME NEW j \in Jobs, WriteFile(j) PROVE PinInv'
  BY <1>0, <1>12, PinsElsewhere DEF WriteFile, Pinning, JobStates, TypeOK, disk
<1>13. ASSUME NEW j \in Jobs, NEW kind \in {"pin", "unpin"}, NEW x \in Pins, StartPin(j, kind, x)
       PROVE  PinInv'
  <2> SUFFICES ASSUME ~crossed' PROVE PinInv'
    BY DEF PinInv
  <2>1. ~crossed /\ (\A k \in Jobs : ~Pinning(k)) /\ UNCHANGED <<config, cfg, asked>>
    BY <1>13 DEF StartPin, disk
  <2>2. job'[j].at = "append" /\ job'[j].copy = cfg /\ \A k \in Jobs \ {j} : job'[k] = job[k]
    BY <1>0, <1>13 DEF StartPin, JobStates, TypeOK
  <2> QED BY <2>1, <2>2 DEF PinInv, Pinning
<1>14. ASSUME NEW j \in Jobs, ChangePins(j) PROVE PinInv'
  <2> SUFFICES ASSUME ~crossed PROVE PinInv'
    BY <1>14 DEF PinInv, ChangePins
  <2>1. job[j].at = "append" /\ job'[j].at = "truncate" /\ \A k \in Jobs \ {j} : job'[k] = job[k]
    BY <1>0, <1>14 DEF ChangePins, JobStates, TypeOK
  <2>2. cfg'.pins = asked' /\ crossed' = crossed
    BY <1>14, <2>1 DEF ChangePins, PinInv, TypeOK, Configs
  <2>3. \A k \in Jobs \ {j} : ~Pinning(k)
    BY <2>1 DEF PinInv, Pinning
  <2> QED BY <2>1, <2>2, <2>3 DEF PinInv, Pinning
<1>15. ASSUME NEW j \in Jobs, TruncateConfig(j) PROVE PinInv'
  <2> SUFFICES ASSUME ~crossed PROVE PinInv'
    BY <1>15 DEF PinInv, TruncateConfig
  <2>1. /\ job[j].at = "truncate" /\ job'[j].at = "save" /\ job'[j].copy = cfg
        /\ \A k \in Jobs \ {j} : job'[k] = job[k]
    BY <1>0, <1>15 DEF TruncateConfig, SavedConfig, JobStates, TypeOK
  <2>2. config' = Empty /\ UNCHANGED <<cfg, asked, crossed>>
    BY <1>15 DEF TruncateConfig
  <2>3. \A k \in Jobs \ {j} : ~Pinning(k)
    BY <2>1 DEF PinInv, Pinning
  <2> QED BY <2>1, <2>2, <2>3 DEF PinInv, Pinning
<1>16. ASSUME NEW j \in Jobs, SaveConfig(j) PROVE PinInv'
  <2> SUFFICES ASSUME ~crossed PROVE PinInv'
    BY <1>16 DEF PinInv, SaveConfig
  <2>1. /\ job[j].at = "save" /\ job'[j].at = "done" /\ UNCHANGED <<cfg, asked, crossed>>
        /\ \A k \in Jobs \ {j} : job'[k] = job[k]
    BY <1>0, <1>16 DEF SaveConfig, JobStates, TypeOK
  <2>2. config = Empty /\ job[j].copy.pins = asked
    BY <2>1 DEF PinInv
  <2>3. config' = job[j].copy
    BY <1>16, <2>2 DEF SaveConfig
  <2>4. job[j].copy \in Configs
    BY <1>0 DEF JobStates
  <2>5. config' # Garbled
    BY <2>3, <2>4, ConfigTypes
  <2>6. \A k \in Jobs \ {j} : ~Pinning(k)
    BY <2>1 DEF PinInv, Pinning
  <2> QED BY <2>1, <2>2, <2>3, <2>5, <2>6 DEF PinInv, Pinning
<1> QED
  BY <1>1, <1>2, <1>3, <1>4, <1>5, <1>6, <1>7, <1>8, <1>9, <1>10, <1>11, <1>12, <1>13,
     <1>14, <1>15, <1>16 DEF Next, User

\* A pin that no other pin or edit overlapped is in config.toml and in memory
\* (PinPlace, UnpinPlace, PinSearch, UnpinSearch, config.Save), whatever
\* reloads read or swept meanwhile.
THEOREM Pinned == Spec => []PinsSaved
<1>1. Init => EngineInv /\ PinInv
  <2> SUFFICES ASSUME Init PROVE EngineInv /\ PinInv
    OBVIOUS
  <2>1. \A j \in Jobs : job[j].at = "new"
    BY DEF Init, Blank
  <2>2. EngineInv
    BY <2>1, Start DEF EngineInv, EngineCore, NothingElse, Everything, RulesAfterReload,
                       UnderWay, Loading
  <2>3. config \in Configs /\ config.pins = {} /\ cfg = config /\ asked = {}
    BY DEF Init
  <2> QED BY <2>1, <2>2, <2>3, ConfigTypes DEF PinInv, Pinning
<1>2. EngineInv /\ PinInv /\ [Next]_vars => EngineInv' /\ PinInv'
  BY EngineStep, PinStep DEF EngineInv
<1>3. PinInv => PinsSaved
  BY DEF PinInv, PinsSaved
<1> QED BY <1>1, <1>2, <1>3, PTL DEF Spec
=============================================================================
