----------------------------- MODULE MCBrowser ------------------------------
(***************************************************************************)
(* Two directories, a tagged, an untagged and a hidden file, one tag, and  *)
(* for every scenario the actions a user may mix in it, how often he may   *)
(* call and how many answers may be outstanding.                           *)
(***************************************************************************)
EXTENDS Browser, TLC
CONSTANTS home, docs, a, b, dot, t
Place == (a :> home) @@ (b :> docs) @@ (dot :> home)
OneTagged == (a :> {t}) @@ (b :> {}) @@ (dot :> {})
Chips == {[tags |-> {t}, glob |-> TRUE, any |-> FALSE],
          [tags |-> {}, glob |-> TRUE, any |-> TRUE],
          [tags |-> {}, glob |-> FALSE, any |-> TRUE]}
Scenario(does, calls, atATime) == [does |-> does, calls |-> calls, pending |-> atATime]
Together == {
  Scenario({"go"}, 4, 2), Scenario({"go", "tags"}, 3, 2), Scenario({"go", "fail"}, 3, 2),
  Scenario({"search", "hidden", "index"}, 3, 2), Scenario({"search", "tags"}, 3, 2),
  Scenario({"search", "go", "fail"}, 2, 2), Scenario({"trash", "refresh", "show"}, 2, 2),
  Scenario({"trash", "refresh", "hidden", "search"}, 2, 2),
  Scenario({"go", "select", "delete"}, 3, 2), Scenario({"trash", "select", "delete", "fail"}, 3, 2)}
=============================================================================
