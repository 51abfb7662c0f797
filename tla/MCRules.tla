------------------------------ MODULE MCRules ------------------------------
(* Model-checking instances of the rules: two rule files that give the     *)
(* same tag, one of which may fail, an inline rule behind a broken one.    *)
EXTENDS Rules, TLC

CONSTANTS low, high, inline, broken, t, u

TagsGiven == low :> {t} @@ high :> {t} @@ inline :> {u} @@ broken :> {u}
Priorities == low :> 0 @@ high :> 1 @@ inline :> 0 @@ broken :> 0
Lists == {<< >>, <<inline>>, <<broken, inline>>}
JobSymmetry == Permutations(Jobs)
=============================================================================
