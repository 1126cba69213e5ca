------------------------------- MODULE MCDesktop -------------------------------
(* TLC instance of Desktop.  No symmetry: liveness properties are checked.    *)
EXTENDS Desktop, TLC

CONSTANTS r1, r2, r3, r4, s1, s2

MCQuestions == {r1, r2, r3, r4}
MCSessions == {s1, s2}
MCSessionOf == r1 :> s1 @@ r2 :> s1 @@ r3 :> s2 @@ r4 :> s2
==============================================================================
