----------------------------- MODULE MCArchive -----------------------------
(***************************************************************************)
(* Pages of one game, so that two games make a list of two pages.          *)
(***************************************************************************)
EXTENDS Archive, TLC

CONSTANTS a, b, l1, l2, s1, s2

TwoGames   == {a, b}
TwoLoads   == {l1, l2}
TwoSelects == {s1, s2}

Alike == Permutations({a, b}) \cup Permutations({s1, s2})
=============================================================================
