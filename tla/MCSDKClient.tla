---------------------------- MODULE MCSDKClient ----------------------------
(***************************************************************************)
(* Small clients: as many sockets as a reconnect needs, as many requests   *)
(* as meet at the send lock, two games to mistake for each other.          *)
(***************************************************************************)
EXTENDS SDKClient, TLC

CONSTANTS r1, r2, s1, s2, loop, poultry, cattle

TwoRequests == {r1, r2}
TwoSockets  == {s1, s2}
TwoGames    == {poultry, cattle}
Loop        == {loop}
OneGame     == {cattle}

Alike == Permutations({r1, r2}) \cup Permutations({s1, s2}) \cup Permutations({poultry, cattle})
=============================================================================
