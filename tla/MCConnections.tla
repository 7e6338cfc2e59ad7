--------------------------- MODULE MCConnections ---------------------------
(***************************************************************************)
(* Three connections of two players are enough for one to publish, one to  *)
(* receive and one to replace another; three versions for a room, a second *)
(* player and a command.                                                   *)
(***************************************************************************)
EXTENDS Connections, TLC

CONSTANTS p1, p2, p3, x1, x2

\* Connections are alike, and so are players.
Symmetric  == Permutations({p1, p2, p3}) \cup Permutations({x1, x2})
Symmetric2 == Permutations({p1, p2}) \cup Permutations({x1, x2})
=============================================================================
