--------------------------- MODULE MCGameRuntime ---------------------------
(***************************************************************************)
(* A game in which two kinds of moves alternate, so that a command decided *)
(* on a stale aggregate is likely to be illegal where it lands.            *)
(***************************************************************************)
EXTENDS GameRuntime, TLC

CONSTANTS old, new, h1, h2

create == [id |-> 0, act |-> "b"]
Retried  == {create, [id |-> 1, act |-> "a"], [id |-> 2, act |-> "a"], [id |-> 2, act |-> "b"]}
OneEach  == {create, [id |-> 1, act |-> "a"], [id |-> 2, act |-> "b"]}

Alternates(game) == \A n \in 2..Len(game) : game[n].act # game[n - 1].act

GamesOf(commands) ==
  {game \in UNION {[1..n -> commands] : n \in 1..4} : game[1] = create /\ Alternates(game)}

RetriedGames == GamesOf(Retried)
OneEachGames == GamesOf(OneEach)

OneProcess   == {new}
TwoProcesses == {old, new}
BothAtNew == [h \in {h1, h2} |-> new]
Overlap   == [h \in {h1, h2} |-> IF h = h1 THEN old ELSE new]

\* The processes, each with its handler, are alike.
SwapProcesses == {[x \in {old, new, h1, h2} |-> x],
                  [x \in {old, new, h1, h2} |-> CASE x = old -> new [] x = new -> old
                                                  [] x = h1 -> h2 [] x = h2 -> h1]}
=============================================================================
