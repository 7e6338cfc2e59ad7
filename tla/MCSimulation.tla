---------------------------- MODULE MCSimulation ----------------------------
(***************************************************************************)
(* Three players and the donkeys: four auctions, each with a bonus, and    *)
(* the trades for what they leave apart.                                   *)
(***************************************************************************)
EXTENDS Simulation, TLC

CONSTANTS donkey

OneSpecies == {donkey}
ThreeIdentities == 1..3
Nothing == {}
=============================================================================
