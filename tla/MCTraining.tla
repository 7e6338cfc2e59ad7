----------------------------- MODULE MCTraining -----------------------------
(***************************************************************************)
(* Up to three steps with checkpoints after each, after two, or only at    *)
(* the end; fewer, as many and more seeds than the three goroutines.        *)
(***************************************************************************)
EXTENDS Training

SmallPlans ==
  [mode : {"train"}, steps : 1..3, every : 1..4, batch : 1..2, evals : 1..2, heldOut : {1}]
    \cup [mode : {"train"}, steps : {2}, every : {2}, batch : {3}, evals : {1}, heldOut : {4}]
    \cup [mode : {"evaluate"}, steps : {1}, every : {1}, batch : {1}, evals : {1}, heldOut : {3}]
=============================================================================
