------------------------------ MODULE Training ------------------------------
(***************************************************************************)
(* The trainer of learning/: it asks the rollout worker to play batches of *)
(* games, takes a gradient step after each, and at every checkpoint lets   *)
(* the weights play the best so far on fresh seeds; a candidate that does  *)
(* worse is rolled back.  A held-out rollout ends the training, and only   *)
(* then anything is saved.                                                 *)
(*                                                                         *)
(* Weights are represented by the steps they contain, so is the state of   *)
(* the optimizer, and so is the baseline by the batches that moved it.     *)
(* The trainer is sequential: while it waits for an answer only the worker *)
(* runs, so whatever follows an answer up to the next request is one step. *)
(***************************************************************************)
EXTENDS Rollouts

CONSTANT Plans  \* the command lines: [mode, steps, every, batch, evals, heldOut]

Asked == [what : {"shape", "initial", "batch", "candidate", "incumbent", "held out"},
          seed : Nat, seeds : Nat]

ASSUME TrainingAssumption ==
  /\ Nil \notin Asked
  /\ Plans \subseteq [mode : {"train", "evaluate"}, steps : Nat \ {0}, every : Nat \ {0},
                      batch : Nat \ {0}, evals : Nat \ {0}, heldOut : Nat \ {0}]

VARIABLES
  plan,        \* the arguments
  asked,       \* the request that is out, with what for, or Nil
  step,
  weights, optimizer, baseline,
  bestWeights, bestStep,
  best,        \* the weights of the evaluation `best` holds
  candidate,   \* what the evaluation of the candidate gave, or Nil
  index,       \* checkpoint_index
  saved,       \* what was written to disk, or Nil
  outcome,     \* "running", "done" or "failed"
  earlier,     \* history: all earlier requests
  rejected     \* history: the steps that were rolled back

trainerVars == <<plan, step, weights, optimizer, baseline, bestWeights, bestStep, best,
                 candidate, index, saved, outcome, rejected>>
trainingVars == <<workerVars, trainerVars, asked, earlier>>

CheckpointSteps == {s \in 1..plan.steps : s % plan.every = 0} \cup {plan.steps}

TrainingSeed(s) == (s - 1) * plan.batch
ValidationSeed == plan.steps * plan.batch
CheckpointSeed(k) == ValidationSeed + k * plan.evals

\* A mistake for the checks to notice: the evaluation before the first step is forgotten.
SlipHeldOutSeed == CheckpointSeed(Cardinality(CheckpointSteps))
HeldOutSeed == CheckpointSeed(Cardinality(CheckpointSteps) + 1)

-----------------------------------------------------------------------------
(* Requests *)

\* _request writes a line; the answer is awaited by what handles it.
Ask(what, seed, seeds) ==
  /\ request' = [kind |-> IF what = "shape" THEN "shape" ELSE "rollout", seed |-> seed, seeds |-> seeds]
  /\ asked' = [what |-> what, seed |-> seed, seeds |-> seeds]
  /\ earlier' = IF asked = Nil THEN earlier ELSE earlier \cup {asked}
  /\ answer' = Nil
  /\ UNCHANGED <<batch, next, alive, jobs, results>>

Answered(what) ==
  outcome = "running" /\ asked # Nil /\ asked.what = what /\ answer # Nil /\ answer.error = "none"

AskForBatch(s) == Ask("batch", TrainingSeed(s), plan.batch)

\* Leaving the with block closes the worker's stdin and waits for it.
Leave(how) ==
  /\ outcome' = how
  /\ asked' = Nil /\ answer' = Nil
  /\ UNCHANGED <<request, batch, next, alive, jobs, results, earlier>>

-----------------------------------------------------------------------------
TrainingInit ==
  /\ WorkerInit
  /\ plan \in Plans /\ asked = Nil /\ step = 0
  /\ weights = {} /\ optimizer = {} /\ baseline = {}
  /\ bestWeights = {} /\ bestStep = 0 /\ best = {} /\ candidate = Nil /\ index = 0
  /\ saved = Nil /\ outcome = "running" /\ earlier = {} /\ rejected = {}

AskShape ==
  /\ outcome = "running" /\ asked = Nil
  /\ Ask("shape", 0, 0)
  /\ UNCHANGED trainerVars

\* The models are loaded, which may fail; evaluate plays the held-out games, train
\* evaluates what it begins with.
ShapeKnown ==
  /\ Answered("shape")
  /\ \/ Leave("failed")
     \/ plan.mode = "evaluate" /\ Ask("held out", 0, plan.heldOut) /\ UNCHANGED outcome
     \/ plan.mode = "train" /\ Ask("initial", ValidationSeed, plan.evals) /\ UNCHANGED outcome
  /\ UNCHANGED <<plan, step, weights, optimizer, baseline, bestWeights, bestStep, best,
                 candidate, index, saved, rejected>>

InitialKnown ==
  /\ Answered("initial")
  /\ step' = 1 /\ AskForBatch(1)
  /\ UNCHANGED <<plan, weights, optimizer, baseline, bestWeights, bestStep, best, candidate,
                 index, saved, outcome, rejected>>

\* policy_gradient and the step of the optimizer, which uses and updates its moments.
BatchKnown ==
  /\ Answered("batch")
  /\ optimizer' = optimizer \cup {step}
  /\ weights' = weights \cup optimizer' \cup baseline
  /\ baseline' = baseline \cup {step}
  /\ IF step \notin CheckpointSteps
     THEN step' = step + 1 /\ AskForBatch(step + 1) /\ UNCHANGED index
     ELSE /\ index' = index + 1
          /\ Ask("candidate", CheckpointSeed(index'), plan.evals)
          /\ UNCHANGED step
  /\ UNCHANGED <<plan, bestWeights, bestStep, best, candidate, saved, outcome, rejected>>

CandidateKnown ==
  /\ Answered("candidate")
  /\ candidate' = weights
  /\ Ask("incumbent", CheckpointSeed(index), plan.evals)
  /\ UNCHANGED <<plan, step, weights, optimizer, baseline, bestWeights, bestStep, best, index,
                 saved, outcome, rejected>>

Promote ==
  /\ best' = candidate /\ bestWeights' = weights /\ bestStep' = step
  /\ UNCHANGED <<weights, optimizer, baseline, rejected>>

\* A mistake for the checks to notice: the optimizer keeps its moments.
SlipRollBack ==
  /\ weights' = bestWeights /\ baseline' = {}
  /\ rejected' = rejected \cup (weights \ bestWeights)
  /\ UNCHANGED <<best, bestWeights, bestStep, optimizer>>

RollBack ==
  /\ weights' = bestWeights /\ optimizer' = {} /\ baseline' = {}
  /\ rejected' = rejected \cup (weights \ bestWeights)
  /\ UNCHANGED <<best, bestWeights, bestStep>>

\* reward_order: better, worse or equal.
IncumbentKnown ==
  /\ Answered("incumbent")
  /\ Promote \/ RollBack
       \/ UNCHANGED <<best, bestWeights, bestStep, weights, optimizer, baseline, rejected>>
  /\ candidate' = Nil
  /\ IF step < plan.steps THEN step' = step + 1 /\ AskForBatch(step + 1)
     ELSE Ask("held out", HeldOutSeed, plan.heldOut) /\ UNCHANGED step
  /\ UNCHANGED <<plan, index, saved, outcome>>

HeldOutKnown ==
  /\ Answered("held out")
  /\ saved' = IF plan.mode = "train" THEN [weights |-> bestWeights, step |-> bestStep, validation |-> best]
              ELSE Nil
  /\ Leave("done")
  /\ UNCHANGED <<plan, step, weights, optimizer, baseline, bestWeights, bestStep, best, candidate,
                 index, rejected>>

\* An error in an answer is raised, and ends it all.
Raise ==
  /\ outcome = "running" /\ answer # Nil /\ answer.error # "none"
  /\ Leave("failed")
  /\ UNCHANGED <<plan, step, weights, optimizer, baseline, bestWeights, bestStep, best, candidate,
                 index, saved, rejected>>

Train ==
  \/ AskShape \/ ShapeKnown \/ InitialKnown \/ BatchKnown \/ CandidateKnown
  \/ IncumbentKnown \/ HeldOutKnown \/ Raise

WorkerRuns == WorkerNext /\ UNCHANGED <<trainerVars, asked, earlier>>

TrainingNext == Train \/ WorkerRuns

TrainingSpec ==
  TrainingInit /\ [][TrainingNext]_trainingVars /\ WF_trainingVars(Train) /\ WorkerFairness

-----------------------------------------------------------------------------
(* Properties *)

\* A candidate and its incumbent play the same games; all other games of a training are
\* games of seeds not played before, the held-out ones above all.
FreshSeeds ==
  asked # Nil =>
    LET again == {e \in earlier : Seeds(e) \cap Seeds(asked) # {}}
    IN  /\ {e.what : e \in again} = IF asked.what = "incumbent" THEN {"candidate"} ELSE {}
        /\ \A e \in again : Seeds(e) = Seeds(asked)

\* The weights hold every step that was not rolled back and nothing else: no moment of
\* the optimizer and no baseline lets a rejected step through, and what is best, and
\* what is saved, are the weights of the step they are said to be of.
RejectedStepsLeaveNoTrace ==
  /\ weights \cap rejected = {} /\ optimizer \subseteq weights /\ baseline \subseteq weights
  /\ bestWeights = (1..bestStep) \ rejected /\ best = bestWeights
  /\ saved # Nil => saved.weights = (1..saved.step) \ rejected /\ saved.validation = saved.weights

\* Whatever the goroutines do first, an answer counts each seed of its request exactly
\* once and in its place, or tells of the first seed that failed.
EverySeedCountsOnce ==
  answer # Nil /\ asked # Nil /\ asked.what # "shape" =>
    CASE answer.error = "none"    -> answer.counted = [i \in 1..asked.seeds |-> asked.seed + i - 1]
      [] answer.error \in {"weights", "stopped"} -> answer.counted = <<>>
      [] answer.error = "seed"    ->
           /\ answer.at \in Seeds(asked)
           /\ \A i \in 0..(answer.at - asked.seed - 1) : results[i] # Nil /\ ~results[i].failed

\* Every request is answered: the training ends.
TrainingEnds == <>(outcome # "running")
=============================================================================
