--------------------------- MODULE TrainingProofs ---------------------------
(***************************************************************************)
(* Whatever the command line, with any number of goroutines: the seeds of  *)
(* the requests stay apart, a rejected step leaves no trace, and a rollout *)
(* counts every seed once.                                                 *)
(***************************************************************************)
EXTENDS Training, FiniteSetTheorems, TLAPS

USE TrainingAssumption

-----------------------------------------------------------------------------
(* The steps in the weights *)

Running == outcome = "running"

TrainerType ==
  /\ plan \in Plans /\ asked \in Asked \cup {Nil}
  /\ step \in Nat /\ bestStep \in Nat /\ index \in Nat

Done == IF asked # Nil /\ asked.what = "batch" THEN step - 1 ELSE step

PhaseInv ==
  Running =>
    /\ asked = Nil \/ asked.what \in {"shape", "initial"} => step = 0
    /\ asked # Nil /\ asked.what = "batch" => step > 0
    /\ asked # Nil /\ asked.what = "incumbent" => candidate = weights

LineageInv ==
  Running =>
    /\ rejected \subseteq 1..Done
    /\ weights = (1..Done) \ rejected
    /\ bestStep <= Done
    /\ saved = Nil

StepsInv == TrainerType /\ PhaseInv /\ LineageInv /\ RejectedStepsLeaveNoTrace

\* The numbers of a command line are positive.
LEMMA PlanType ==
  ASSUME NEW p \in Plans
  PROVE  /\ p.steps \in Nat \ {0} /\ p.every \in Nat \ {0} /\ p.batch \in Nat \ {0}
         /\ p.evals \in Nat \ {0} /\ p.heldOut \in Nat \ {0}
  OBVIOUS

\* Products of naturals are natural.
LEMMA TimesNat ==
  ASSUME NEW a \in Nat, NEW b \in Nat
  PROVE  a * b \in Nat
  OBVIOUS

\* There are finitely many checkpoints, the last step among them.
LEMMA CheckpointStepsFinite ==
  ASSUME plan \in Plans
  PROVE  /\ IsFiniteSet(CheckpointSteps) /\ Cardinality(CheckpointSteps) \in Nat
         /\ CheckpointSteps \subseteq 1..plan.steps /\ plan.steps \in CheckpointSteps
<1>1. plan.steps \in Nat \ {0} BY PlanType
<1>2. IsFiniteSet(1..plan.steps) BY <1>1, FS_Interval
<1>3. CheckpointSteps \subseteq 1..plan.steps BY <1>1 DEF CheckpointSteps
<1>4. IsFiniteSet(CheckpointSteps) BY <1>2, <1>3, FS_Subset
<1> QED BY <1>3, <1>4, FS_CardinalityType DEF CheckpointSteps

\* No range begins below zero.
LEMMA SeedsAreNatural ==
  ASSUME plan \in Plans
  PROVE  /\ \A s \in Nat \ {0} : TrainingSeed(s) \in Nat
         /\ ValidationSeed \in Nat
         /\ \A k \in Nat : CheckpointSeed(k) \in Nat
         /\ HeldOutSeed \in Nat
<1>1. /\ plan.steps \in Nat /\ plan.batch \in Nat /\ plan.evals \in Nat BY PlanType
<1>2. \A s \in Nat \ {0} : TrainingSeed(s) \in Nat
  <2> SUFFICES ASSUME NEW s \in Nat \ {0} PROVE TrainingSeed(s) \in Nat OBVIOUS
  <2>1. s - 1 \in Nat OBVIOUS
  <2> QED BY <1>1, <2>1, TimesNat DEF TrainingSeed
<1>3. ValidationSeed \in Nat BY <1>1, TimesNat DEF ValidationSeed
<1>4. ASSUME NEW k \in Nat PROVE CheckpointSeed(k) \in Nat
  <2>1. k * plan.evals \in Nat BY <1>1, TimesNat
  <2> QED BY <1>3, <2>1 DEF CheckpointSeed
<1>5. Cardinality(CheckpointSteps) + 1 \in Nat BY CheckpointStepsFinite
<1> QED BY <1>2, <1>3, <1>4, <1>5 DEF HeldOutSeed

\* What is asked for is well-typed.
LEMMA AskType ==
  ASSUME NEW what \in {"shape", "initial", "batch", "candidate", "incumbent", "held out"},
         NEW seed \in Nat, NEW seeds \in Nat, Ask(what, seed, seeds)
  PROVE  /\ asked' \in Asked /\ asked' # Nil
         /\ asked'.what = what /\ asked'.seed = seed /\ asked'.seeds = seeds
<1>1. asked' = [what |-> what, seed |-> seed, seeds |-> seeds] BY DEF Ask
<1>2. [what |-> what, seed |-> seed, seeds |-> seeds] \in Asked BY DEF Asked
<1>3. asked' \in Asked BY <1>1, <1>2
<1>4. asked' # Nil BY <1>3
<1>5. asked'.what = what /\ asked'.seed = seed /\ asked'.seeds = seeds BY <1>1
<1> QED BY <1>3, <1>4, <1>5

USE DEF Running

\* No step is in anything yet.
LEMMA StepsInitially == TrainingInit => StepsInv
<1> SUFFICES ASSUME TrainingInit PROVE StepsInv OBVIOUS
<1>1. TrainerType BY DEF TrainingInit, TrainerType
<1>2. PhaseInv BY DEF TrainingInit, PhaseInv
<1>3. Done = 0 BY DEF TrainingInit, Done
<1>4. LineageInv BY <1>3 DEF TrainingInit, LineageInv
<1>5. RejectedStepsLeaveNoTrace BY DEF TrainingInit, RejectedStepsLeaveNoTrace
<1> QED BY <1>1, <1>2, <1>4, <1>5 DEF StepsInv

\* What concerns the worker alone does not disturb the steps.
LEMMA StepsUntouched ==
  ASSUME StepsInv, UNCHANGED <<trainerVars, asked>>
  PROVE  StepsInv'
<1>1. TrainerType' BY DEF StepsInv, TrainerType, trainerVars
<1>2. PhaseInv' BY DEF StepsInv, PhaseInv, trainerVars
<1>3. LineageInv' BY DEF StepsInv, LineageInv, Done, trainerVars
<1>4. RejectedStepsLeaveNoTrace' BY DEF StepsInv, RejectedStepsLeaveNoTrace, trainerVars
<1> QED BY <1>1, <1>2, <1>3, <1>4 DEF StepsInv

\* Leaving, without having saved.
LEMMA StepsLeft ==
  ASSUME StepsInv, NEW how, how # "running", Leave(how),
         UNCHANGED <<plan, step, weights, optimizer, baseline, bestWeights, bestStep, best,
                     index, rejected>>,
         saved' = Nil \/ saved' = saved
                \/ saved' = [weights |-> bestWeights, step |-> bestStep, validation |-> best]
  PROVE  StepsInv'
<1>1. asked' = Nil /\ outcome' = how BY DEF Leave
<1>2. TrainerType' BY <1>1 DEF StepsInv, TrainerType
<1>3. PhaseInv' BY <1>1 DEF PhaseInv
<1>4. LineageInv' BY <1>1 DEF LineageInv
<1>5. RejectedStepsLeaveNoTrace'
  <2>1. RejectedStepsLeaveNoTrace BY DEF StepsInv
  <2>2. bestWeights = (1..bestStep) \ rejected /\ best = bestWeights
    BY <2>1, Zenon DEF RejectedStepsLeaveNoTrace
  <2>3. ASSUME saved' # Nil
        PROVE  saved'.weights = (1..saved'.step) \ rejected /\ saved'.validation = saved'.weights
    <3>1. CASE saved' = saved BY <2>1, <2>3, <3>1, Zenon DEF RejectedStepsLeaveNoTrace
    <3>2. CASE saved' = [weights |-> bestWeights, step |-> bestStep, validation |-> best]
      <4>1. saved'.weights = bestWeights /\ saved'.step = bestStep /\ saved'.validation = best
        BY <3>2
      <4> QED BY <2>2, <4>1, Zenon
    <3> QED BY <2>3, <3>1, <3>2
  <2> QED BY <2>1, <2>3, Zenon DEF RejectedStepsLeaveNoTrace
<1> QED BY <1>2, <1>3, <1>4, <1>5 DEF StepsInv

\* A batch is out for a step from the first on.
LEMMA DoneIsNatural ==
  ASSUME TrainerType, PhaseInv, Running
  PROVE  Done \in Nat
<1>1. step \in Nat BY DEF TrainerType
<1>2. CASE asked # Nil /\ asked.what = "batch"
  <2>1. step > 0 BY <1>2 DEF PhaseInv
  <2>2. Done = step - 1 BY <1>2 DEF Done
  <2> QED BY <1>1, <2>1, <2>2
<1>3. CASE ~(asked # Nil /\ asked.what = "batch")
  BY <1>1, <1>3 DEF Done
<1> QED BY <1>2, <1>3

\* Asking for something else with the weights as they are.
LEMMA StepsAsked ==
  ASSUME StepsInv, Running,
         NEW what \in {"shape", "initial", "batch", "candidate", "incumbent", "held out"},
         NEW seed \in Nat, NEW seeds \in Nat, Ask(what, seed, seeds),
         UNCHANGED <<plan, weights, optimizer, baseline, bestWeights, bestStep, best, index,
                     saved, outcome, rejected>>,
         what = "batch" => step' = Done + 1,
         what # "batch" => step' = Done,
         what \in {"shape", "initial"} => step' = 0,
         what = "incumbent" => candidate' = weights
  PROVE  StepsInv'
<1>1. /\ asked' \in Asked /\ asked' # Nil /\ asked'.what = what
  BY AskType
<1>3. Done \in Nat
  BY DoneIsNatural DEF StepsInv
<1> DEFINE done == Done
<1>2. step' \in Nat /\ done \in Nat /\ Done' = done
  <2>1. CASE what = "batch" BY <1>1, <1>3, <2>1 DEF Done
  <2>2. CASE what # "batch" BY <1>1, <1>3, <2>2 DEF Done
  <2> QED BY <2>1, <2>2
<1>4. TrainerType' BY <1>1, <1>2 DEF StepsInv, TrainerType
<1>5. PhaseInv'
  <2>1. asked'.what \in {"shape", "initial"} => step' = 0 BY <1>1
  <2>2. asked'.what = "batch" => step' > 0 BY <1>1, <1>3
  <2>3. asked'.what = "incumbent" => candidate' = weights' BY <1>1
  <2> QED BY <1>1, <2>1, <2>2, <2>3 DEF PhaseInv
<1>6. LineageInv' BY <1>2 DEF StepsInv, LineageInv
<1>7. RejectedStepsLeaveNoTrace' BY DEF StepsInv, RejectedStepsLeaveNoTrace
<1> QED BY <1>4, <1>5, <1>6, <1>7 DEF StepsInv

\* After a batch the step that was just played is in the weights.
LEMMA BatchKnownSteps ==
  ASSUME StepsInv, BatchKnown
  PROVE  StepsInv'
<1>1. /\ plan \in Plans /\ step \in Nat /\ bestStep \in Nat /\ index \in Nat
      /\ asked \in Asked /\ asked # Nil /\ asked.what = "batch" /\ Running
  BY DEF BatchKnown, Answered, StepsInv, TrainerType
<1>2. step > 0
  BY <1>1 DEF StepsInv, PhaseInv
<1>3. Done = step - 1
  BY <1>1 DEF Done
<1>4. /\ rejected \subseteq 1..(step - 1) /\ weights = (1..(step - 1)) \ rejected
      /\ bestStep <= step - 1 /\ saved = Nil
  BY <1>1, <1>3 DEF StepsInv, LineageInv
<1>5. optimizer \subseteq weights /\ baseline \subseteq weights
  BY DEF StepsInv, RejectedStepsLeaveNoTrace
<1>6. weights' = weights \cup {step}
  BY <1>5 DEF BatchKnown
<1>7. 1..step = (1..(step - 1)) \cup {step}
  BY <1>1, <1>2
<1>8. weights' = (1..step) \ rejected
  BY <1>1, <1>4, <1>6, <1>7
<1>9. /\ UNCHANGED <<plan, bestWeights, bestStep, best, candidate, saved, outcome, rejected>>
      /\ optimizer' = optimizer \cup {step} /\ baseline' = baseline \cup {step}
  BY DEF BatchKnown
<1>10. RejectedStepsLeaveNoTrace'
  <2>1. weights' \cap rejected' = {} BY <1>8, <1>9
  <2>2. optimizer' \subseteq weights' /\ baseline' \subseteq weights' BY <1>5, <1>6, <1>9
  <2> QED BY <1>9, <2>1, <2>2 DEF StepsInv, RejectedStepsLeaveNoTrace
<1>11. plan.batch \in Nat /\ plan.evals \in Nat
  BY <1>1, PlanType
<1>12. CASE step \notin CheckpointSteps
  <2>1. /\ step' = step + 1 /\ index' = index
        /\ Ask("batch", TrainingSeed(step + 1), plan.batch)
    BY <1>12 DEF BatchKnown, AskForBatch
  <2>2. TrainingSeed(step + 1) \in Nat
    BY <1>1, SeedsAreNatural
  <2>3. asked' \in Asked /\ asked' # Nil /\ asked'.what = "batch"
    BY <1>11, <2>1, <2>2, AskType
  <2>4. Done' = step
    BY <1>1, <2>1, <2>3 DEF Done
  <2>5. TrainerType' BY <1>1, <1>9, <2>1, <2>3 DEF TrainerType
  <2>6. PhaseInv' BY <1>1, <2>1, <2>3 DEF PhaseInv
  <2>7. LineageInv' BY <1>1, <1>4, <1>7, <1>8, <1>9, <2>4 DEF LineageInv
  <2> QED BY <1>10, <2>5, <2>6, <2>7 DEF StepsInv
<1>13. CASE step \in CheckpointSteps
  <2>1. /\ step' = step /\ index' = index + 1
        /\ Ask("candidate", CheckpointSeed(index + 1), plan.evals)
    BY <1>13 DEF BatchKnown
  <2>2. CheckpointSeed(index + 1) \in Nat
    BY <1>1, SeedsAreNatural
  <2>3. asked' \in Asked /\ asked' # Nil /\ asked'.what = "candidate"
    BY <1>11, <2>1, <2>2, AskType
  <2>4. Done' = step
    BY <2>1, <2>3 DEF Done
  <2>5. TrainerType' BY <1>1, <1>9, <2>1, <2>3 DEF TrainerType
  <2>6. PhaseInv' BY <1>1, <2>1, <2>3 DEF PhaseInv
  <2>7. LineageInv' BY <1>1, <1>4, <1>7, <1>8, <1>9, <2>4 DEF LineageInv
  <2> QED BY <1>10, <2>5, <2>6, <2>7 DEF StepsInv
<1> QED BY <1>12, <1>13

\* The comparison: whatever is made of it, it leaves the weights of the steps that were
\* not rejected.
LEMMA ComparedSteps ==
  ASSUME StepsInv, Running, asked # Nil, asked.what = "incumbent",
         Promote \/ RollBack
           \/ UNCHANGED <<best, bestWeights, bestStep, weights, optimizer, baseline, rejected>>,
         UNCHANGED saved
  PROVE  /\ RejectedStepsLeaveNoTrace'
         /\ rejected' \subseteq 1..step /\ weights' = (1..step) \ rejected'
         /\ bestStep' \in Nat /\ bestStep' <= step
<1>1. /\ step \in Nat /\ bestStep \in Nat /\ Done = step /\ candidate = weights
  BY DEF StepsInv, TrainerType, PhaseInv, Done
<1>2. /\ rejected \subseteq 1..step /\ weights = (1..step) \ rejected
      /\ bestStep <= step /\ saved = Nil
  BY <1>1 DEF StepsInv, LineageInv
<1>3. /\ weights \cap rejected = {} /\ optimizer \subseteq weights /\ baseline \subseteq weights
      /\ bestWeights = (1..bestStep) \ rejected /\ best = bestWeights
  BY DEF StepsInv, RejectedStepsLeaveNoTrace
<1>4. saved' = Nil BY <1>2
<1>5. CASE Promote
  <2>1. /\ best' = weights /\ bestWeights' = weights /\ bestStep' = step
        /\ weights' = weights /\ rejected' = rejected
        /\ optimizer' = optimizer /\ baseline' = baseline
    BY <1>1, <1>5 DEF Promote
  <2>2. RejectedStepsLeaveNoTrace'
    BY <1>2, <1>3, <1>4, <2>1 DEF RejectedStepsLeaveNoTrace
  <2> QED BY <1>1, <1>2, <2>1, <2>2
<1>6. CASE RollBack
  <2>1. /\ weights' = bestWeights /\ optimizer' = {} /\ baseline' = {}
        /\ rejected' = rejected \cup (weights \ bestWeights)
        /\ best' = best /\ bestWeights' = bestWeights /\ bestStep' = bestStep
    BY <1>6 DEF RollBack
  <2>2. 1..bestStep \subseteq 1..step
    BY <1>1, <1>2
  <2>3. /\ bestWeights = (1..bestStep) \ rejected' /\ bestWeights = (1..step) \ rejected'
        /\ rejected' \subseteq 1..step
    BY <1>2, <1>3, <2>1, <2>2
  <2>4. RejectedStepsLeaveNoTrace'
    BY <1>3, <1>4, <2>1, <2>3 DEF RejectedStepsLeaveNoTrace
  <2> QED BY <1>1, <1>2, <2>1, <2>3, <2>4
<1>7. CASE UNCHANGED <<best, bestWeights, bestStep, weights, optimizer, baseline, rejected>>
  <2>1. RejectedStepsLeaveNoTrace'
    BY <1>3, <1>4, <1>7 DEF RejectedStepsLeaveNoTrace
  <2> QED BY <1>1, <1>2, <1>7, <2>1
<1> QED BY <1>5, <1>6, <1>7

\* Then the next batch is asked for, or the held-out games are.
LEMMA IncumbentKnownSteps ==
  ASSUME StepsInv, IncumbentKnown
  PROVE  StepsInv'
<1>1. /\ plan \in Plans /\ step \in Nat /\ index \in Nat
      /\ asked \in Asked /\ asked # Nil /\ asked.what = "incumbent" /\ Running
  BY DEF IncumbentKnown, Answered, StepsInv, TrainerType
<1>2. Done = step
  BY <1>1 DEF Done
<1>3. UNCHANGED <<plan, index, saved, outcome>>
  BY DEF IncumbentKnown
<1>4. saved = Nil
  BY <1>1 DEF StepsInv, LineageInv
<1>5. /\ RejectedStepsLeaveNoTrace'
      /\ rejected' \subseteq 1..step /\ weights' = (1..step) \ rejected'
      /\ bestStep' \in Nat /\ bestStep' <= step
  <2>1. Promote \/ RollBack
          \/ UNCHANGED <<best, bestWeights, bestStep, weights, optimizer, baseline, rejected>>
    BY DEF IncumbentKnown
  <2> QED BY <1>1, <1>3, <2>1, ComparedSteps
<1>6. plan.batch \in Nat /\ plan.heldOut \in Nat
  BY <1>1, PlanType
<1>7. CASE step < plan.steps
  <2>1. step' = step + 1 /\ Ask("batch", TrainingSeed(step + 1), plan.batch)
    BY <1>7 DEF IncumbentKnown, AskForBatch
  <2>2. TrainingSeed(step + 1) \in Nat
    BY <1>1, SeedsAreNatural
  <2>3. asked' \in Asked /\ asked' # Nil /\ asked'.what = "batch"
    BY <1>6, <2>1, <2>2, AskType
  <2>4. Done' = step
    BY <1>1, <2>1, <2>3 DEF Done
  <2>5. TrainerType' BY <1>1, <1>3, <1>5, <2>1, <2>3 DEF TrainerType
  <2>6. PhaseInv' BY <1>1, <2>1, <2>3 DEF PhaseInv
  <2>7. LineageInv' BY <1>3, <1>4, <1>5, <2>4 DEF LineageInv
  <2> QED BY <1>5, <2>5, <2>6, <2>7 DEF StepsInv
<1>8. CASE ~(step < plan.steps)
  <2>1. step' = step /\ Ask("held out", HeldOutSeed, plan.heldOut)
    BY <1>8 DEF IncumbentKnown
  <2>2. HeldOutSeed \in Nat
    BY <1>1, SeedsAreNatural
  <2>3. asked' \in Asked /\ asked' # Nil /\ asked'.what = "held out"
    BY <1>6, <2>1, <2>2, AskType
  <2>4. Done' = step
    BY <2>1, <2>3 DEF Done
  <2>5. TrainerType' BY <1>1, <1>3, <1>5, <2>1, <2>3 DEF TrainerType
  <2>6. PhaseInv' BY <1>1, <2>1, <2>3 DEF PhaseInv
  <2>7. LineageInv' BY <1>3, <1>4, <1>5, <2>4 DEF LineageInv
  <2> QED BY <1>5, <2>5, <2>6, <2>7 DEF StepsInv
<1> QED BY <1>7, <1>8

\* Every step of the trainer keeps track of the steps in the weights.
LEMMA StepsPreserved ==
  StepsInv /\ [TrainingNext]_trainingVars => StepsInv'
<1> SUFFICES ASSUME StepsInv, [TrainingNext]_trainingVars PROVE StepsInv' OBVIOUS
<1>1. plan \in Plans /\ index \in Nat /\ step \in Nat
  BY DEF StepsInv, TrainerType
<1>2. /\ plan.steps \in Nat /\ plan.batch \in Nat /\ plan.evals \in Nat /\ plan.heldOut \in Nat
  BY <1>1, PlanType
<1>3. CASE AskShape
  <2>1. /\ Running /\ asked = Nil /\ Ask("shape", 0, 0) /\ UNCHANGED trainerVars
    BY <1>3 DEF AskShape
  <2>2. step = 0 /\ Done = 0
    BY <2>1 DEF StepsInv, PhaseInv, Done
  <2> QED BY <2>1, <2>2, StepsAsked DEF trainerVars
<1>4. CASE ShapeKnown
  <2>1. /\ Running /\ asked # Nil /\ asked.what = "shape"
        /\ UNCHANGED <<plan, step, weights, optimizer, baseline, bestWeights, bestStep, best,
                       candidate, index, saved, rejected>>
    BY <1>4 DEF ShapeKnown, Answered
  <2>2. step = 0 /\ Done = 0
    BY <2>1 DEF StepsInv, PhaseInv, Done
  <2>3. CASE Leave("failed")
    BY <2>1, <2>3, StepsLeft
  <2>4. CASE Ask("held out", 0, plan.heldOut) /\ UNCHANGED outcome
    BY <1>2, <2>1, <2>2, <2>4, StepsAsked
  <2>5. CASE Ask("initial", ValidationSeed, plan.evals) /\ UNCHANGED outcome
    <3>1. ValidationSeed \in Nat BY <1>1, SeedsAreNatural
    <3> QED BY <1>2, <2>1, <2>2, <2>5, <3>1, StepsAsked
  <2> QED BY <1>4, <2>3, <2>4, <2>5 DEF ShapeKnown
<1>5. CASE InitialKnown
  <2>1. /\ Running /\ asked # Nil /\ asked.what = "initial"
        /\ step' = 1 /\ Ask("batch", TrainingSeed(1), plan.batch)
        /\ UNCHANGED <<plan, weights, optimizer, baseline, bestWeights, bestStep, best,
                       candidate, index, saved, outcome, rejected>>
    BY <1>5 DEF InitialKnown, Answered, AskForBatch
  <2>2. Done = 0
    BY <2>1 DEF StepsInv, PhaseInv, Done
  <2>3. TrainingSeed(1) \in Nat
    BY <1>1, SeedsAreNatural
  <2> QED BY <1>2, <2>1, <2>2, <2>3, StepsAsked
<1>6. CASE BatchKnown
  BY <1>6, BatchKnownSteps
<1>7. CASE CandidateKnown
  <2>1. /\ Running /\ asked # Nil /\ asked.what = "candidate"
        /\ candidate' = weights /\ Ask("incumbent", CheckpointSeed(index), plan.evals)
        /\ UNCHANGED <<plan, step, weights, optimizer, baseline, bestWeights, bestStep, best,
                       index, saved, outcome, rejected>>
    BY <1>7 DEF CandidateKnown, Answered
  <2>2. Done = step
    BY <2>1 DEF Done
  <2>3. CheckpointSeed(index) \in Nat
    BY <1>1, SeedsAreNatural
  <2> QED BY <1>2, <2>1, <2>2, <2>3, StepsAsked
<1>8. CASE IncumbentKnown
  BY <1>8, IncumbentKnownSteps
<1>9. CASE HeldOutKnown
  <2>1. /\ Leave("done")
        /\ UNCHANGED <<plan, step, weights, optimizer, baseline, bestWeights, bestStep, best,
                       candidate, index, rejected>>
        /\ \/ saved' = Nil
           \/ saved' = [weights |-> bestWeights, step |-> bestStep, validation |-> best]
    BY <1>9 DEF HeldOutKnown
  <2> QED BY <2>1, StepsLeft
<1>10. CASE Raise
  <2>1. /\ Leave("failed")
        /\ UNCHANGED <<plan, step, weights, optimizer, baseline, bestWeights, bestStep, best,
                       candidate, index, saved, rejected>>
    BY <1>10 DEF Raise
  <2> QED BY <2>1, StepsLeft
<1>11. CASE WorkerRuns \/ UNCHANGED trainingVars
  BY <1>11, StepsUntouched DEF WorkerRuns, trainingVars
<1> QED
  BY <1>3, <1>4, <1>5, <1>6, <1>7, <1>8, <1>9, <1>10, <1>11 DEF TrainingNext, Train

\* No step that was rolled back leaves a trace, in whatever plan of training.
THEOREM RejectedStepsAreGone == TrainingSpec => []RejectedStepsLeaveNoTrace
<1>1. StepsInv => RejectedStepsLeaveNoTrace BY DEF StepsInv
<1> QED BY <1>1, StepsInitially, StepsPreserved, PTL DEF TrainingSpec
-----------------------------------------------------------------------------
(* The seeds of a rollout *)

WorkerType ==
  /\ asked \in Asked \cup {Nil} /\ request \in Request \cup {Nil} /\ batch \in Request \cup {Nil}
  /\ next \in Nat /\ jobs \in [Goroutines -> Nat \cup {Nil}]

AsAsked(r) == asked # Nil /\ r.seed = asked.seed /\ r.seeds = asked.seeds

RequestInv ==
  request # Nil =>
    /\ batch = Nil /\ answer = Nil
    /\ AsAsked(request) /\ (request.kind = "shape" <=> asked.what = "shape")

\* What was sent over the channel was played or is being played.
BatchInv ==
  batch # Nil =>
    /\ answer = Nil /\ AsAsked(batch) /\ next <= batch.seeds
    /\ results \in [0..(batch.seeds - 1) -> Played \cup {Nil}]
    /\ \A i \in 0..(batch.seeds - 1) : results[i] # Nil => results[i].seed = batch.seed + i
    /\ \A i \in 0..(batch.seeds - 1) :
         i < next => results[i] # Nil \/ \E g \in Goroutines : jobs[g] = i
    /\ \A g \in Goroutines : jobs[g] # Nil => g \in alive /\ jobs[g] < next

IdleInv == batch = Nil => \A g \in Goroutines : jobs[g] = Nil

RolloutInv == WorkerType /\ RequestInv /\ BatchInv /\ IdleInv /\ EverySeedCountsOnce

\* Nil is none of the values a variable holds beside it.
LEMMA NilIsApart == Nil \notin Nat /\ Nil \notin Played /\ Nil \notin Asked
  BY RolloutsAssumption

\* Nothing is asked, played or answered yet.
LEMMA RolloutInitially == TrainingInit => RolloutInv
<1> SUFFICES ASSUME TrainingInit PROVE RolloutInv OBVIOUS
<1>1. WorkerType BY DEF TrainingInit, WorkerInit, WorkerType
<1>2. RequestInv BY DEF TrainingInit, WorkerInit, RequestInv
<1>3. BatchInv BY DEF TrainingInit, WorkerInit, BatchInv
<1>4. IdleInv BY DEF TrainingInit, WorkerInit, IdleInv
<1>5. EverySeedCountsOnce BY DEF TrainingInit, WorkerInit, EverySeedCountsOnce
<1> QED BY <1>1, <1>2, <1>3, <1>4, <1>5 DEF RolloutInv

\* Only an idle worker is asked.
LEMMA RolloutAsked ==
  ASSUME RolloutInv, asked = Nil \/ answer # Nil,
         NEW what \in {"shape", "initial", "batch", "candidate", "incumbent", "held out"},
         NEW seed \in Nat, NEW seeds \in Nat, Ask(what, seed, seeds)
  PROVE  RolloutInv'
<1>1. /\ asked' \in Asked /\ asked' # Nil
      /\ asked'.what = what /\ asked'.seed = seed /\ asked'.seeds = seeds
  BY AskType
<1> DEFINE r == [kind |-> IF what = "shape" THEN "shape" ELSE "rollout",
                 seed |-> seed, seeds |-> seeds]
<1>2. request' = r /\ answer' = Nil /\ UNCHANGED <<batch, next, alive, jobs, results>>
  BY DEF Ask
<1>3. r \in Request /\ r.seed = seed /\ r.seeds = seeds /\ (r.kind = "shape" <=> what = "shape")
  BY DEF Request
<1>4. batch = Nil
  BY DEF RolloutInv, BatchInv, AsAsked
<1> HIDE DEF r
<1>5. WorkerType' BY <1>1, <1>2, <1>3 DEF RolloutInv, WorkerType
<1>6. RequestInv' BY <1>1, <1>2, <1>3, <1>4 DEF RequestInv, AsAsked
<1>7. BatchInv' BY <1>2, <1>4 DEF BatchInv
<1>8. IdleInv' BY <1>2, <1>4 DEF RolloutInv, IdleInv
<1>9. EverySeedCountsOnce' BY <1>2 DEF EverySeedCountsOnce
<1> QED BY <1>5, <1>6, <1>7, <1>8, <1>9 DEF RolloutInv

\* The worker that is left is idle, and stays so.
LEMMA RolloutLeft ==
  ASSUME RolloutInv, answer # Nil, NEW how, Leave(how)
  PROVE  RolloutInv'
<1>1. asked' = Nil /\ answer' = Nil /\ UNCHANGED <<request, batch, next, alive, jobs, results>>
  BY DEF Leave
<1>2. batch = Nil /\ request = Nil
  BY DEF RolloutInv, BatchInv, RequestInv
<1>3. WorkerType' BY <1>1 DEF RolloutInv, WorkerType
<1>4. RequestInv' BY <1>1, <1>2 DEF RequestInv
<1>5. BatchInv' BY <1>1, <1>2 DEF BatchInv
<1>6. IdleInv' BY <1>1, <1>2 DEF RolloutInv, IdleInv
<1>7. EverySeedCountsOnce' BY <1>1 DEF EverySeedCountsOnce
<1> QED BY <1>3, <1>4, <1>5, <1>6, <1>7 DEF RolloutInv

\* Whatever the trainer does with an answer, it asks or leaves an idle worker.
LEMMA TrainKeepsRollout ==
  ASSUME StepsInv, RolloutInv, Train
  PROVE  RolloutInv'
<1>1. plan \in Plans /\ index \in Nat /\ step \in Nat
  BY DEF StepsInv, TrainerType
<1>2. /\ plan.batch \in Nat /\ plan.evals \in Nat /\ plan.heldOut \in Nat
  BY <1>1, PlanType
<1>3. /\ ValidationSeed \in Nat /\ HeldOutSeed \in Nat
      /\ CheckpointSeed(index) \in Nat /\ CheckpointSeed(index + 1) \in Nat
      /\ TrainingSeed(1) \in Nat /\ TrainingSeed(step + 1) \in Nat
  BY <1>1, SeedsAreNatural
<1>4. CASE AskShape
  <2>1. asked = Nil /\ Ask("shape", 0, 0) BY <1>4 DEF AskShape
  <2> QED BY <2>1, RolloutAsked
<1>5. CASE ShapeKnown
  <2>1. answer # Nil BY <1>5 DEF ShapeKnown, Answered
  <2>2. CASE Leave("failed") BY <2>1, <2>2, RolloutLeft
  <2>3. CASE Ask("held out", 0, plan.heldOut) BY <1>2, <2>1, <2>3, RolloutAsked
  <2>4. CASE Ask("initial", ValidationSeed, plan.evals) BY <1>2, <1>3, <2>1, <2>4, RolloutAsked
  <2> QED BY <1>5, <2>2, <2>3, <2>4 DEF ShapeKnown
<1>6. CASE InitialKnown
  <2>1. answer # Nil /\ Ask("batch", TrainingSeed(1), plan.batch)
    BY <1>6 DEF InitialKnown, Answered, AskForBatch
  <2> QED BY <1>2, <1>3, <2>1, RolloutAsked
<1>7. CASE BatchKnown
  <2>1. answer # Nil BY <1>7 DEF BatchKnown, Answered
  <2>2. CASE step \notin CheckpointSteps
    <3>1. Ask("batch", TrainingSeed(step + 1), plan.batch)
      BY <1>7, <2>2 DEF BatchKnown, AskForBatch
    <3> QED BY <1>2, <1>3, <2>1, <3>1, RolloutAsked
  <2>3. CASE step \in CheckpointSteps
    <3>1. Ask("candidate", CheckpointSeed(index + 1), plan.evals)
      BY <1>7, <2>3 DEF BatchKnown
    <3> QED BY <1>2, <1>3, <2>1, <3>1, RolloutAsked
  <2> QED BY <2>2, <2>3
<1>8. CASE CandidateKnown
  <2>1. answer # Nil /\ Ask("incumbent", CheckpointSeed(index), plan.evals)
    BY <1>8 DEF CandidateKnown, Answered
  <2> QED BY <1>2, <1>3, <2>1, RolloutAsked
<1>9. CASE IncumbentKnown
  <2>1. answer # Nil BY <1>9 DEF IncumbentKnown, Answered
  <2>2. CASE Ask("batch", TrainingSeed(step + 1), plan.batch)
    BY <1>2, <1>3, <2>1, <2>2, RolloutAsked
  <2>3. CASE Ask("held out", HeldOutSeed, plan.heldOut)
    BY <1>2, <1>3, <2>1, <2>3, RolloutAsked
  <2> QED BY <1>9, <2>2, <2>3 DEF IncumbentKnown, AskForBatch
<1>10. CASE HeldOutKnown
  <2>1. answer # Nil /\ Leave("done") BY <1>10 DEF HeldOutKnown, Answered
  <2> QED BY <2>1, RolloutLeft
<1>11. CASE Raise
  <2>1. answer # Nil /\ Leave("failed") BY <1>11 DEF Raise
  <2> QED BY <2>1, RolloutLeft
<1> QED BY <1>4, <1>5, <1>6, <1>7, <1>8, <1>9, <1>10, <1>11 DEF Train

\* A shape counts no seeds, and neither do weights that are refused.
LEMMA AnswerAtOnceKeepsRollout ==
  ASSUME RolloutInv, AnswerAtOnce, UNCHANGED asked
  PROVE  RolloutInv'
<1>1. /\ batch = Nil /\ request # Nil /\ request' = Nil
      /\ UNCHANGED <<batch, next, alive, jobs, results>>
  BY DEF AnswerAtOnce
<1>2. request.kind = "shape" <=> asked.what = "shape"
  BY <1>1 DEF RolloutInv, RequestInv
<1>3. WorkerType' BY <1>1 DEF RolloutInv, WorkerType
<1>4. RequestInv' /\ BatchInv' /\ IdleInv'
  BY <1>1 DEF RolloutInv, RequestInv, BatchInv, IdleInv
<1>5. EverySeedCountsOnce'
  <2>1. CASE request.kind = "shape" BY <1>2, <2>1 DEF EverySeedCountsOnce
  <2>2. CASE request.kind # "shape"
    <3>1. answer' = Failure("weights", 0) BY <2>2 DEF AnswerAtOnce
    <3>2. answer'.error = "weights" /\ answer'.counted = <<>> BY <3>1 DEF Failure
    <3> QED BY <3>2 DEF EverySeedCountsOnce
  <2> QED BY <2>1, <2>2
<1> QED BY <1>3, <1>4, <1>5 DEF RolloutInv

\* A worker that dies has counted nothing.
LEMMA WorkerStopsKeepsRollout ==
  ASSUME RolloutInv, WorkerStops, UNCHANGED asked
  PROVE  RolloutInv'
<1>1. /\ answer' = Failure("stopped", 0) /\ request' = Nil /\ batch' = Nil
      /\ jobs' = [g \in Goroutines |-> Nil] /\ next' = next
  BY DEF WorkerStops
<1>2. answer'.error = "stopped" /\ answer'.counted = <<>> BY <1>1 DEF Failure
<1>3. WorkerType' BY <1>1 DEF RolloutInv, WorkerType
<1>4. RequestInv' /\ BatchInv' /\ IdleInv'
  BY <1>1 DEF RequestInv, BatchInv, IdleInv
<1>5. EverySeedCountsOnce' BY <1>2 DEF EverySeedCountsOnce
<1> QED BY <1>3, <1>4, <1>5 DEF RolloutInv

\* A rollout begins with nothing sent and no results.
LEMMA BeginRolloutKeepsRollout ==
  ASSUME RolloutInv, BeginRollout, UNCHANGED asked
  PROVE  RolloutInv'
<1>1. /\ batch = Nil /\ request # Nil /\ request \in Request
      /\ batch' = request /\ request' = Nil /\ next' = 0 /\ jobs' = jobs /\ answer' = answer
      /\ results' = [i \in 0..(request.seeds - 1) |-> Nil]
  BY DEF BeginRollout, RolloutInv, WorkerType
<1>2. answer = Nil /\ AsAsked(request)
  BY <1>1 DEF RolloutInv, RequestInv
<1>3. request.seeds \in Nat
  BY <1>1 DEF Request
<1>4. \A g \in Goroutines : jobs[g] = Nil
  BY <1>1 DEF RolloutInv, IdleInv
<1>5. WorkerType' BY <1>1 DEF RolloutInv, WorkerType
<1>6. RequestInv' /\ IdleInv' BY <1>1, <1>4 DEF RequestInv, IdleInv
<1>7. BatchInv'
  <2>1. answer' = Nil /\ AsAsked(batch)' /\ next' <= batch'.seeds
    BY <1>1, <1>2, <1>3 DEF AsAsked
  <2>2. results' \in [0..(batch'.seeds - 1) -> Played \cup {Nil}]
    BY <1>1
  <2>3. \A i \in 0..(batch'.seeds - 1) : results'[i] = Nil /\ ~(i < next')
    BY <1>1, <1>3
  <2>4. \A g \in Goroutines : jobs'[g] = Nil
    BY <1>1, <1>4
  <2> QED BY <2>1, <2>2, <2>3, <2>4 DEF BatchInv
<1>8. EverySeedCountsOnce' BY <1>1, <1>2 DEF EverySeedCountsOnce
<1> QED BY <1>5, <1>6, <1>7, <1>8 DEF RolloutInv

\* The index that was sent is being played.
LEMMA SendIndexKeepsRollout ==
  ASSUME RolloutInv, NEW h \in Goroutines, SendIndex(h), UNCHANGED asked
  PROVE  RolloutInv'
<1>1. /\ batch # Nil /\ next < batch.seeds /\ h \in alive /\ jobs[h] = Nil
      /\ jobs' = [jobs EXCEPT ![h] = next] /\ next' = next + 1
      /\ UNCHANGED <<request, answer, batch, alive, results>>
  BY DEF SendIndex
<1>2. /\ batch \in Request /\ next \in Nat /\ jobs \in [Goroutines -> Nat \cup {Nil}]
  BY <1>1 DEF RolloutInv, WorkerType
<1>3. batch.seeds \in Nat BY <1>2 DEF Request
<1>4. next # Nil BY <1>2, NilIsApart
<1>5. BatchInv BY DEF RolloutInv
<1>6. answer = Nil BY <1>1, <1>5 DEF BatchInv
<1>7. WorkerType' BY <1>1, <1>2 DEF RolloutInv, WorkerType
<1>8. RequestInv' /\ IdleInv'
  BY <1>1 DEF RolloutInv, RequestInv, IdleInv, AsAsked
<1>9. BatchInv'
  <2>1. \A i \in 0..(batch.seeds - 1) :
          i < next + 1 => results[i] # Nil \/ \E g \in Goroutines : jobs'[g] = i
    <3> SUFFICES ASSUME NEW i \in 0..(batch.seeds - 1), i < next + 1, results[i] = Nil
                 PROVE  \E g \in Goroutines : jobs'[g] = i
      OBVIOUS
    <3>1. CASE i = next BY <1>1, <1>2, <3>1
    <3>2. CASE i # next
      <4>1. i < next BY <1>2, <1>3, <3>2
      <4>2. PICK g \in Goroutines : jobs[g] = i BY <1>1, <1>5, <4>1 DEF BatchInv
      <4>3. i # Nil BY NilIsApart
      <4>4. g # h BY <1>1, <4>2, <4>3
      <4> QED BY <1>1, <1>2, <4>2, <4>4
    <3> QED BY <3>1, <3>2
  <2>2. \A g \in Goroutines : jobs'[g] # Nil => g \in alive /\ jobs'[g] < next + 1
    <3> SUFFICES ASSUME NEW g \in Goroutines, jobs'[g] # Nil
                 PROVE  g \in alive /\ jobs'[g] < next + 1
      OBVIOUS
    <3>1. CASE g = h BY <1>1, <1>2, <3>1
    <3>2. CASE g # h
      <4>1. jobs'[g] = jobs[g] BY <1>1, <1>2, <3>2
      <4>2. g \in alive /\ jobs[g] < next /\ jobs[g] \in Nat
        BY <1>1, <1>2, <1>5, <4>1 DEF BatchInv
      <4> QED BY <1>2, <4>1, <4>2
    <3> QED BY <3>1, <3>2
  <2>3. next + 1 <= batch.seeds BY <1>1, <1>2, <1>3
  <2> QED BY <1>1, <1>5, <2>1, <2>2, <2>3 DEF BatchInv, AsAsked
<1>10. EverySeedCountsOnce' BY <1>1, <1>6 DEF EverySeedCountsOnce
<1> QED BY <1>7, <1>8, <1>9, <1>10 DEF RolloutInv

\* The index that was played has its result, with its own seed.
LEMMA PlaySeedKeepsRollout ==
  ASSUME RolloutInv, NEW h \in Goroutines, PlaySeed(h), UNCHANGED asked
  PROVE  RolloutInv'
<1>1. PICK failed \in BOOLEAN :
        results' = [results EXCEPT ![jobs[h]] = [seed |-> batch.seed + jobs[h], failed |-> failed]]
  BY DEF PlaySeed
<1>2. /\ jobs[h] # Nil /\ jobs' = [jobs EXCEPT ![h] = Nil]
      /\ UNCHANGED <<request, answer, batch, next, alive>>
  BY DEF PlaySeed
<1>3. batch # Nil BY <1>2 DEF RolloutInv, IdleInv
<1>4. /\ batch \in Request /\ next \in Nat /\ jobs \in [Goroutines -> Nat \cup {Nil}]
      /\ jobs[h] \in Nat
  BY <1>2, <1>3 DEF RolloutInv, WorkerType
<1>5. batch.seeds \in Nat /\ batch.seed \in Nat BY <1>4 DEF Request
<1>6. BatchInv BY DEF RolloutInv
<1>7. answer = Nil /\ next <= batch.seeds /\ jobs[h] < next
      /\ results \in [0..(batch.seeds - 1) -> Played \cup {Nil}]
  BY <1>2, <1>3, <1>6 DEF BatchInv
<1> DEFINE p == [seed |-> batch.seed + jobs[h], failed |-> failed]
<1>8. p \in Played /\ p # Nil /\ p.seed = batch.seed + jobs[h]
  <2>1. batch.seed + jobs[h] \in Nat BY <1>4, <1>5
  <2>2. p \in Played BY <2>1 DEF Played
  <2> QED BY <2>2, NilIsApart
<1>9. results' = [results EXCEPT ![jobs[h]] = p] BY <1>1
<1> HIDE DEF p
<1>10. jobs[h] \in 0..(batch.seeds - 1) BY <1>4, <1>5, <1>7
<1>11. results' \in [0..(batch.seeds - 1) -> Played \cup {Nil}] BY <1>7, <1>8, <1>9
<1>12. results'[jobs[h]] = p BY <1>7, <1>9, <1>10
<1>13. \A i \in 0..(batch.seeds - 1) : i # jobs[h] => results'[i] = results[i] BY <1>7, <1>9
<1>14. \A g \in Goroutines : g # h => jobs'[g] = jobs[g] BY <1>2, <1>4
<1>15. jobs'[h] = Nil BY <1>2, <1>4
<1>16. WorkerType' BY <1>2, <1>4 DEF RolloutInv, WorkerType
<1>17. RequestInv' /\ IdleInv' BY <1>2, <1>3 DEF RolloutInv, RequestInv, IdleInv, AsAsked
<1>18. BatchInv'
  <2>1. \A i \in 0..(batch.seeds - 1) : results'[i] # Nil => results'[i].seed = batch.seed + i
    <3> SUFFICES ASSUME NEW i \in 0..(batch.seeds - 1), results'[i] # Nil
                 PROVE  results'[i].seed = batch.seed + i
      OBVIOUS
    <3>1. CASE i = jobs[h] BY <1>8, <1>12, <3>1
    <3>2. CASE i # jobs[h]
      <4>1. results'[i] = results[i] BY <1>13, <3>2
      <4> QED BY <1>3, <1>6, <4>1 DEF BatchInv
    <3> QED BY <3>1, <3>2
  <2>2. \A i \in 0..(batch.seeds - 1) :
          i < next => results'[i] # Nil \/ \E g \in Goroutines : jobs'[g] = i
    <3> SUFFICES ASSUME NEW i \in 0..(batch.seeds - 1), i < next, results'[i] = Nil
                 PROVE  \E g \in Goroutines : jobs'[g] = i
      OBVIOUS
    <3>1. i # jobs[h] BY <1>8, <1>12
    <3>2. results[i] = Nil BY <1>13, <3>1
    <3>3. PICK g \in Goroutines : jobs[g] = i BY <1>3, <1>6, <3>2 DEF BatchInv
    <3>4. g # h BY <3>1, <3>3
    <3> QED BY <1>14, <3>3, <3>4
  <2>3. \A g \in Goroutines : jobs'[g] # Nil => g \in alive /\ jobs'[g] < next
    BY <1>3, <1>6, <1>14, <1>15 DEF BatchInv
  <2> QED BY <1>2, <1>3, <1>6, <1>11, <2>1, <2>2, <2>3 DEF BatchInv, AsAsked
<1>19. EverySeedCountsOnce' BY <1>2, <1>7 DEF EverySeedCountsOnce
<1> QED BY <1>16, <1>17, <1>18, <1>19 DEF RolloutInv

\* Only a goroutine that plays nothing ends.
LEMMA GoroutineEndsKeepsRollout ==
  ASSUME RolloutInv, NEW h \in Goroutines, GoroutineEnds(h), UNCHANGED asked
  PROVE  RolloutInv'
<1>1. /\ batch # Nil /\ jobs[h] = Nil /\ alive' = alive \ {h}
      /\ UNCHANGED <<request, answer, batch, next, jobs, results>>
  BY DEF GoroutineEnds
<1>2. answer = Nil BY <1>1 DEF RolloutInv, BatchInv
<1>3. WorkerType' BY <1>1 DEF RolloutInv, WorkerType
<1>4. RequestInv' /\ IdleInv' BY <1>1 DEF RolloutInv, RequestInv, IdleInv, AsAsked
<1>5. \A g \in Goroutines : jobs'[g] # Nil => g \in alive' /\ jobs'[g] < next
  BY <1>1 DEF RolloutInv, BatchInv
<1>6. BatchInv' BY <1>1, <1>5 DEF RolloutInv, BatchInv, AsAsked
<1>7. EverySeedCountsOnce' BY <1>1, <1>2 DEF EverySeedCountsOnce
<1> QED BY <1>3, <1>4, <1>6, <1>7 DEF RolloutInv

\* When the goroutines have ended nothing is being played, so every result is there.
LEMMA CombineKeepsRollout ==
  ASSUME RolloutInv, Combine, UNCHANGED asked
  PROVE  RolloutInv'
<1>1. /\ batch # Nil /\ batch' = Nil /\ next = batch.seeds /\ alive = {}
      /\ UNCHANGED <<request, next, alive, jobs, results>>
  BY DEF Combine, WaitedFor, ChannelClosed
<1>2. batch \in Request BY <1>1 DEF RolloutInv, WorkerType
<1>3. batch.seeds \in Nat /\ batch.seed \in Nat BY <1>2 DEF Request
<1>4. BatchInv BY DEF RolloutInv
<1>5. \A g \in Goroutines : jobs[g] = Nil BY <1>1, <1>4 DEF BatchInv
<1>6. \A i \in 0..(batch.seeds - 1) : results[i] # Nil /\ results[i].seed = batch.seed + i
  <2> SUFFICES ASSUME NEW i \in 0..(batch.seeds - 1)
               PROVE  results[i] # Nil /\ results[i].seed = batch.seed + i
    OBVIOUS
  <2>1. i < next /\ i # Nil BY <1>1, <1>3, NilIsApart
  <2>2. results[i] # Nil BY <1>1, <1>4, <1>5, <2>1 DEF BatchInv
  <2> QED BY <1>1, <1>4, <2>2 DEF BatchInv
<1>7. batch.seed = asked.seed /\ batch.seeds = asked.seeds
  BY <1>1, <1>4 DEF BatchInv, AsAsked
<1>8. request = Nil BY <1>1 DEF RolloutInv, RequestInv
<1>9. WorkerType' BY <1>1 DEF RolloutInv, WorkerType
<1>10. RequestInv' /\ BatchInv' /\ IdleInv'
  BY <1>1, <1>5, <1>8 DEF RequestInv, BatchInv, IdleInv
<1>11. EverySeedCountsOnce'
  <2>1. CASE FirstFailure
    <3>1. PICK i \in DOMAIN results :
            /\ Failed(i) /\ \A j \in 0..(i - 1) : ~Failed(j)
            /\ answer' = Failure("seed", results[i].seed)
      BY <2>1 DEF FirstFailure
    <3>2. DOMAIN results = 0..(batch.seeds - 1) BY <1>1, <1>4 DEF BatchInv
    <3>3. answer'.error = "seed" /\ answer'.at = batch.seed + i
      BY <1>6, <3>1, <3>2 DEF Failure
    <3>4. answer'.at \in Seeds(asked) /\ answer'.at - asked.seed - 1 = i - 1
      BY <1>3, <1>7, <3>2, <3>3 DEF Seeds
    <3>5. \A j \in 0..(i - 1) : results[j] # Nil /\ ~results[j].failed
      BY <1>3, <1>6, <3>1, <3>2 DEF Failed
    <3> QED BY <1>1, <3>3, <3>4, <3>5 DEF EverySeedCountsOnce, Seeds
  <2>2. CASE AllCounted
    <3> DEFINE all == [i \in 1..batch.seeds |->
                         IF results[i - 1] = Nil THEN Nil ELSE results[i - 1].seed]
    <3>1. answer' = Success(all) BY <2>2 DEF AllCounted
    <3>2. answer'.error = "none" /\ answer'.counted = all BY <3>1 DEF Success
    <3>3. all = [i \in 1..batch.seeds |-> batch.seed + i - 1]
      <4>1. \A i \in 1..batch.seeds : i - 1 \in 0..(batch.seeds - 1) BY <1>3
      <4>2. \A i \in 1..batch.seeds : all[i] = batch.seed + i - 1 BY <1>3, <1>6, <4>1
      <4> QED BY <4>2
    <3> QED BY <1>7, <3>2, <3>3 DEF EverySeedCountsOnce
  <2> QED BY <2>1, <2>2 DEF Combine
<1> QED BY <1>9, <1>10, <1>11 DEF RolloutInv

\* Every step keeps count of the seeds of a rollout.
LEMMA RolloutPreserved ==
  StepsInv /\ RolloutInv /\ [TrainingNext]_trainingVars => RolloutInv'
<1> SUFFICES ASSUME StepsInv, RolloutInv, [TrainingNext]_trainingVars PROVE RolloutInv' OBVIOUS
<1>1. CASE Train BY <1>1, TrainKeepsRollout
<1>2. CASE WorkerRuns
  <2>1. UNCHANGED asked BY <1>2 DEF WorkerRuns
  <2>2. CASE AnswerAtOnce BY <2>1, <2>2, AnswerAtOnceKeepsRollout
  <2>3. CASE BeginRollout BY <2>1, <2>3, BeginRolloutKeepsRollout
  <2>4. CASE Combine BY <2>1, <2>4, CombineKeepsRollout
  <2>5. CASE WorkerStops BY <2>1, <2>5, WorkerStopsKeepsRollout
  <2>6. ASSUME NEW g \in Goroutines, SendIndex(g) PROVE RolloutInv'
    BY <2>1, <2>6, SendIndexKeepsRollout
  <2>7. ASSUME NEW g \in Goroutines, PlaySeed(g) PROVE RolloutInv'
    BY <2>1, <2>7, PlaySeedKeepsRollout
  <2>8. ASSUME NEW g \in Goroutines, GoroutineEnds(g) PROVE RolloutInv'
    BY <2>1, <2>8, GoroutineEndsKeepsRollout
  <2> QED BY <1>2, <2>2, <2>3, <2>4, <2>5, <2>6, <2>7, <2>8 DEF WorkerRuns, WorkerNext
<1>3. CASE UNCHANGED trainingVars
  <2>1. UNCHANGED <<request, answer, batch, next, alive, jobs, results, asked>>
    BY <1>3 DEF trainingVars, workerVars
  <2>2. WorkerType' BY <2>1 DEF RolloutInv, WorkerType
  <2>3. RequestInv' /\ BatchInv' /\ IdleInv'
    BY <2>1 DEF RolloutInv, RequestInv, BatchInv, IdleInv, AsAsked
  <2>4. EverySeedCountsOnce' BY <2>1 DEF RolloutInv, EverySeedCountsOnce
  <2> QED BY <2>2, <2>3, <2>4 DEF RolloutInv
<1> QED BY <1>1, <1>2, <1>3 DEF TrainingNext

\* Whatever order any number of goroutines play in, each seed counts once.
THEOREM SeedsCountOnce == TrainingSpec => []EverySeedCountsOnce
<1>1. RolloutInv => EverySeedCountsOnce BY DEF RolloutInv
<1> QED BY <1>1, StepsInitially, StepsPreserved, RolloutInitially, RolloutPreserved, PTL
        DEF TrainingSpec
-----------------------------------------------------------------------------
(* The ranges of seeds *)

PlayedUpTo(s) == s * plan.batch

\* Evaluations before the one under way, or all of them, have played the seeds below.
EvaluatedUpTo ==
  IF asked.what \in {"candidate", "incumbent"} THEN CheckpointSeed(index)
                                               ELSE CheckpointSeed(index + 1)

Passed == {c \in CheckpointSteps : c <= Done}

SameGames(e) == e.what = "candidate" /\ e.seed = asked.seed /\ e.seeds = asked.seeds

EarlierAs(e, upto, evaluated) ==
  \/ e.what = "shape" /\ e.seeds = 0
  \/ e.what = "batch" /\ e.seed + e.seeds <= upto
  \/ /\ e.what \in {"initial", "candidate", "incumbent"}
     /\ ValidationSeed <= e.seed /\ e.seed + e.seeds <= evaluated

EarlierInv ==
  \A e \in earlier :
    /\ e \in Asked
    /\ \/ EarlierAs(e, PlayedUpTo(Done), EvaluatedUpTo)
       \/ asked.what = "incumbent" /\ SameGames(e)

OnlyShape == \A e \in earlier : e \in Asked /\ e.what = "shape" /\ e.seeds = 0

AskedInv ==
  \/ asked.what = "shape" /\ asked.seeds = 0 /\ earlier = {}
  \/ asked.what = "initial" /\ asked.seed = ValidationSeed /\ asked.seeds = plan.evals /\ OnlyShape
  \/ /\ asked.what = "batch" /\ asked.seed = PlayedUpTo(step - 1) /\ asked.seeds = plan.batch
     /\ EarlierInv
  \/ /\ asked.what = "candidate" /\ asked.seed = CheckpointSeed(index) /\ asked.seeds = plan.evals
     /\ EarlierInv
  \/ /\ asked.what = "incumbent" /\ asked.seed = CheckpointSeed(index) /\ asked.seeds = plan.evals
     /\ EarlierInv /\ \E e \in earlier : SameGames(e)
  \/ asked.what = "held out" /\ OnlyShape
  \/ asked.what = "held out" /\ asked.seed = HeldOutSeed /\ EarlierInv

SeedsInv ==
  IF outcome = "running"
  THEN /\ step <= plan.steps /\ index <= Cardinality(Passed)
       /\ IF asked = Nil THEN earlier = {} ELSE AskedInv
  ELSE asked = Nil

\* Multiplication by a natural is monotone.
LEMMA TimesMonotone ==
  ASSUME NEW a \in Nat, NEW b \in Nat, NEW c \in Nat, a <= b
  PROVE  a * c <= b * c
  OBVIOUS

\* Multiplication distributes over one more.
LEMMA TimesNext ==
  ASSUME NEW k \in Nat, NEW c \in Nat
  PROVE  (k + 1) * c = k * c + c
  OBVIOUS

\* Zero times anything is zero.
LEMMA TimesZero ==
  ASSUME NEW c \in Nat
  PROVE  0 * c = 0
  OBVIOUS

\* The evaluations follow each other without a gap, the first one behind the training.
LEMMA CheckpointSeeds ==
  ASSUME plan \in Plans
  PROVE  /\ \A k \in Nat : CheckpointSeed(k + 1) = CheckpointSeed(k) + plan.evals
         /\ \A j, k \in Nat : j <= k => CheckpointSeed(j) <= CheckpointSeed(k)
         /\ CheckpointSeed(0) = ValidationSeed
<1>1. ValidationSeed \in Nat /\ plan.evals \in Nat BY SeedsAreNatural, PlanType
<1>2. ASSUME NEW k \in Nat PROVE CheckpointSeed(k + 1) = CheckpointSeed(k) + plan.evals
  <2>1. (k + 1) * plan.evals = k * plan.evals + plan.evals BY <1>1, TimesNext
  <2>2. k * plan.evals \in Nat BY <1>1, TimesNat
  <2> QED BY <1>1, <2>1, <2>2 DEF CheckpointSeed
<1>3. ASSUME NEW j \in Nat, NEW k \in Nat, j <= k PROVE CheckpointSeed(j) <= CheckpointSeed(k)
  <2>1. j * plan.evals <= k * plan.evals BY <1>1, <1>3, TimesMonotone
  <2>2. j * plan.evals \in Nat /\ k * plan.evals \in Nat BY <1>1, TimesNat
  <2> QED BY <1>1, <2>1, <2>2 DEF CheckpointSeed
<1>4. CheckpointSeed(0) = ValidationSeed
  <2>1. 0 * plan.evals = 0 BY <1>1, TimesZero
  <2> QED BY <1>1, <2>1 DEF CheckpointSeed
<1> QED BY <1>2, <1>3, <1>4

\* So do the batches, and the last one ends where the evaluations begin.
LEMMA TrainingSeeds ==
  ASSUME plan \in Plans
  PROVE  /\ \A s \in Nat : PlayedUpTo(s) \in Nat
         /\ \A s \in Nat : PlayedUpTo(s + 1) = PlayedUpTo(s) + plan.batch
         /\ \A r, s \in Nat : r <= s => PlayedUpTo(r) <= PlayedUpTo(s)
         /\ \A s \in Nat : s <= plan.steps => PlayedUpTo(s) <= ValidationSeed
         /\ \A s \in Nat : TrainingSeed(s + 1) = PlayedUpTo(s)
<1>1. plan.batch \in Nat /\ plan.steps \in Nat BY PlanType
<1>2. \A s \in Nat : PlayedUpTo(s) \in Nat BY <1>1, TimesNat DEF PlayedUpTo
<1>3. \A s \in Nat : PlayedUpTo(s + 1) = PlayedUpTo(s) + plan.batch
  BY <1>1, TimesNext DEF PlayedUpTo
<1>4. \A r, s \in Nat : r <= s => PlayedUpTo(r) <= PlayedUpTo(s)
  BY <1>1, TimesMonotone DEF PlayedUpTo
<1>5. ValidationSeed = PlayedUpTo(plan.steps) BY DEF ValidationSeed, PlayedUpTo
<1>6. ASSUME NEW s \in Nat PROVE TrainingSeed(s + 1) = PlayedUpTo(s)
  <2>1. (s + 1) - 1 = s OBVIOUS
  <2> QED BY <2>1 DEF TrainingSeed, PlayedUpTo
<1> QED BY <1>1, <1>2, <1>3, <1>4, <1>5, <1>6
\* What a request consists of.
LEMMA AskedFields ==
  ASSUME NEW e \in Asked
  PROVE  /\ e.what \in {"shape", "initial", "batch", "candidate", "incumbent", "held out"}
         /\ e.seed \in Nat /\ e.seeds \in Nat
  BY DEF Asked

\* What ends below a bound ends below a higher one.
LEMMA EarlierGrows ==
  ASSUME NEW e \in Asked, NEW t \in Nat, NEW u \in Nat, NEW v \in Nat, NEW w \in Nat,
         EarlierAs(e, t, v), t <= u, v <= w
  PROVE  EarlierAs(e, u, w)
<1> DEFINE end == e.seed + e.seeds
<1>1. end \in Nat
  <2>1. e.seed \in Nat /\ e.seeds \in Nat BY AskedFields
  <2> QED BY <2>1
<1> HIDE DEF end
<1>2. end <= t => end <= u BY <1>1
<1>3. end <= v => end <= w BY <1>1
<1> USE DEF end
<1> QED BY <1>2, <1>3 DEF EarlierAs

\* A range that ends before another begins does not meet it, nor does an empty one.
LEMMA Apart ==
  ASSUME NEW e \in Asked, NEW a \in Asked, e.seed + e.seeds <= a.seed \/ e.seeds = 0
  PROVE  Seeds(e) \cap Seeds(a) = {}
<1>1. e.seed \in Nat /\ e.seeds \in Nat /\ a.seed \in Nat /\ a.seeds \in Nat BY AskedFields
<1> QED BY <1>1 DEF Seeds

\* Not more checkpoints were passed than there are.
LEMMA PassedCount ==
  ASSUME plan \in Plans
  PROVE  /\ IsFiniteSet(Passed) /\ Cardinality(Passed) \in Nat
         /\ Cardinality(Passed) <= Cardinality(CheckpointSteps)
<1>1. Passed \subseteq CheckpointSteps BY DEF Passed
<1>2. IsFiniteSet(CheckpointSteps) BY CheckpointStepsFinite
<1> QED BY <1>1, <1>2, FS_Subset, FS_CardinalityType

\* What holds of the seeds that are out makes them fresh.
LEMMA SeedsAreFresh ==
  ASSUME StepsInv, SeedsInv
  PROVE  FreshSeeds
<1> SUFFICES ASSUME asked # Nil
             PROVE  LET again == {e \in earlier : Seeds(e) \cap Seeds(asked) # {}}
                    IN  /\ {e.what : e \in again}
                             = IF asked.what = "incumbent" THEN {"candidate"} ELSE {}
                        /\ \A e \in again : Seeds(e) = Seeds(asked)
  BY DEF FreshSeeds
<1> DEFINE again == {e \in earlier : Seeds(e) \cap Seeds(asked) # {}}
<1>1. /\ plan \in Plans /\ asked \in Asked /\ step \in Nat /\ index \in Nat
      /\ outcome = "running" /\ AskedInv /\ step <= plan.steps /\ index <= Cardinality(Passed)
  BY DEF StepsInv, TrainerType, SeedsInv
<1>2. /\ plan.evals \in Nat \ {0} /\ plan.steps \in Nat BY <1>1, PlanType
<1>3. Done \in Nat /\ Done <= plan.steps
  <2>1. TrainerType /\ PhaseInv BY DEF StepsInv
  <2>2. Done \in Nat BY <1>1, <2>1, DoneIsNatural
  <2>3. Done <= step BY <1>1 DEF Done
  <2> QED BY <1>1, <1>2, <2>2, <2>3
<1>4. /\ PlayedUpTo(Done) \in Nat /\ ValidationSeed \in Nat /\ PlayedUpTo(Done) <= ValidationSeed
      /\ CheckpointSeed(index) \in Nat /\ CheckpointSeed(index + 1) \in Nat /\ HeldOutSeed \in Nat
  <2>1. PlayedUpTo(Done) \in Nat /\ PlayedUpTo(Done) <= ValidationSeed
    BY <1>1, <1>3, TrainingSeeds
  <2>2. index + 1 \in Nat BY <1>1
  <2> QED BY <1>1, <2>1, <2>2, SeedsAreNatural
<1>5. /\ ValidationSeed <= CheckpointSeed(index) /\ ValidationSeed <= CheckpointSeed(index + 1)
  <2>1. 0 \in Nat /\ index + 1 \in Nat /\ 0 <= index /\ 0 <= index + 1 BY <1>1
  <2> QED BY <1>1, <2>1, CheckpointSeeds
<1>6. CheckpointSeed(index + 1) <= HeldOutSeed /\ ValidationSeed <= HeldOutSeed
  <2>1. Cardinality(Passed) \in Nat /\ Cardinality(CheckpointSteps) \in Nat
        /\ Cardinality(Passed) <= Cardinality(CheckpointSteps)
    BY <1>1, PassedCount, CheckpointStepsFinite
  <2>2. index + 1 <= Cardinality(CheckpointSteps) + 1 BY <1>1, <2>1
  <2>3. index + 1 \in Nat /\ Cardinality(CheckpointSteps) + 1 \in Nat BY <1>1, <2>1
  <2>4. CheckpointSeed(index + 1) <= HeldOutSeed
    BY <1>1, <2>2, <2>3, CheckpointSeeds DEF HeldOutSeed
  <2> QED BY <1>4, <1>5, <2>4
<1>7. ASSUME OnlyShape \/ earlier = {} PROVE again = {}
  <2> SUFFICES ASSUME NEW e \in earlier PROVE Seeds(e) \cap Seeds(asked) = {} OBVIOUS
  <2>1. e \in Asked /\ e.seeds = 0 BY <1>7 DEF OnlyShape
  <2> QED BY <1>1, <2>1, Apart
<1>8. ASSUME EarlierInv, asked.what # "shape",
             asked.what = "batch" => asked.seed = PlayedUpTo(Done),
             asked.what # "batch" => EvaluatedUpTo <= asked.seed /\ ValidationSeed <= asked.seed,
             EvaluatedUpTo \in Nat,
             NEW e \in earlier, ~(asked.what = "incumbent" /\ SameGames(e)),
             asked.what = "batch" => asked.seed + asked.seeds <= ValidationSeed
      PROVE  Seeds(e) \cap Seeds(asked) = {}
  <2>1. e \in Asked /\ EarlierAs(e, PlayedUpTo(Done), EvaluatedUpTo)
    BY <1>8 DEF EarlierInv
  <2>2. e.seed \in Nat /\ e.seeds \in Nat /\ asked.seed \in Nat /\ asked.seeds \in Nat
    BY <1>1, <2>1, AskedFields
  <2>3. CASE e.what = "shape" /\ e.seeds = 0
    BY <1>1, <2>1, <2>3, Apart
  <2>4. CASE e.what = "batch" /\ e.seed + e.seeds <= PlayedUpTo(Done)
    <3>1. e.seed + e.seeds <= asked.seed BY <1>4, <1>8, <2>2, <2>4
    <3> QED BY <1>1, <2>1, <3>1, Apart
  <2>5. CASE ValidationSeed <= e.seed /\ e.seed + e.seeds <= EvaluatedUpTo
    <3>1. CASE asked.what = "batch"
      <4>1. asked.seed + asked.seeds <= e.seed BY <1>4, <1>8, <2>2, <2>5, <3>1
      <4>2. Seeds(asked) \cap Seeds(e) = {} BY <1>1, <2>1, <4>1, Apart
      <4> QED BY <4>2
    <3>2. CASE asked.what # "batch"
      <4>1. e.seed + e.seeds <= asked.seed BY <1>8, <2>2, <2>5, <3>2
      <4> QED BY <1>1, <2>1, <4>1, Apart
    <3> QED BY <3>1, <3>2
  <2> QED BY <2>1, <2>3, <2>4, <2>5 DEF EarlierAs
<1>9. CASE (asked.what \in {"shape", "initial", "held out"}) /\ (OnlyShape \/ earlier = {})
  BY <1>7, <1>9
<1>10. CASE /\ asked.what = "batch" /\ asked.seed = PlayedUpTo(step - 1)
            /\ asked.seeds = plan.batch /\ EarlierInv
  <2>1. Done = step - 1 BY <1>1, <1>10 DEF Done
  <2>2. EvaluatedUpTo \in Nat BY <1>4, <1>10 DEF EvaluatedUpTo
  <2>3. asked.seed + asked.seeds <= ValidationSeed
    <3>1. Done + 1 = step /\ Done \in Nat BY <1>1, <1>3, <2>1
    <3>2. PlayedUpTo(Done + 1) = PlayedUpTo(Done) + plan.batch BY <1>1, <3>1, TrainingSeeds
    <3>3. PlayedUpTo(step) <= ValidationSeed BY <1>1, TrainingSeeds
    <3> QED BY <1>10, <2>1, <3>1, <3>2, <3>3
  <2>4. again = {} BY <1>8, <1>10, <2>1, <2>2, <2>3
  <2> QED BY <1>10, <2>4
<1>11. CASE asked.what = "candidate" /\ asked.seed = CheckpointSeed(index) /\ EarlierInv
  <2>1. EvaluatedUpTo = CheckpointSeed(index) BY <1>11 DEF EvaluatedUpTo
  <2>2. EvaluatedUpTo \in Nat /\ EvaluatedUpTo <= asked.seed /\ ValidationSeed <= asked.seed
    BY <1>4, <1>5, <1>11, <2>1
  <2>3. again = {} BY <1>8, <1>11, <2>2
  <2> QED BY <1>11, <2>3
<1>12. CASE /\ asked.what = "incumbent" /\ asked.seed = CheckpointSeed(index)
            /\ asked.seeds = plan.evals /\ EarlierInv /\ \E e \in earlier : SameGames(e)
  <2>1. EvaluatedUpTo = CheckpointSeed(index) BY <1>12 DEF EvaluatedUpTo
  <2>2. EvaluatedUpTo \in Nat /\ EvaluatedUpTo <= asked.seed /\ ValidationSeed <= asked.seed
    BY <1>4, <1>5, <1>12, <2>1
  <2>3. \A e \in again : SameGames(e) BY <1>8, <1>12, <2>2
  <2>4. \A e \in earlier : SameGames(e) => Seeds(e) = Seeds(asked) BY DEF SameGames, Seeds
  <2>5. asked.seed \in Seeds(asked)
    <3>1. asked.seed \in Nat /\ asked.seeds \in Nat \ {0} BY <1>1, <1>2, <1>12, AskedFields
    <3> QED BY <3>1 DEF Seeds
  <2>6. PICK e \in earlier : SameGames(e) BY <1>12
  <2>7. e \in again BY <2>4, <2>5, <2>6
  <2>8. {f.what : f \in again} = {"candidate"} BY <2>3, <2>7 DEF SameGames
  <2> HIDE DEF again
  <2>9. \A f \in again : Seeds(f) = Seeds(asked) BY <2>3, <2>4 DEF again
  <2> QED BY <1>12, <2>8, <2>9 DEF again
<1>13. CASE asked.what = "held out" /\ asked.seed = HeldOutSeed /\ EarlierInv
  <2>1. EvaluatedUpTo = CheckpointSeed(index + 1) BY <1>13 DEF EvaluatedUpTo
  <2>2. EvaluatedUpTo \in Nat /\ EvaluatedUpTo <= asked.seed /\ ValidationSeed <= asked.seed
    BY <1>4, <1>6, <1>13, <2>1
  <2>3. again = {} BY <1>8, <1>13, <2>2
  <2> QED BY <1>13, <2>3
<1> QED BY <1>1, <1>9, <1>10, <1>11, <1>12, <1>13 DEF AskedInv
\* The requests before the new one, bounded by what they have played up to.
LEMMA EarlierNow ==
  ASSUME plan' = plan, NEW d, NEW v, Done' = d, EvaluatedUpTo' = v,
         \A e \in earlier' : e \in Asked /\ EarlierAs(e, PlayedUpTo(d), v)
  PROVE  EarlierInv'
<1>1. ValidationSeed' = ValidationSeed BY DEF ValidationSeed
<1>2. PlayedUpTo(d)' = PlayedUpTo(d) BY DEF PlayedUpTo
<1>3. \A e : EarlierAs(e, PlayedUpTo(d), v)' = EarlierAs(e, PlayedUpTo(d), v)
  BY <1>1, <1>2 DEF EarlierAs
<1> QED BY <1>3 DEF EarlierInv, EarlierAs, PlayedUpTo, ValidationSeed

\* What is computed from the plan alone does not change with a step.
LEMMA SamePlan ==
  ASSUME plan' = plan
  PROVE  /\ CheckpointSteps' = CheckpointSteps /\ ValidationSeed' = ValidationSeed
         /\ HeldOutSeed' = HeldOutSeed
         /\ Done' = Done => Passed' = Passed
<1>1. CheckpointSteps' = CheckpointSteps BY DEF CheckpointSteps
<1>2. ValidationSeed' = ValidationSeed BY DEF ValidationSeed
<1>3. HeldOutSeed' = HeldOutSeed BY <1>1, <1>2 DEF HeldOutSeed, CheckpointSeed
<1> QED BY <1>1, <1>2, <1>3 DEF Passed

\* After leaving nothing is out.
LEMMA SeedsLeft ==
  ASSUME NEW how, how # "running", Leave(how)
  PROVE  SeedsInv'
  BY DEF Leave, SeedsInv

\* A new request makes an earlier one of the last.
LEMMA AskHistory ==
  ASSUME NEW what, NEW seed, NEW seeds, Ask(what, seed, seeds)
  PROVE  earlier' = IF asked = Nil THEN earlier ELSE earlier \cup {asked}
  BY DEF Ask

\* What the trainer knows when an answer is there.
LEMMA AnsweredSeeds ==
  ASSUME StepsInv, SeedsInv, NEW what, Answered(what)
  PROVE  /\ plan \in Plans /\ step \in Nat /\ index \in Nat /\ bestStep \in Nat
         /\ asked \in Asked /\ asked # Nil /\ asked.what = what /\ outcome = "running"
         /\ step <= plan.steps /\ index <= Cardinality(Passed) /\ AskedInv
  BY DEF StepsInv, TrainerType, SeedsInv, Answered

\* The shape is asked for first, and plays nothing.
LEMMA AskShapeSeeds ==
  ASSUME StepsInv, SeedsInv, AskShape
  PROVE  SeedsInv'
<1>1. /\ outcome = "running" /\ asked = Nil /\ Ask("shape", 0, 0) /\ UNCHANGED trainerVars
  BY DEF AskShape
<1>2. asked' \in Asked /\ asked' # Nil /\ asked'.what = "shape" /\ asked'.seeds = 0
  BY <1>1, AskType
<1>3. earlier = {} /\ earlier' = {} /\ step <= plan.steps /\ index <= Cardinality(Passed)
  BY <1>1, AskHistory DEF SeedsInv
<1>4. UNCHANGED <<plan, step, index, outcome>> BY <1>1 DEF trainerVars
<1>5. Done' = Done BY <1>1, <1>2, <1>4 DEF Done
<1>6. Passed' = Passed BY <1>4, <1>5, SamePlan
<1>7. AskedInv' BY <1>2, <1>3 DEF AskedInv
<1> QED BY <1>1, <1>2, <1>3, <1>4, <1>6, <1>7 DEF SeedsInv

\* The first evaluation, or the only one, has nothing but the shape before it.
LEMMA ShapeKnownSeeds ==
  ASSUME StepsInv, SeedsInv, ShapeKnown
  PROVE  SeedsInv'
<1>1. /\ plan \in Plans /\ asked \in Asked /\ asked # Nil /\ asked.what = "shape"
      /\ outcome = "running" /\ step <= plan.steps /\ index <= Cardinality(Passed) /\ AskedInv
  BY AnsweredSeeds DEF ShapeKnown
<1>2. asked.seeds = 0 /\ earlier = {} BY <1>1 DEF AskedInv
<1>3. UNCHANGED <<plan, step, index>> BY DEF ShapeKnown
<1>4. plan.heldOut \in Nat /\ plan.evals \in Nat /\ ValidationSeed \in Nat
  BY <1>1, PlanType, SeedsAreNatural
<1>5. CASE Leave("failed") BY <1>5, SeedsLeft
<1>6. ASSUME NEW what \in {"initial", "held out"}, NEW seed \in Nat, NEW seeds \in Nat,
             Ask(what, seed, seeds), UNCHANGED outcome,
             what = "initial" => seed = ValidationSeed /\ seeds = plan.evals
      PROVE  SeedsInv'
  <2>1. /\ asked' \in Asked /\ asked' # Nil
        /\ asked'.what = what /\ asked'.seed = seed /\ asked'.seeds = seeds
    BY <1>6, AskType
  <2>2. earlier' = {asked} BY <1>1, <1>2, <1>6, AskHistory
  <2>3. OnlyShape' BY <1>1, <1>2, <2>2 DEF OnlyShape
  <2>4. Done' = Done BY <1>1, <1>3, <2>1 DEF Done
  <2>5. Passed' = Passed /\ ValidationSeed' = ValidationSeed BY <1>3, <2>4, SamePlan
  <2>6. AskedInv' BY <1>3, <1>6, <2>1, <2>3, <2>5 DEF AskedInv
  <2> QED BY <1>1, <1>3, <1>6, <2>1, <2>5, <2>6 DEF SeedsInv
<1> QED BY <1>4, <1>5, <1>6 DEF ShapeKnown

\* The first batch plays the first seeds.
LEMMA InitialKnownSeeds ==
  ASSUME StepsInv, SeedsInv, InitialKnown
  PROVE  SeedsInv'
<1>1. /\ plan \in Plans /\ asked \in Asked /\ asked # Nil /\ asked.what = "initial" /\ index \in Nat
      /\ outcome = "running" /\ index <= Cardinality(Passed) /\ AskedInv
  BY AnsweredSeeds DEF InitialKnown
<1>2. /\ asked.seed = ValidationSeed /\ asked.seeds = plan.evals /\ OnlyShape
  BY <1>1 DEF AskedInv
<1>3. /\ step' = 1 /\ UNCHANGED <<plan, index, outcome>>
      /\ Ask("batch", TrainingSeed(1), plan.batch)
  BY DEF InitialKnown, AskForBatch
<1>4. plan.batch \in Nat /\ plan.evals \in Nat /\ plan.steps \in Nat \ {0} BY <1>1, PlanType
<1>5. TrainingSeed(1) = PlayedUpTo(0) /\ PlayedUpTo(0) \in Nat
  <2>1. TrainingSeed(0 + 1) = PlayedUpTo(0) /\ PlayedUpTo(0) \in Nat BY <1>1, TrainingSeeds
  <2> QED BY <2>1
<1>6. /\ asked' \in Asked /\ asked' # Nil /\ asked'.what = "batch"
      /\ asked'.seed = PlayedUpTo(0) /\ asked'.seeds = plan.batch
  BY <1>3, <1>4, <1>5, AskType
<1>7. Done = 0
  BY <1>1 DEF StepsInv, PhaseInv, Done
<1>8. Done' = 0 BY <1>3, <1>6 DEF Done
<1>9. Passed' = Passed BY <1>3, <1>7, <1>8, SamePlan
<1> DEFINE v == CheckpointSeed(index + 1)
<1>10. EvaluatedUpTo' = v BY <1>3, <1>6 DEF EvaluatedUpTo, CheckpointSeed, ValidationSeed
<1>11. ValidationSeed + plan.evals <= v
  <2>1. CheckpointSeed(0 + 1) = ValidationSeed + plan.evals BY <1>1, CheckpointSeeds
  <2>2. 0 + 1 \in Nat /\ index + 1 \in Nat /\ 0 + 1 <= index + 1 BY <1>1
  <2>3. CheckpointSeed(0 + 1) <= v BY <1>1, <2>2, CheckpointSeeds
  <2> QED BY <2>1, <2>3
<1> HIDE DEF v
<1>12. ASSUME NEW e \in earlier' PROVE e \in Asked /\ EarlierAs(e, PlayedUpTo(0), v)
  <2>1. e \in earlier \/ e = asked BY <1>1, <1>3, AskHistory
  <2>2. CASE e \in earlier BY <1>2, <2>2 DEF OnlyShape, EarlierAs
  <2>3. CASE e = asked
    <3>1. ValidationSeed \in Nat BY <1>1, SeedsAreNatural
    <3>2. ValidationSeed <= e.seed /\ e.seed + e.seeds <= v BY <1>2, <1>11, <2>3, <3>1
    <3> QED BY <1>1, <2>3, <3>2 DEF EarlierAs
  <2> QED BY <2>1, <2>2, <2>3
<1>13. EarlierInv' BY <1>3, <1>8, <1>10, <1>12, EarlierNow
<1>14. PlayedUpTo(step - 1)' = PlayedUpTo(0)
  <2>1. step' - 1 = 0 BY <1>3
  <2> QED BY <1>3, <2>1 DEF PlayedUpTo
<1>15. AskedInv' BY <1>3, <1>6, <1>13, <1>14 DEF AskedInv
<1>16. step' <= plan'.steps BY <1>3, <1>4
<1> QED BY <1>1, <1>3, <1>6, <1>9, <1>15, <1>16 DEF SeedsInv

\* The batch that was out is among the earlier ones now.
LEMMA BatchIsEarlier ==
  ASSUME StepsInv, SeedsInv, BatchKnown
  PROVE  \A e \in earlier \cup {asked} :
           e \in Asked /\ EarlierAs(e, PlayedUpTo(step), CheckpointSeed(index + 1))
<1>1. /\ plan \in Plans /\ asked \in Asked /\ asked # Nil /\ asked.what = "batch"
      /\ step \in Nat /\ index \in Nat /\ step <= plan.steps /\ outcome = "running" /\ AskedInv
  BY AnsweredSeeds DEF BatchKnown
<1>2. asked.seed = PlayedUpTo(step - 1) /\ asked.seeds = plan.batch /\ EarlierInv
  BY <1>1 DEF AskedInv
<1>3. step > 0 BY <1>1 DEF StepsInv, PhaseInv
<1>4. Done = step - 1 /\ Done \in Nat /\ Done + 1 = step
  <2>1. Done = step - 1 BY <1>1 DEF Done
  <2> QED BY <1>1, <1>3, <2>1
<1>5. /\ PlayedUpTo(step) = PlayedUpTo(Done) + plan.batch
      /\ PlayedUpTo(Done) \in Nat /\ PlayedUpTo(step) \in Nat /\ PlayedUpTo(Done) <= PlayedUpTo(step)
  <2>1. PlayedUpTo(Done + 1) = PlayedUpTo(Done) + plan.batch BY <1>1, <1>4, TrainingSeeds
  <2>2. Done <= step BY <1>1, <1>4
  <2>3. PlayedUpTo(Done) \in Nat /\ PlayedUpTo(step) \in Nat BY <1>1, <1>4, TrainingSeeds
  <2> QED BY <1>1, <1>4, <2>1, <2>2, <2>3, TrainingSeeds
<1> DEFINE v == CheckpointSeed(index + 1)
<1>6. EvaluatedUpTo = v BY <1>1 DEF EvaluatedUpTo
<1>7. v \in Nat /\ v <= v
  <2>1. index + 1 \in Nat BY <1>1
  <2>2. v \in Nat BY <1>1, <2>1, SeedsAreNatural
  <2> QED BY <2>2
<1> HIDE DEF v
<1>8. ASSUME NEW e \in earlier PROVE e \in Asked /\ EarlierAs(e, PlayedUpTo(step), v)
  <2>1. e \in Asked /\ EarlierAs(e, PlayedUpTo(Done), v)
    BY <1>1, <1>2, <1>6, <1>8 DEF EarlierInv
  <2> QED BY <1>5, <1>7, <2>1, EarlierGrows
<1>9. EarlierAs(asked, PlayedUpTo(step), v)
  <2>1. asked.seed + asked.seeds <= PlayedUpTo(step) BY <1>2, <1>4, <1>5
  <2> QED BY <1>1, <2>1 DEF EarlierAs
<1> QED BY <1>1, <1>8, <1>9 DEF v

\* The next batch, or the candidate, plays on where the last one ended.
LEMMA BatchKnownSeeds ==
  ASSUME StepsInv, SeedsInv, BatchKnown
  PROVE  SeedsInv'
<1>1. /\ plan \in Plans /\ asked \in Asked /\ asked # Nil /\ asked.what = "batch"
      /\ step \in Nat /\ index \in Nat /\ step <= plan.steps
      /\ outcome = "running" /\ index <= Cardinality(Passed)
  BY AnsweredSeeds DEF BatchKnown
<1>2. step > 0 BY <1>1 DEF StepsInv, PhaseInv
<1>3. Done = step - 1 BY <1>1 DEF Done
<1>4. plan.batch \in Nat /\ plan.evals \in Nat /\ plan.steps \in Nat BY <1>1, PlanType
<1>5. UNCHANGED <<plan, outcome>> BY DEF BatchKnown
<1>6. /\ CheckpointSteps \subseteq 1..plan.steps /\ plan.steps \in CheckpointSteps
  BY <1>1, CheckpointStepsFinite
<1>7. IsFiniteSet(Passed) /\ Cardinality(Passed) \in Nat BY <1>1, PassedCount
<1>8. \A c \in CheckpointSteps : c <= step <=> c <= step - 1 \/ c = step
  BY <1>1, <1>4, <1>6
<1>9. index + 1 \in Nat /\ CheckpointSeed(index + 1) \in Nat
  <2>1. index + 1 \in Nat BY <1>1
  <2> QED BY <1>1, <2>1, SeedsAreNatural
<1>10. \A e \in earlier \cup {asked} :
         e \in Asked /\ EarlierAs(e, PlayedUpTo(step), CheckpointSeed(index + 1))
  BY BatchIsEarlier
<1>11. CASE step \notin CheckpointSteps
  <2>1. /\ step' = step + 1 /\ index' = index
        /\ Ask("batch", TrainingSeed(step + 1), plan.batch)
    BY <1>11 DEF BatchKnown, AskForBatch
  <2>2. TrainingSeed(step + 1) = PlayedUpTo(step) /\ PlayedUpTo(step) \in Nat
    BY <1>1, TrainingSeeds
  <2>3. /\ asked' \in Asked /\ asked' # Nil /\ asked'.what = "batch"
        /\ asked'.seed = PlayedUpTo(step) /\ asked'.seeds = plan.batch
    BY <1>4, <2>1, <2>2, AskType
  <2>4. Done' = step BY <1>1, <2>1, <2>3 DEF Done
  <2>5. Passed' = Passed
    <3>1. CheckpointSteps' = CheckpointSteps BY <1>5, SamePlan
    <3> QED BY <1>3, <1>8, <1>11, <2>4, <3>1 DEF Passed
  <2>6. EvaluatedUpTo' = CheckpointSeed(index + 1)
    BY <1>5, <2>1, <2>3 DEF EvaluatedUpTo, CheckpointSeed, ValidationSeed
  <2>7. earlier' = earlier \cup {asked} BY <1>1, <2>1, AskHistory
  <2>8. EarlierInv' BY <1>5, <1>10, <2>4, <2>6, <2>7, EarlierNow
  <2>9. PlayedUpTo(step - 1)' = PlayedUpTo(step)
    <3>1. step' - 1 = step BY <1>1, <2>1
    <3> QED BY <1>5, <3>1 DEF PlayedUpTo
  <2>10. AskedInv' BY <1>5, <2>3, <2>8, <2>9 DEF AskedInv
  <2>11. step' <= plan'.steps BY <1>1, <1>4, <1>5, <1>6, <1>11, <2>1
  <2> QED BY <1>1, <1>5, <2>1, <2>3, <2>5, <2>10, <2>11 DEF SeedsInv
<1>12. CASE step \in CheckpointSteps
  <2>1. /\ step' = step /\ index' = index + 1
        /\ Ask("candidate", CheckpointSeed(index + 1), plan.evals)
    BY <1>12 DEF BatchKnown
  <2>2. /\ asked' \in Asked /\ asked' # Nil /\ asked'.what = "candidate"
        /\ asked'.seed = CheckpointSeed(index + 1) /\ asked'.seeds = plan.evals
    BY <1>4, <1>9, <2>1, AskType
  <2>3. Done' = step BY <2>1, <2>2 DEF Done
  <2>4. Passed' = Passed \cup {step} /\ step \notin Passed
    <3>1. CheckpointSteps' = CheckpointSteps BY <1>5, SamePlan
    <3>2. ~(step <= step - 1) BY <1>1
    <3> QED BY <1>3, <1>8, <1>12, <2>3, <3>1, <3>2 DEF Passed
  <2>5. index' <= Cardinality(Passed')
    <3>1. Cardinality(Passed \cup {step}) = Cardinality(Passed) + 1
      BY <1>7, <2>4, FS_AddElement
    <3> QED BY <1>1, <1>7, <2>1, <2>4, <3>1
  <2>6. CheckpointSeed(index)' = CheckpointSeed(index + 1)
    BY <1>5, <2>1 DEF CheckpointSeed, ValidationSeed
  <2>7. EvaluatedUpTo' = CheckpointSeed(index + 1)
    BY <2>2, <2>6 DEF EvaluatedUpTo
  <2>8. earlier' = earlier \cup {asked} BY <1>1, <2>1, AskHistory
  <2>9. EarlierInv' BY <1>5, <1>10, <2>3, <2>7, <2>8, EarlierNow
  <2>10. AskedInv' BY <1>5, <2>2, <2>6, <2>9 DEF AskedInv
  <2> QED BY <1>1, <1>5, <2>1, <2>2, <2>5, <2>10 DEF SeedsInv
<1> QED BY <1>11, <1>12
\* The incumbent plays the games of its candidate.
LEMMA CandidateKnownSeeds ==
  ASSUME StepsInv, SeedsInv, CandidateKnown
  PROVE  SeedsInv'
<1>1. /\ plan \in Plans /\ asked \in Asked /\ asked # Nil /\ asked.what = "candidate"
      /\ step \in Nat /\ index \in Nat /\ step <= plan.steps
      /\ outcome = "running" /\ index <= Cardinality(Passed) /\ AskedInv
  BY AnsweredSeeds DEF CandidateKnown
<1>2. /\ asked.seed = CheckpointSeed(index) /\ asked.seeds = plan.evals /\ EarlierInv
  BY <1>1 DEF AskedInv
<1>3. /\ UNCHANGED <<plan, step, index, outcome>>
      /\ Ask("incumbent", CheckpointSeed(index), plan.evals)
  BY DEF CandidateKnown
<1>4. plan.evals \in Nat /\ CheckpointSeed(index) \in Nat BY <1>1, PlanType, SeedsAreNatural
<1>5. /\ asked' \in Asked /\ asked' # Nil /\ asked'.what = "incumbent"
      /\ asked'.seed = CheckpointSeed(index) /\ asked'.seeds = plan.evals
  BY <1>3, <1>4, AskType
<1>6. Done' = Done BY <1>1, <1>3, <1>5 DEF Done
<1>7. Passed' = Passed /\ ValidationSeed' = ValidationSeed BY <1>3, <1>6, SamePlan
<1>8. CheckpointSeed(index)' = CheckpointSeed(index) BY <1>3, <1>7 DEF CheckpointSeed
<1>9. EvaluatedUpTo = CheckpointSeed(index) /\ EvaluatedUpTo' = CheckpointSeed(index)
  BY <1>1, <1>5, <1>8 DEF EvaluatedUpTo
<1>10. PlayedUpTo(Done)' = PlayedUpTo(Done) BY <1>3, <1>6 DEF PlayedUpTo
<1>11. earlier' = earlier \cup {asked} BY <1>1, <1>3, AskHistory
<1> DEFINE As(e) == EarlierAs(e, PlayedUpTo(Done), EvaluatedUpTo)
<1>13. \A e : As(e)' = As(e) BY <1>7, <1>9, <1>10 DEF EarlierAs
<1>14. EarlierInv'
  <2> SUFFICES ASSUME NEW e \in earlier'
               PROVE  e \in Asked /\ (As(e)' \/ (asked'.what = "incumbent" /\ SameGames(e)'))
    BY DEF EarlierInv
  <2>1. CASE e \in earlier
    <3>1. e \in Asked /\ As(e) BY <1>1, <1>2, <2>1 DEF EarlierInv
    <3> QED BY <1>13, <3>1
  <2>2. CASE e = asked
    <3>1. SameGames(e)' BY <1>1, <1>2, <1>5, <2>2 DEF SameGames
    <3> QED BY <1>1, <1>5, <2>2, <3>1
  <2> QED BY <1>11, <2>1, <2>2
<1>15. \E e \in earlier' : SameGames(e)'
  <2>1. asked \in earlier' BY <1>11
  <2>2. asked.what = "candidate" /\ asked.seed = asked'.seed /\ asked.seeds = asked'.seeds
    BY <1>1, <1>2, <1>5
  <2> QED BY <2>1, <2>2 DEF SameGames
<1>16. AskedInv' BY <1>3, <1>5, <1>8, <1>14, <1>15 DEF AskedInv
<1> QED BY <1>1, <1>3, <1>5, <1>7, <1>16 DEF SeedsInv

\* Both evaluations of the checkpoint are among the earlier ones now.
LEMMA IncumbentIsEarlier ==
  ASSUME StepsInv, SeedsInv, IncumbentKnown
  PROVE  \A e \in earlier \cup {asked} :
           e \in Asked /\ EarlierAs(e, PlayedUpTo(step), CheckpointSeed(index + 1))
<1>1. /\ plan \in Plans /\ asked \in Asked /\ asked # Nil /\ asked.what = "incumbent"
      /\ step \in Nat /\ index \in Nat /\ outcome = "running" /\ AskedInv
  BY AnsweredSeeds DEF IncumbentKnown
<1>2. asked.seed = CheckpointSeed(index) /\ asked.seeds = plan.evals /\ EarlierInv
  BY <1>1 DEF AskedInv
<1>3. Done = step BY <1>1 DEF Done
<1> DEFINE t == PlayedUpTo(step)
           v == CheckpointSeed(index)
           w == CheckpointSeed(index + 1)
<1>4. t \in Nat /\ v \in Nat /\ w \in Nat /\ w = v + plan.evals /\ plan.evals \in Nat
  <2>1. index + 1 \in Nat BY <1>1
  <2> QED BY <1>1, <2>1, TrainingSeeds, SeedsAreNatural, CheckpointSeeds, PlanType
<1>5. ValidationSeed <= v
  <2>1. 0 \in Nat /\ 0 <= index BY <1>1
  <2> QED BY <1>1, <2>1, CheckpointSeeds
<1>6. EvaluatedUpTo = v BY <1>1 DEF EvaluatedUpTo
<1>7. asked.seed = v BY <1>2
<1> HIDE DEF t, v, w
<1>8. t <= t /\ v <= w BY <1>4
<1>9. \A e : e.seed = asked.seed /\ e.seeds = asked.seeds
               => ValidationSeed <= e.seed /\ e.seed + e.seeds <= w
  BY <1>2, <1>4, <1>5, <1>7
<1>10. EarlierAs(asked, t, w) BY <1>1, <1>9 DEF EarlierAs
<1>11. ASSUME NEW e \in earlier PROVE e \in Asked /\ EarlierAs(e, t, w)
  <2>1. e \in Asked /\ (EarlierAs(e, t, v) \/ SameGames(e))
    BY <1>2, <1>3, <1>6, <1>11 DEF EarlierInv, t
  <2>2. CASE EarlierAs(e, t, v) BY <1>4, <1>8, <2>1, <2>2, EarlierGrows
  <2>3. CASE SameGames(e) BY <1>9, <2>1, <2>3 DEF SameGames, EarlierAs
  <2> QED BY <2>1, <2>2, <2>3
<1> QED BY <1>1, <1>10, <1>11 DEF t, w

\* After the comparison the batches go on, or all checkpoints have been passed.
LEMMA IncumbentKnownSeeds ==
  ASSUME StepsInv, SeedsInv, IncumbentKnown
  PROVE  SeedsInv'
<1>1. /\ plan \in Plans /\ asked \in Asked /\ asked # Nil /\ asked.what = "incumbent"
      /\ step \in Nat /\ index \in Nat /\ step <= plan.steps
      /\ outcome = "running" /\ index <= Cardinality(Passed)
  BY AnsweredSeeds DEF IncumbentKnown
<1>2. Done = step BY <1>1 DEF Done
<1>3. UNCHANGED <<plan, index, outcome>> BY DEF IncumbentKnown
<1>4. plan.batch \in Nat /\ plan.heldOut \in Nat /\ plan.steps \in Nat BY <1>1, PlanType
<1>5. \A e \in earlier \cup {asked} :
        e \in Asked /\ EarlierAs(e, PlayedUpTo(step), CheckpointSeed(index + 1))
  BY IncumbentIsEarlier
<1>6. ASSUME NEW what \in {"batch", "held out"}, NEW seed \in Nat, NEW seeds \in Nat,
             Ask(what, seed, seeds), Done' = step,
             asked'.what = "batch" \/ asked'.what = "held out", asked' # Nil
      PROVE  EarlierInv' /\ Passed' = Passed
  <2>1. EvaluatedUpTo' = CheckpointSeed(index + 1)
    BY <1>3, <1>6 DEF EvaluatedUpTo, CheckpointSeed, ValidationSeed
  <2>2. earlier' = earlier \cup {asked} BY <1>1, <1>6, AskHistory
  <2>3. EarlierInv' BY <1>3, <1>5, <1>6, <2>1, <2>2, EarlierNow
  <2> QED BY <1>2, <1>3, <1>6, <2>3, SamePlan
<1>7. CASE step < plan.steps
  <2>1. step' = step + 1 /\ Ask("batch", TrainingSeed(step + 1), plan.batch)
    BY <1>7 DEF IncumbentKnown, AskForBatch
  <2>2. /\ TrainingSeed(step + 1) = PlayedUpTo(step) /\ TrainingSeed(step + 1) \in Nat
    BY <1>1, TrainingSeeds
  <2>3. /\ asked' \in Asked /\ asked' # Nil /\ asked'.what = "batch"
        /\ asked'.seed = PlayedUpTo(step) /\ asked'.seeds = plan.batch
    BY <1>4, <2>1, <2>2, AskType
  <2>4. Done' = step BY <1>1, <2>1, <2>3 DEF Done
  <2>5. EarlierInv' /\ Passed' = Passed BY <1>4, <1>6, <2>1, <2>2, <2>3, <2>4
  <2>6. PlayedUpTo(step - 1)' = PlayedUpTo(step)
    <3>1. step' - 1 = step BY <1>1, <2>1
    <3> QED BY <1>3, <3>1 DEF PlayedUpTo
  <2>7. AskedInv' BY <1>3, <2>3, <2>5, <2>6 DEF AskedInv
  <2>8. step' <= plan'.steps BY <1>1, <1>3, <1>4, <1>7, <2>1
  <2> QED BY <1>1, <1>3, <2>3, <2>5, <2>7, <2>8 DEF SeedsInv
<1>8. CASE ~(step < plan.steps)
  <2>1. step' = step /\ Ask("held out", HeldOutSeed, plan.heldOut)
    BY <1>8 DEF IncumbentKnown
  <2>2. HeldOutSeed \in Nat BY <1>1, SeedsAreNatural
  <2>3. /\ asked' \in Asked /\ asked' # Nil /\ asked'.what = "held out"
        /\ asked'.seed = HeldOutSeed
    BY <1>4, <2>1, <2>2, AskType
  <2>4. Done' = step BY <2>1, <2>3 DEF Done
  <2>5. EarlierInv' /\ Passed' = Passed BY <1>4, <1>6, <2>1, <2>2, <2>3, <2>4
  <2>6. HeldOutSeed' = HeldOutSeed BY <1>3, SamePlan
  <2>7. AskedInv' BY <2>3, <2>5, <2>6 DEF AskedInv
  <2> QED BY <1>1, <1>3, <2>1, <2>3, <2>5, <2>7 DEF SeedsInv
<1> QED BY <1>7, <1>8

\* No seed has been played yet.
LEMMA SeedsInitially == TrainingInit => SeedsInv
<1> SUFFICES ASSUME TrainingInit PROVE SeedsInv OBVIOUS
<1>1. plan \in Plans /\ step = 0 /\ index = 0 /\ asked = Nil /\ earlier = {} /\ outcome = "running"
  BY DEF TrainingInit
<1>2. plan.steps \in Nat /\ Cardinality(Passed) \in Nat BY <1>1, PlanType, PassedCount
<1>3. step <= plan.steps /\ index <= Cardinality(Passed) BY <1>1, <1>2
<1> QED BY <1>1, <1>3 DEF SeedsInv

\* Every step keeps the ranges of seeds where they should be.
LEMMA SeedsPreserved ==
  StepsInv /\ SeedsInv /\ [TrainingNext]_trainingVars => SeedsInv'
<1> SUFFICES ASSUME StepsInv, SeedsInv, [TrainingNext]_trainingVars PROVE SeedsInv' OBVIOUS
<1>1. CASE HeldOutKnown
  <2>1. Leave("done") BY <1>1 DEF HeldOutKnown
  <2> QED BY <2>1, SeedsLeft
<1>2. CASE Raise
  <2>1. Leave("failed") BY <1>2 DEF Raise
  <2> QED BY <2>1, SeedsLeft
<1>3. CASE WorkerRuns \/ UNCHANGED trainingVars
  <2>1. UNCHANGED <<plan, step, index, outcome, asked, earlier>>
    BY <1>3 DEF WorkerRuns, trainingVars, trainerVars
  <2>2. Done' = Done BY <2>1 DEF Done
  <2>3. Passed' = Passed /\ ValidationSeed' = ValidationSeed /\ HeldOutSeed' = HeldOutSeed
    BY <2>1, <2>2, SamePlan
  <2>4. EvaluatedUpTo' = EvaluatedUpTo BY <2>1, <2>3 DEF EvaluatedUpTo, CheckpointSeed
  <2>5. EarlierInv' = EarlierInv /\ OnlyShape' = OnlyShape
    BY <2>1, <2>2, <2>3, <2>4 DEF EarlierInv, EarlierAs, SameGames, PlayedUpTo, OnlyShape
  <2>6. AskedInv' = AskedInv
    BY <2>1, <2>3, <2>5 DEF AskedInv, PlayedUpTo, CheckpointSeed, SameGames
  <2> QED BY <2>1, <2>3, <2>6 DEF SeedsInv
<1> QED
  BY <1>1, <1>2, <1>3, AskShapeSeeds, ShapeKnownSeeds, InitialKnownSeeds, BatchKnownSeeds,
     CandidateKnownSeeds, IncumbentKnownSeeds DEF TrainingNext, Train

\* However many steps, checkpoints and games there are: no two ranges of seeds meet but
\* those of a candidate and its incumbent.
THEOREM SeedsStayFresh == TrainingSpec => []FreshSeeds
<1> QED BY StepsInitially, StepsPreserved, SeedsInitially, SeedsPreserved, SeedsAreFresh, PTL
        DEF TrainingSpec
=============================================================================
