SPECIFICATION TrainingSpec
CONSTANTS
  Nil = Nil
  Goroutines = {g1, g2, g3}
  Plans <- SmallPlans
INVARIANTS
  FreshSeeds
  RejectedStepsLeaveNoTrace
  EverySeedCountsOnce
PROPERTIES
  TrainingEnds
CHECK_DEADLOCK FALSE
