SPECIFICATION Spec
CONSTANTS
  MaxN = 3
  MealsGoal = 1
  NoOne = NoOne
INVARIANTS
  DeadlockConfirmed
CHECK_DEADLOCK FALSE
