SPECIFICATION Spec
CONSTANTS
  Upper = 2
  Durations = {0, 2}
  Counts = {0, 1, 2}
  MaxCalls = 5
  ActOn = {"Completed", "Dismissed"}
INVARIANTS NeverFails ListenersAreUpToDate
PROPERTY AnimationEnds
CHECK_DEADLOCK FALSE
