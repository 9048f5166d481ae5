SPECIFICATION OutFairSpec
CONSTANTS
  Attempts = {a1, a2}
  Outputs <- MCOutputs
INVARIANTS OnlyTimeoutsLeaveTraces PanicsOnlyOnFragments RejectsOnlyF7
PROPERTIES ReturnedMeansEnded CallsReturnOrPanic
CHECK_DEADLOCK FALSE
