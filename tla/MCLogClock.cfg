SPECIFICATION Spec
CONSTANTS
  Synctime = 1
  Overtime = 3
  Day = 360
  Skews <- MCSkews
  WriteEvery = 120
  Steps = {30}
  LastDay = 1
INVARIANTS
  SkewJudged
  SilenceJudged
  MissedNearMidnight
