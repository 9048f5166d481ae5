SPECIFICATION ProcessFairSpec
CONSTANTS
  MaxDevices = 4
  Devicesize = 2
  Undialable = {3}
INVARIANTS Collected HandedUpTo
PROPERTIES AllHandedOver BatchesDisjoint CompleteSync MonitoredReportedWithoutCrashes
