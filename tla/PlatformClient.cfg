SPECIFICATION FairSpec
CONSTANTS
  Loops = {device, service}
  device = device
  service = service
  Main = main
  Slots = {1, 2}
  MaxIssue = 2
INVARIANT TypeOK
PROPERTIES
  DeliversReports
  CacheMadeOnce
  Recovers
