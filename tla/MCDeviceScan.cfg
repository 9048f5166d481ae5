SPECIFICATION FairSpec
CONSTANTS
  DirOf <- MCDirOf
  CodesNumeric = FALSE
  Exts <- MCExts
  ImgExts <- MCImgExts
  Isresizeimg = FALSE
  Listings <- MCListings
  FaultLogs <- MCFaultLogs
  FaultTxts <- MCFaultTxts
INVARIANTS
  TypeOK
  FaultsAreExplained
  FaultsReported
  StaleInfoBlanked
  HealthOnEvidence
  NoFalseAlarm
 
