SPECIFICATION Spec
CONSTANTS
  DirOf <- MCDirOf
  CodesNumeric = FALSE
  Exts <- MCExts
  ImgExts <- MCImgExts
  Isresizeimg = TRUE
  Listings <- MCListings
  FaultLogs <- MCFaultLogs
  FaultTxts <- MCFaultTxts
INVARIANT FetchedLogIsUsed
