SPECIFICATION FairSpec
CONSTANTS
  MaxChannels = 2
  MaxChunks = 2
  Caps = {"exec"}
  UploadEnabled = TRUE
  DeleteAfterUpload = TRUE
CHECK_DEADLOCK FALSE
INVARIANTS
  IndInv
  StdoutIsKept
  RemovedIsUploaded
  FinishedIsReachable
  ExitStatusDelivered
PROPERTIES
  KilledUnwinds
