SPECIFICATION Spec
CONSTANTS
  MaxChannels = 1
  MaxChunks = 1
  Caps = {"exec"}
  UploadEnabled = TRUE
  DeleteAfterUpload = TRUE
CHECK_DEADLOCK FALSE
INVARIANTS
  UploadIsFinished
