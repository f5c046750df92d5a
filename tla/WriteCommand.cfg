SPECIFICATION WriteFairSpec
CONSTANTS
  CHUNK_SIZE = 4
  WRITE_HEADER_SIZE = 1
  MAX_FILE_SIZE = 12
  FileLengths <- MCFileLengths
  Resets = TRUE
INVARIANTS
  WriteInv
  RejectionKeepsSlot
  SuccessMeansStored
  ReplyIsExclusive
PROPERTIES
  UsesAsyncUart
  WriteReturns
