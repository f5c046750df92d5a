SPECIFICATION AsyncFairSpec
CONSTANTS
  CHUNK_SIZE = 4
  WRITE_HEADER_SIZE = 1
  MAX_FILE_SIZE = 12
  FileLengths <- MCFileLengths
INVARIANTS
  BufferBound
  CompleteMeansFilled
  StoppedMeansHalted
  NoOverrun
  AsyncInv
PROPERTIES
  KeepsTransferContract
  UploadStops
