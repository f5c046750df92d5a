SPECIFICATION ReadFairSpec
CONSTANTS
  CHUNK_SIZE = 8
  READ_HEADER_LENGTH = 2
  AES_BLOCK = 2
  HEADER_SIZE = 2
  ERROR_LENGTH = 3
  FileLengths <- MCFileLengths
  Resets = TRUE
INVARIANTS
  ReadTypeOK
  NoBufferRace
  DeliveredInOrder
  TagGuardsLastChunk
  NoStrayAck
PROPERTIES
  ReadReturns
