SPECIFICATION WriteFairSpec
CONSTANTS
  CHUNK_SIZE = 4
  WRITE_HEADER_SIZE = 1
  MAX_FILE_SIZE = 12
  FileLengths <- MCFileLengths
  Resets = FALSE
PROPERTIES
  EveryWriteIsAnswered
CHECK_DEADLOCK FALSE
