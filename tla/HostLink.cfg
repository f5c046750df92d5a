SPECIFICATION HostFairSpec
CONSTANTS
  CHUNK_SIZE = 256
  NUM_SLOTS = 8
  ENTRY_SIZE = 35
  COUNT_SIZE = 4
  ERROR_LENGTH = 12
  PIN_LENGTH = 2
  FIFO_DEPTH = 4
  WATCHDOG = 16
  HASH = 1
  PIN_DELAY = 14
  Junk = {"%", "L", "x"}
  MaxEvents = 2
INVARIANTS
  HostTypeOK
  InStep
  PromptInTime
PROPERTIES
  Recovers
